------------------------- MODULE CommandClientProof -------------------------
(***************************************************************************)
(* Proofs that the command-line client sends a command once, shows its own *)
(* answer, ends and leaves the drawer free, for every set of lines and any *)
(* number of messages in the air; and that it implements DrawerCall.       *)
(*                                                                         *)
(* The argument about answers is one about the order on the link: the      *)
(* answer that the drawer sends in answering comes before the              *)
(* acknowledgement of the write, so that it is not on the link any more    *)
(* when the next command begins.  What the loop task sends is no part of   *)
(* this order: a repeat of the answer may come at any later time.          *)
(***************************************************************************)
EXTENDS CommandClient, TLAPS, SequenceTheorems

Connecting == {"scanning", "connecting", "check", "subscribing"}

(* The command is under way and not written yet.                           *)
Before == Connecting \cup {"start", "sending", "sleeping", "ready"}

InAir(m) == \E k \in DOMAIN air : air[k] = m

(* Links.                                                                  *)
Links ==
  /\ oldUp => spoiled
  /\ pc = "start" => client = "none"
  /\ pc = "connecting" => client = "down"
  /\ pc \in {"scanning", "sleeping"} /\ Connected => spoiled
  /\ pc = "exited" /\ Connected => spoiled \/ code = 130

(* The words of the command under way.                                     *)
KnownVerb ==
  sent.verb \in DrawerVerbs \/ (mode = "once" /\ sent.verb \in VALID_COMMANDS)

Words ==
  /\ sent # Blank => KnownVerb
  /\ pc = "start" => sent = Blank
  /\ pc \in {"sending", "sleeping", "ready", "writing", "waiting"} => sent # Blank
  /\ pc \in Connecting => (sent = Blank <=> attempt = 0 /\ mode = "interactive")
  /\ pc = "prompt" => mode = "interactive"
  /\ request = "sent" => sent # Blank

(* How far the command is.                                                 *)
Progress ==
  /\ executed \in 0..1
  /\ request = "sent" => executed = 0
  /\ request \in {"answering", "executed"} => executed = 1
  /\ InAir("ack") => executed = 1 /\ request = "none"
  /\ pc \in Before => request = "none" /\ ~InAir("ack") /\ executed = 0
  /\ pc \in {"prompt", "waiting"} =>
       request = "none" /\ ~InAir("ack") /\ (sent # Blank => executed = 1)
  /\ Done => request = "none" /\ executed = 1

(* Once the acknowledgement is on its way, the answer is not behind it; and*)
(* no answer comes before the execution, from neither task.                *)
Order ==
  /\ \A j, k \in DOMAIN air :
       air[j] = "ack" /\ j < k => air[k] \notin {"ack", "answer"}
  /\ InAir("answer") => executed = 1
  /\ InAir("repeat") => executed = 1
  /\ value = "answer" => executed = 1
  /\ request = "answering" => value # "oldAnswer"
  /\ pc \in Before \cup {"prompt", "waiting"} => ~InAir("answer")
  /\ ~InAir("oldAnswer")

Answers ==
  /\ statusEvent /\ pc \in {"writing", "waiting"} => lastStatus # "oldAnswer"
  /\ printed # "oldAnswer"
  /\ executed = 1 /\ pc # "exited" =>
       seen \/ lost \/ InAir("answer") \/ request = "answering"
  /\ Done => seen \/ lost

IInv == TypeOK /\ Links /\ Words /\ Progress /\ Order /\ Answers

Ordered ==
  \A j, k \in DOMAIN air :
    air[j] = "ack" /\ j < k => air[k] \notin {"ack", "answer"}

-----------------------------------------------------------------------------
(* The messages in the air.                                                *)
LEMMA Sending ==
  ASSUME TypeOK, NEW m \in Messages, Sends(m)
  PROVE  /\ air' \in Seq(Messages) /\ Len(air') <= MaxAir
         /\ \A x : InAir(x)' <=> InAir(x) \/ x = m
         /\ Ordered /\ (m \in {"ack", "answer"} => ~InAir("ack")) => Ordered'
<1>1. /\ air \in Seq(Messages) /\ air' = Append(air, m)
      /\ Len(air) \in Nat /\ Len(air) < MaxAir /\ MaxAir \in Nat
  BY AirAssumption DEF Sends, TypeOK
<1>2. /\ air' \in Seq(Messages) /\ Len(air') = Len(air) + 1
      /\ DOMAIN air = 1..Len(air) /\ DOMAIN air' = 1..(Len(air) + 1)
      /\ \A k \in 1..Len(air) : air'[k] = air[k]
      /\ air'[Len(air) + 1] = m
  BY <1>1, AppendProperties, LenProperties
<1>3. \A x : InAir(x)' <=> InAir(x) \/ x = m
  BY <1>1, <1>2 DEF InAir
<1>4. Ordered /\ (m \in {"ack", "answer"} => ~InAir("ack")) => Ordered'
  BY <1>1, <1>2 DEF Ordered, InAir
<1> QED
  BY <1>1, <1>2, <1>3, <1>4

LEMMA Receiving ==
  ASSUME TypeOK, air # <<>>, air' = Tail(air)
  PROVE  /\ air' \in Seq(Messages) /\ Len(air') <= MaxAir
         /\ Head(air) \in Messages /\ InAir(Head(air))
         /\ \A x : InAir(x)' => InAir(x)
         /\ \A x : InAir(x) => InAir(x)' \/ x = Head(air)
         /\ Ordered => Ordered'
         /\ Ordered /\ Head(air) = "ack" => ~InAir("ack")' /\ ~InAir("answer")'
<1>1. /\ air \in Seq(Messages) /\ Len(air) \in Nat \ {0} /\ Len(air) <= MaxAir
      /\ MaxAir \in Nat
  BY AirAssumption, EmptySeq DEF TypeOK
<1>2. /\ air' \in Seq(Messages) /\ Len(air') = Len(air) - 1
      /\ Head(air) = air[1] /\ Head(air) \in Messages
      /\ DOMAIN air = 1..Len(air) /\ DOMAIN air' = 1..(Len(air) - 1)
      /\ \A k \in 1..(Len(air) - 1) : air'[k] = air[k + 1]
  BY <1>1, HeadTailProperties, LenProperties
<1>3. \A x : InAir(x)' => InAir(x)
  BY <1>1, <1>2 DEF InAir
<1>4. \A x : InAir(x) => InAir(x)' \/ x = Head(air)
  <2> SUFFICES ASSUME NEW x, InAir(x), x # Head(air) PROVE InAir(x)'
    OBVIOUS
  <2>1. PICK k \in DOMAIN air : air[k] = x
    BY DEF InAir
  <2>2. k - 1 \in DOMAIN air' /\ air'[k - 1] = x
    BY <1>1, <1>2, <2>1
  <2> QED
    BY <2>2 DEF InAir
<1>5. Ordered => Ordered'
  <2> SUFFICES ASSUME Ordered, NEW j \in DOMAIN air', NEW k \in DOMAIN air',
                      air'[j] = "ack", j < k
               PROVE  air'[k] \notin {"ack", "answer"}
    BY DEF Ordered
  <2> QED
    BY <1>1, <1>2 DEF Ordered
<1>6. Ordered /\ Head(air) = "ack" => ~InAir("ack")' /\ ~InAir("answer")'
  BY <1>1, <1>2 DEF Ordered, InAir
<1> QED
  BY <1>1, <1>2, <1>3, <1>4, <1>5, <1>6 DEF InAir

LEMMA Silence == air' = <<>> => (\A x : ~InAir(x)') /\ Ordered' /\ air' \in Seq(Messages)
  BY DEF InAir, Ordered

(* When a command begins there is no answer in the air that could age, but *)
(* for what the loop task has repeated.                                    *)
LEMMA Aging ==
  ASSUME TypeOK, ~InAir("answer"), ~InAir("oldAnswer"), ~InAir("ack"),
         air' = [k \in DOMAIN air |-> Aged(air[k])]
  PROVE  /\ ~InAir("answer")' /\ ~InAir("oldAnswer")' /\ ~InAir("ack")'
         /\ ~InAir("repeat")' /\ Ordered'
<1>1. DOMAIN air' = DOMAIN air
  OBVIOUS
<1>2. \A k \in DOMAIN air : air'[k] \notin {"answer", "oldAnswer", "ack", "repeat"}
  BY DEF InAir, Aged
<1> QED
  BY <1>1, <1>2 DEF InAir, Ordered

LEMMA AgedValue ==
  ASSUME TypeOK, value' = Aged(value)
  PROVE  value' \in {"line", "oldAnswer"}
  BY DEF Aged, TypeOK

-----------------------------------------------------------------------------
(* Type correctness.                                                       *)
(* The conjuncts of TypeOK by sort.                                        *)
Labels ==
  /\ mode \in {"once", "interactive"} /\ pc \in Await
  /\ sent \in Lines \cup {Blank}
  /\ client \in {"none", "down", "up"}
  /\ lastStatus \in Status /\ printed \in Status
  /\ request \in {"none", "sent", "answering", "executed"}
  /\ value \in {"line", "answer", "oldAnswer"}

Flags ==
  /\ deviceKnown \in BOOLEAN /\ oldUp \in BOOLEAN /\ subscribed \in BOOLEAN
  /\ statusEvent \in BOOLEAN /\ reporting \in BOOLEAN
  /\ seen \in BOOLEAN /\ lost \in BOOLEAN /\ spoiled \in BOOLEAN

Numbers == code \in {0, 1, 2, 130} /\ attempt \in 0..3 /\ executed \in 0..2

AirType == air \in Seq(Messages) /\ Len(air) <= MaxAir

LEMMA TypeSplits ==
  /\ TypeOK  <=> Labels /\ Flags /\ Numbers /\ AirType
  /\ TypeOK' <=> Labels' /\ Flags' /\ Numbers' /\ AirType'
  BY DEF TypeOK, Labels, Flags, Numbers, AirType

LEMMA InitIInv == Init => IInv
<1> SUFFICES ASSUME Init PROVE IInv
  OBVIOUS
<1>1. AirType
  BY EmptySeq, AirAssumption DEF Init, AirType
<1>2. Labels
  BY DEF Init, Labels, Await, Status
<1>3. Flags
  BY DEF Init, Flags
<1>4. Numbers
  BY DEF Init, Numbers
<1>5. Links /\ Words
  BY DEF Init, Links, Connected, Words, Connecting, Blank
<1>6. \A x : ~InAir(x)
  BY DEF Init, InAir
<1>7. Progress
  BY <1>6 DEF Init, Progress, Done
<1>8. Order
  BY <1>6 DEF Init, Order
<1>9. Answers
  BY <1>6 DEF Init, Answers, Done
<1> QED
  BY <1>1, <1>2, <1>3, <1>4, <1>5, <1>7, <1>8, <1>9, TypeSplits DEF IInv

LEMMA AirKept == TypeOK /\ [Next]_vars => AirType'
<1> SUFFICES ASSUME TypeOK, [Next]_vars PROVE AirType'
  OBVIOUS
<1>1. AirType /\ value \in {"line", "answer", "oldAnswer"}
  BY TypeSplits DEF Labels
<1>2. \/ UNCHANGED air
      \/ air' = [k \in DOMAIN air |-> Aged(air[k])]
      \/ air' = <<>>
      \/ air # <<>> /\ air' = Tail(air)
      \/ \E m \in Messages : Sends(m)
  <2>1. CASE Connect \/ SendCommand
    BY <2>1 DEF Connect, ScanEnds, ClientConnects, ClientConnectFails, ConnectChecks,
       Subscribes, SubscribeFails, SendCommand, EnsureConnected, Retries, Write,
       WriteFails, Answered, TimesOut, drawer
  <2>2. CASE Disconnect
    BY <2>2 DEF Disconnect, Disconnects, DisconnectFails, LinkDrops, drawer
  <2>3. CASE User
    BY <2>3 DEF User, StartOnce, StartInteractive, Types, EndOfInput, Interrupt,
       NewCommand, drawer
  <2>4. CASE Drawer
    BY <1>1, <2>4 DEF Drawer, ReportSets, ReportNotifies, Repeated, Execute,
       AnswerNotifies, Acknowledge, Messages
  <2>5. CASE Radio
    BY <2>5 DEF Radio, OnStatus, Written, LinkLost, LinkDrops
  <2>6. CASE UNCHANGED vars
    BY <2>6 DEF vars, drawer
  <2> QED
    BY <2>1, <2>2, <2>3, <2>4, <2>5, <2>6 DEF Next, Program
<1>3. ASSUME air' = [k \in DOMAIN air |-> Aged(air[k])]
      PROVE  AirType'
  <2>1. \A k \in 1..Len(air) : Aged(air[k]) \in Messages
    BY <1>1, ElementOfSeq DEF Aged, AirType, Messages
  <2>2. air' \in [1..Len(air) -> Messages] /\ Len(air) \in Nat
    BY <1>1, <1>3, <2>1, LenProperties DEF AirType
  <2>3. air' \in Seq(Messages)
    BY <2>2, SeqDef
  <2>4. Len(air') = Len(air)
    BY <2>2, <2>3, LenProperties
  <2> QED
    BY <1>1, <2>3, <2>4 DEF AirType
<1>4. ASSUME air' = <<>> PROVE AirType'
  BY <1>4, EmptySeq, AirAssumption DEF AirType
<1> QED
  BY <1>1, <1>2, <1>3, <1>4, Sending, Receiving DEF AirType

LEMMA LabelsKept == TypeOK /\ [Next]_vars => Labels'
<1> SUFFICES ASSUME TypeOK, [Next]_vars PROVE Labels'
  OBVIOUS
<1>0. Labels
  BY TypeSplits
<1> USE <1>0 DEF Labels, Await, Status, console, ble, answer, drawer, history
<1>1. CASE Connect
  <2>1. CASE Subscribes
    <3>1. attempt > 0 \/ attempt = 0
      BY TypeSplits DEF Numbers
    <3> QED
      BY <2>1, <3>1 DEF Subscribes
  <2> QED
    BY <1>1, <2>1 DEF Connect, ScanEnds, ClientConnects, ClientConnectFails,
       ConnectChecks, SubscribeFails, ConnectRaises, Leave, NewClient
<1>2. CASE SendCommand
  BY <1>2 DEF SendCommand, EnsureConnected, Retries, Write, WriteFails, Answered,
     TimesOut, CommandEnds, Leave, BeginConnect, NewClient
<1>3. CASE Disconnect
  BY <1>3 DEF Disconnect, Disconnects, DisconnectFails, LinkDrops
<1>4. CASE StartInteractive \/ EndOfInput \/ Interrupt
  BY <1>4 DEF StartInteractive, EndOfInput, Interrupt, BeginConnect, Leave, NewClient
<1>5. CASE StartOnce \/ Types
  <2>1. \A m \in Status : Aged(m) \in Status
    BY DEF Aged, Messages
  <2>2. Aged(value) \in {"line", "answer", "oldAnswer"}
    BY DEF Aged
  <2>3. UNCHANGED <<lastStatus, value>> \/ (lastStatus' = Aged(lastStatus) /\ value' = Aged(value))
    BY <1>5 DEF StartOnce, Types, NewCommand
  <2>4. lastStatus' \in Status /\ value' \in {"line", "answer", "oldAnswer"}
    BY <2>1, <2>2, <2>3
  <2>5. /\ printed' \in Status /\ request' = request
        /\ mode' \in {"once", "interactive"} /\ sent' \in Lines \cup {Blank}
    BY <1>5 DEF StartOnce, Types, NewCommand, Leave
  <2>6. pc' \in Await /\ client' \in {"none", "down", "up"}
    BY <1>5 DEF StartOnce, Types, BeginConnect, Leave, NewClient
  <2> QED
    BY <2>4, <2>5, <2>6
<1>6. CASE Drawer
  BY <1>6 DEF Drawer, ReportSets, ReportNotifies, Execute, AnswerNotifies, Acknowledge
<1>7. CASE OnStatus
  <2>1. Head(air) \in Messages
    BY <1>7, Receiving DEF OnStatus
  <2> QED
    BY <1>7, <2>1 DEF OnStatus, Messages
<1>8. CASE Written
  BY <1>8 DEF Written
<1>9. CASE LinkLost
  BY <1>9 DEF LinkLost, LinkDrops
<1>10. CASE UNCHANGED vars
  BY <1>10 DEF vars
<1> QED
  BY <1>1, <1>2, <1>3, <1>4, <1>5, <1>6, <1>7, <1>8, <1>9, <1>10
     DEF Next, Program, User, Radio

LEMMA FlagsKept == TypeOK /\ [Next]_vars => Flags'
<1> SUFFICES ASSUME TypeOK, [Next]_vars PROVE Flags'
  OBVIOUS
<1>0. Flags
  BY TypeSplits
<1> USE <1>0 DEF Flags, console, ble, answer, drawer, history
<1>1. CASE Connect
  BY <1>1 DEF Connect, ScanEnds, ClientConnects, ClientConnectFails, ConnectChecks,
     Subscribes, SubscribeFails, ConnectRaises, Leave, NewClient, Connected, LinkUp
<1>2. CASE SendCommand
  BY <1>2 DEF SendCommand, EnsureConnected, Retries, Write, WriteFails, Answered,
     TimesOut, CommandEnds, Leave, BeginConnect, NewClient, Connected, LinkUp
<1>3. CASE Disconnect
  BY <1>3 DEF Disconnect, Disconnects, DisconnectFails, LinkDrops
<1>4. CASE User
  <2>1. CASE StartOnce
    BY <1>4, <2>1 DEF StartOnce, BeginConnect, NewClient, NewCommand, Connected, LinkUp
  <2>2. CASE Types
    BY <1>4, <2>2 DEF Types, NewCommand
  <2>3. CASE StartInteractive \/ EndOfInput \/ Interrupt
    BY <1>4, <2>3 DEF StartInteractive, EndOfInput, Interrupt, BeginConnect, NewClient,
       Connected, LinkUp
  <2> QED
    BY <1>4, <2>1, <2>2, <2>3 DEF User
<1>5. CASE Drawer
  BY <1>5 DEF Drawer, ReportSets, ReportNotifies, Execute, AnswerNotifies, Acknowledge
<1>6. CASE Radio
  BY <1>6 DEF Radio, OnStatus, Written, LinkLost, LinkDrops
<1>7. CASE UNCHANGED vars
  BY <1>7 DEF vars
<1> QED
  BY <1>1, <1>2, <1>3, <1>4, <1>5, <1>6, <1>7 DEF Next, Program

LEMMA NumbersKept == TypeOK /\ [Next]_vars => Numbers'
<1> SUFFICES ASSUME TypeOK, [Next]_vars PROVE Numbers'
  OBVIOUS
<1>0. Numbers
  BY TypeSplits
<1> USE <1>0 DEF Numbers, console, ble, answer, drawer, history
<1>1. CASE Connect
  BY <1>1 DEF Connect, ScanEnds, ClientConnects, ClientConnectFails, ConnectChecks,
     Subscribes, SubscribeFails, ConnectRaises, Leave
<1>2. CASE SendCommand
  BY <1>2 DEF SendCommand, EnsureConnected, Retries, Write, WriteFails, Answered,
     TimesOut, CommandEnds, Leave, BeginConnect
<1>3. CASE Disconnect
  BY <1>3 DEF Disconnect, Disconnects, DisconnectFails, LinkDrops
<1>4. CASE User
  BY <1>4 DEF User, StartOnce, StartInteractive, Types, EndOfInput, Interrupt,
     BeginConnect, Leave, NewCommand
<1>5. CASE Drawer
  BY <1>5 DEF Drawer, ReportSets, ReportNotifies, Execute, AnswerNotifies, Acknowledge
<1>6. CASE Radio
  BY <1>6 DEF Radio, OnStatus, Written, LinkLost, LinkDrops
<1>7. CASE UNCHANGED vars
  BY <1>7 DEF vars
<1> QED
  BY <1>1, <1>2, <1>3, <1>4, <1>5, <1>6, <1>7 DEF Next, Program

LEMMA TypeKept == TypeOK /\ [Next]_vars => TypeOK'
  BY AirKept, LabelsKept, FlagsKept, NumbersKept, TypeSplits

-----------------------------------------------------------------------------
(* The other parts of the invariant.                                       *)
LEMMA ValidLine ==
  ASSUME NEW line, Validate(line)
  PROVE  line # Blank /\ line.verb \in VALID_COMMANDS
<1>1. Blank.verb = ""
  BY DEF Blank
<1>2. line.verb \in VALID_COMMANDS /\ "" \notin VALID_COMMANDS
  BY DEF Validate, VALID_COMMANDS
<1> QED
  BY <1>1, <1>2

LEMMA Leaving ==
  ASSUME NEW c, Leave(c)
  PROVE  pc' \in {"exited", "closing"} /\ code' = c /\ UNCHANGED <<mode, sent>>
  BY DEF Leave

LEMMA Raising ==
  ASSUME ConnectRaises, attempt \in 0..3
  PROVE  /\ UNCHANGED <<mode, sent, attempt>>
         /\ \/ pc' \in {"exited", "closing"} /\ code' = 1
            \/ pc' = "sleeping" /\ attempt # 0
<1>1. CASE attempt = 0
  BY <1>1, Leaving DEF ConnectRaises
<1>2. CASE attempt # 0
  BY <1>2 DEF ConnectRaises, console
<1> QED
  BY <1>1, <1>2

LEMMA Subscribing ==
  ASSUME Subscribes, attempt \in 0..3, mode \in {"once", "interactive"}
  PROVE  \/ attempt # 0 /\ pc' = "ready"
         \/ attempt = 0 /\ mode = "once" /\ pc' = "sending"
         \/ attempt = 0 /\ mode = "interactive" /\ pc' = "prompt"
  BY DEF Subscribes

LEMMA Beginning ==
  ASSUME NEW n, BeginConnect(n)
  PROVE  attempt' = n /\ pc' \in {"scanning", "connecting"}
  BY DEF BeginConnect, NewClient

LEMMA LinksKept == IInv /\ [Next]_vars => Links'
<1> SUFFICES ASSUME IInv, [Next]_vars PROVE Links'
  OBVIOUS
<1>0. Links /\ Labels /\ Flags
  BY TypeSplits DEF IInv
<1> USE <1>0 DEF Links, Labels, Flags, Connected, LinkUp, console, ble, answer, drawer, history
<1>1. CASE ScanEnds
  BY <1>1 DEF ScanEnds, ConnectRaises, Leave, NewClient
<1>2. CASE ClientConnects \/ ClientConnectFails
  BY <1>2 DEF ClientConnects, ClientConnectFails, ConnectRaises, Leave
<1>3. CASE ConnectChecks
  BY <1>3 DEF ConnectChecks, ConnectRaises, Leave
<1>4. CASE Subscribes
  <2>1. pc' \in {"ready", "sending", "prompt"}
    BY <1>4, Subscribing, TypeSplits DEF IInv, Labels, Numbers
  <2> QED
    BY <1>4, <2>1 DEF Subscribes
<1>5. CASE SubscribeFails
  <2>1. pc' \in {"exited", "closing", "sleeping"}
    BY <1>5, Raising, TypeSplits DEF SubscribeFails, IInv, Numbers
  <2> QED
    BY <1>5, <2>1 DEF SubscribeFails
<1>6. CASE SendCommand
  BY <1>6 DEF SendCommand, EnsureConnected, Retries, Write, WriteFails, Answered,
     TimesOut, CommandEnds, Leave, BeginConnect, NewClient, InFirstConnect
<1>7. CASE Disconnect
  BY <1>7 DEF Disconnect, Disconnects, DisconnectFails, LinkDrops
<1>8. CASE User
  BY <1>8 DEF User, StartOnce, StartInteractive, Types, EndOfInput, Interrupt,
     BeginConnect, Leave, NewClient, NewCommand, InFirstConnect
<1>9. CASE Drawer
  BY <1>9 DEF Drawer, ReportSets, ReportNotifies, Execute, AnswerNotifies, Acknowledge
<1>10. CASE Radio
  BY <1>10 DEF Radio, OnStatus, Written, LinkLost, LinkDrops
<1>11. CASE UNCHANGED vars
  BY <1>11 DEF vars
<1> QED
  BY <1>1, <1>2, <1>3, <1>4, <1>5, <1>6, <1>7, <1>8, <1>9, <1>10, <1>11
     DEF Next, Program, Connect

LEMMA WordsKept == IInv /\ [Next]_vars => Words'
<1> SUFFICES ASSUME IInv, [Next]_vars PROVE Words'
  OBVIOUS
<1>0. /\ Words
      /\ attempt \in 0..3 /\ mode \in {"once", "interactive"}
  BY TypeSplits DEF IInv, Labels, Numbers
<1> USE <1>0 DEF Words, KnownVerb, Connecting, console, ble, answer, drawer, history
<1>1. CASE Connect
  <2>1. CASE ScanEnds
    BY <2>1, Raising DEF ScanEnds, NewClient
  <2>2. CASE ClientConnects
    BY <2>2 DEF ClientConnects
  <2>3. CASE ClientConnectFails \/ SubscribeFails
    BY <2>3, Raising DEF ClientConnectFails, SubscribeFails
  <2>4. CASE ConnectChecks
    BY <2>4, Raising DEF ConnectChecks
  <2>5. CASE Subscribes
    BY <2>5, Subscribing DEF Subscribes
  <2> QED
    BY <1>1, <2>1, <2>2, <2>3, <2>4, <2>5 DEF Connect
<1>2. CASE SendCommand
  <2>1. CASE EnsureConnected
    BY <2>1, Beginning DEF EnsureConnected
  <2>2. CASE Retries
    BY <2>2, Beginning, Leaving DEF Retries
  <2>3. CASE Write \/ WriteFails
    BY <2>3, Leaving DEF Write, WriteFails
  <2>4. CASE Answered \/ TimesOut
    BY <2>4, Leaving DEF Answered, TimesOut, CommandEnds
  <2> QED
    BY <1>2, <2>1, <2>2, <2>3, <2>4 DEF SendCommand
<1>3. CASE Disconnect
  BY <1>3 DEF Disconnect, Disconnects, DisconnectFails, LinkDrops
<1>4. CASE StartInteractive \/ EndOfInput \/ Interrupt
  BY <1>4, Leaving, Beginning DEF StartInteractive, EndOfInput, Interrupt
<1>5. CASE StartOnce
  BY <1>5, Beginning, ValidLine DEF StartOnce, NewCommand
<1>6. CASE Types
  <2>1. PICK line \in Lines :
          \/ Leave(0)
          \/ /\ line.verb \notin {"QUIT", "EXIT", "HELP"} /\ Validate(line)
             /\ sent' = line /\ pc' = "sending" /\ request' = request
    BY <1>6 DEF Types, NewCommand
  <2>2. CASE Leave(0)
    BY <1>6, <2>2, Leaving DEF Types, NewCommand
  <2>3. CASE ~Leave(0)
    <3>1. line # Blank /\ line.verb \in DrawerVerbs
      BY <2>1, <2>3, ValidLine DEF DrawerVerbs
    <3> QED
      BY <2>1, <2>3, <3>1
  <2> QED
    BY <2>2, <2>3
<1>7. CASE Drawer
  BY <1>7 DEF Drawer, ReportSets, ReportNotifies, Execute, AnswerNotifies, Acknowledge
<1>8. CASE Radio
  BY <1>8 DEF Radio, OnStatus, Written, LinkLost, LinkDrops
<1>9. CASE UNCHANGED vars
  BY <1>9 DEF vars
<1> QED
  BY <1>1, <1>2, <1>3, <1>4, <1>5, <1>6, <1>7, <1>8, <1>9 DEF Next, Program, User

(* connect() and send_command() leave the air alone and take the command   *)
(* from await to await; only Write requests anything.                      *)
LEMMA ProgramSteps ==
  ASSUME IInv, Connect \/ SendCommand
  PROVE  /\ UNCHANGED <<air, value, sent, mode>>
         /\ pc # "exited"
         /\ request' = request \/ (pc = "ready" /\ pc' = "writing" /\ request' = "sent")
         /\ pc' \in Before => pc \in Before
         /\ pc' # "waiting"
         /\ pc' = "prompt" => pc = "waiting" \/ (pc \in Before /\ sent = Blank)
         /\ pc' = "writing" => pc = "ready"
         /\ pc' \in {"closing", "exited"} /\ code' = 0 => pc = "waiting"
<1>0. /\ Words
      /\ attempt \in 0..3 /\ mode \in {"once", "interactive"}
  BY TypeSplits DEF IInv, Labels, Numbers
<1> USE <1>0 DEF Connecting, Before, console, drawer
<1>1. CASE ScanEnds
  BY <1>1, Raising DEF ScanEnds, NewClient
<1>2. CASE ClientConnects
  BY <1>2 DEF ClientConnects
<1>3. CASE ClientConnectFails \/ SubscribeFails
  BY <1>3, Raising DEF ClientConnectFails, SubscribeFails
<1>4. CASE ConnectChecks
  BY <1>4, Raising DEF ConnectChecks
<1>5. CASE Subscribes
  BY <1>5, Subscribing DEF Subscribes, Words
<1>6. CASE EnsureConnected
  BY <1>6, Beginning DEF EnsureConnected
<1>7. CASE Retries
  BY <1>7, Beginning, Leaving DEF Retries
<1>8. CASE Write
  BY <1>8 DEF Write
<1>9. CASE WriteFails
  BY <1>9, Leaving DEF WriteFails
<1>10. CASE Answered \/ TimesOut
  BY <1>10, Leaving DEF Answered, TimesOut, CommandEnds
<1> QED
  BY <1>1, <1>2, <1>3, <1>4, <1>5, <1>6, <1>7, <1>8, <1>9, <1>10 DEF Connect, SendCommand

LEMMA ProgramAnswers ==
  ASSUME Connect \/ SendCommand
  PROVE  /\ UNCHANGED <<executed, seen, lost, lastStatus>>
         /\ UNCHANGED statusEvent \/ statusEvent' = FALSE
         /\ pc = "ready" /\ pc' = "writing" => statusEvent' = FALSE
         /\ UNCHANGED printed \/ (pc = "waiting" /\ statusEvent /\ printed' = lastStatus)
<1> USE DEF answer, history
<1>1. CASE ScanEnds \/ ClientConnects \/ ClientConnectFails \/ ConnectChecks
  BY <1>1 DEF ScanEnds, ClientConnects, ClientConnectFails, ConnectChecks
<1>2. CASE Subscribes \/ SubscribeFails
  BY <1>2 DEF Subscribes, SubscribeFails
<1>3. CASE EnsureConnected \/ Retries
  BY <1>3 DEF EnsureConnected, Retries
<1>4. CASE Write \/ WriteFails
  BY <1>4 DEF Write, WriteFails
<1>5. CASE Answered
  BY <1>5 DEF Answered
<1>6. CASE TimesOut
  BY <1>6 DEF TimesOut
<1> QED
  BY <1>1, <1>2, <1>3, <1>4, <1>5, <1>6 DEF Connect, SendCommand

LEMMA ProgramKeeps == IInv /\ (Connect \/ SendCommand) => Progress' /\ Order' /\ Answers'
<1> SUFFICES ASSUME IInv, Connect \/ SendCommand PROVE Progress' /\ Order' /\ Answers'
  OBVIOUS
<1>1. /\ UNCHANGED <<air, value, executed>>
      /\ InAir("ack")' <=> InAir("ack")
      /\ InAir("answer")' <=> InAir("answer")
      /\ InAir("oldAnswer")' <=> InAir("oldAnswer")
      /\ InAir("repeat")' <=> InAir("repeat")
  BY ProgramSteps, ProgramAnswers DEF InAir
<1>2. Done' => pc = "waiting" /\ sent # Blank
  BY ProgramSteps DEF Done
<1>3. Progress'
  <2>1. executed' \in 0..1
    BY <1>1 DEF IInv, Progress
  <2>2. Done' => request' = "none" /\ executed' = 1
    BY <1>1, <1>2, ProgramSteps DEF IInv, Progress
  <2>3. pc = "ready" => executed = 0 /\ ~InAir("ack")
    BY DEF IInv, Progress, Before
  <2>4. request' = "sent" => executed' = 0 /\ ~InAir("ack")'
    BY <1>1, <2>3, ProgramSteps DEF IInv, Progress
  <2>5. /\ request' \in {"answering", "executed"} => executed' = 1
        /\ InAir("ack")' => executed' = 1 /\ request' = "none"
    BY <1>1, <2>3, ProgramSteps DEF IInv, Progress
  <2>6. /\ pc' \in Before => request' = "none" /\ ~InAir("ack")' /\ executed' = 0
        /\ pc' \in {"prompt", "waiting"} =>
             request' = "none" /\ ~InAir("ack")' /\ (sent' # Blank => executed' = 1)
    <3>1. "writing" \notin Before
      BY DEF Before, Connecting
    <3> QED
      BY <1>1, <3>1, ProgramSteps DEF IInv, Progress
  <2> QED
    BY <2>1, <2>2, <2>4, <2>5, <2>6 DEF Progress
<1>4. Order'
  <2>1. pc' \in Before \cup {"prompt", "waiting"} => pc \in Before \cup {"prompt", "waiting"}
    BY ProgramSteps
  <2> QED
    BY <1>1, <2>1, ProgramSteps DEF IInv, Order
<1>5. Answers'
  <2>1. statusEvent' /\ pc' \in {"writing", "waiting"} => lastStatus' # "oldAnswer"
    BY ProgramSteps, ProgramAnswers DEF IInv, Answers
  <2>2. printed' # "oldAnswer"
    BY ProgramAnswers DEF IInv, Answers
  <2>3. request = "answering" => request' = "answering"
    BY ProgramSteps DEF IInv, Progress, Before
  <2>4. executed' = 1 /\ pc' # "exited" =>
          seen' \/ lost' \/ InAir("answer")' \/ request' = "answering"
    BY <1>1, <2>3, ProgramSteps, ProgramAnswers DEF IInv, Answers
  <2>5. Done' => seen' \/ lost'
    BY <1>1, <1>2, ProgramAnswers DEF IInv, Answers, Progress, Order
  <2> QED
    BY <2>1, <2>2, <2>4, <2>5 DEF Answers
<1> QED
  BY <1>3, <1>4, <1>5

(* The user's commands begin with nothing in the air that could be taken   *)
(* for their answer.                                                       *)
LEMMA UserSteps ==
  ASSUME IInv, User
  PROVE  /\ request' = request
         /\ pc # "exited" /\ pc' \notin {"writing", "waiting", "prompt"}
         /\ pc' \in Before => pc = "start" \/ (pc = "prompt" /\ executed' = 0)
         /\ pc' \in {"closing", "exited"} => code' # 0 \/ mode' = "interactive"
         /\ \/ UNCHANGED <<air, value, executed>>
            \/ /\ air' = [k \in DOMAIN air |-> Aged(air[k])]
               /\ value' = Aged(value) /\ executed' = 0
               /\ pc \in {"start", "prompt"}
<1>0. pc = "prompt" => mode = "interactive"
  BY DEF IInv, Words
<1> USE <1>0 DEF Before, Connecting, drawer, history
<1>1. CASE StartOnce
  BY <1>1, Beginning DEF StartOnce, NewCommand
<1>2. CASE StartInteractive
  BY <1>2, Beginning DEF StartInteractive
<1>3. CASE Types
  BY <1>3, Leaving DEF Types, NewCommand
<1>4. CASE EndOfInput \/ Interrupt
  BY <1>4, Leaving DEF EndOfInput, Interrupt
<1> QED
  BY <1>1, <1>2, <1>3, <1>4 DEF User

LEMMA UserAnswers ==
  ASSUME User
  PROVE  \/ UNCHANGED <<printed, seen, lost>>
         \/ printed' = "nothing" /\ executed' = 0
<1> USE DEF answer, history
<1>1. CASE StartOnce \/ Types
  BY <1>1 DEF StartOnce, Types, NewCommand
<1>2. CASE StartInteractive \/ EndOfInput \/ Interrupt
  BY <1>2 DEF StartInteractive, EndOfInput, Interrupt
<1> QED
  BY <1>1, <1>2 DEF User

LEMMA UserKeeps == IInv /\ User => Progress' /\ Order' /\ Answers'
<1> SUFFICES ASSUME IInv, User PROVE Progress' /\ Order' /\ Answers'
  OBVIOUS
<1>1. /\ TypeOK /\ ~InAir("oldAnswer")
      /\ pc \in {"start", "prompt"} =>
           /\ request = "none" /\ ~InAir("ack") /\ ~InAir("answer")
           /\ pc = "start" => executed = 0
  BY DEF IInv, Progress, Order, Before
<1>2. \/ UNCHANGED <<air, value, executed>>
      \/ /\ pc \in {"start", "prompt"} /\ executed' = 0 /\ value' \in {"line", "oldAnswer"}
         /\ ~InAir("ack")' /\ ~InAir("answer")' /\ ~InAir("oldAnswer")'
         /\ ~InAir("repeat")' /\ Ordered'
  <2>1. CASE UNCHANGED <<air, value, executed>>
    BY <2>1
  <2>2. CASE ~UNCHANGED <<air, value, executed>>
    <3>1. /\ air' = [k \in DOMAIN air |-> Aged(air[k])] /\ value' = Aged(value)
          /\ executed' = 0 /\ pc \in {"start", "prompt"}
      BY <2>2, UserSteps
    <3> QED
      BY <1>1, <3>1, Aging, AgedValue
  <2> QED
    BY <2>1, <2>2
<1>3. /\ InAir("ack")' => InAir("ack")
      /\ InAir("answer")' => InAir("answer")
      /\ InAir("answer") /\ pc \notin {"start", "prompt"} => InAir("answer")'
      /\ ~InAir("oldAnswer")'
      /\ Ordered'
      /\ InAir("repeat")' => executed' = 1
      /\ value' = "answer" => executed' = 1
      /\ request = "answering" => value' # "oldAnswer"
  BY <1>1, <1>2 DEF InAir, IInv, Order, Ordered
<1>4. ~Done'
  BY UserSteps DEF Done
<1>5. Progress'
  <2>1. executed' \in 0..1
    BY <1>2 DEF IInv, Progress
  <2>2. /\ request' = "sent" => executed' = 0
        /\ request' \in {"answering", "executed"} => executed' = 1
        /\ InAir("ack")' => executed' = 1 /\ request' = "none"
    BY <1>1, <1>2, <1>3, UserSteps DEF IInv, Progress
  <2>3. pc' \in Before => request' = "none" /\ ~InAir("ack")' /\ executed' = 0
    BY <1>1, <1>2, <1>3, UserSteps
  <2> QED
    BY <1>4, <2>1, <2>2, <2>3, UserSteps DEF Progress
<1>6. Order'
  BY <1>1, <1>2, <1>3, UserSteps DEF IInv, Order, Ordered
<1>7. Answers'
  BY <1>1, <1>2, <1>3, <1>4, UserSteps, UserAnswers DEF IInv, Answers
<1> QED
  BY <1>5, <1>6, <1>7

(* disconnect().  What it drops with the link is the command's no more, or *)
(* the program is about to end.                                            *)
LEMMA DisconnectKeeps == IInv /\ Disconnect => Progress' /\ Order' /\ Answers'
<1> SUFFICES ASSUME IInv, Disconnect PROVE Progress' /\ Order' /\ Answers'
  OBVIOUS
<1> USE DEF console, ble, answer, drawer, history
<1>1. /\ UNCHANGED <<request, value, executed, sent, mode>>
      /\ pc = "closing" /\ pc' = "exited" /\ (code' = code \/ code' = 1)
      /\ UNCHANGED air \/ air' = <<>>
  BY DEF Disconnect, Disconnects, DisconnectFails, LinkDrops
<1>2. UNCHANGED <<statusEvent, lastStatus, printed, seen, lost>>
  BY DEF Disconnect, Disconnects, DisconnectFails
<1>3. /\ InAir("ack")' => InAir("ack")
      /\ InAir("answer")' => InAir("answer")
      /\ InAir("oldAnswer")' => InAir("oldAnswer")
      /\ InAir("repeat")' => InAir("repeat")
      /\ Ordered => Ordered'
  BY <1>1, Silence DEF InAir, Ordered
<1>4. "exited" \notin Before
  BY DEF Before, Connecting
<1>5. Done' => Done
  BY <1>1 DEF Done
<1>6. Progress'
  BY <1>1, <1>3, <1>4, <1>5 DEF IInv, Progress
<1>7. Order'
  BY <1>1, <1>3, <1>4 DEF IInv, Order, Ordered
<1>8. Answers'
  BY <1>1, <1>2, <1>5 DEF IInv, Answers
<1> QED
  BY <1>6, <1>7, <1>8

(* The drawer executes a command before it acknowledges it.                *)
LEMMA DrawerKeeps == IInv /\ Drawer => Progress' /\ Order' /\ Answers'
<1> SUFFICES ASSUME IInv, Drawer PROVE Progress' /\ Order' /\ Answers'
  OBVIOUS
<1> USE DEF console, ble, answer, drawer, history
<1>1. UNCHANGED <<pc, mode, sent, code>> /\ TypeOK /\ Progress /\ Order /\ Answers /\ Ordered
  BY DEF Drawer, ReportSets, ReportNotifies, Execute, AnswerNotifies, Acknowledge, IInv, Order, Ordered
<1>2. UNCHANGED <<statusEvent, lastStatus, printed, seen>>
  BY DEF Drawer, ReportSets, ReportNotifies, Execute, AnswerNotifies, Acknowledge
<1>3. Done' = Done
  BY <1>1 DEF Done
<1>4. CASE ReportSets
  <2>1. UNCHANGED <<request, executed, lost, air>> /\ value' = "line"
    BY <1>4 DEF ReportSets
  <2>2. Progress'
    BY <1>1, <1>3, <2>1 DEF Progress, InAir
  <2>3. Order' /\ Answers'
    BY <1>1, <1>2, <1>3, <2>1 DEF Order, Answers, InAir
  <2> QED
    BY <2>2, <2>3
<1>5. CASE ReportNotifies
  <2>1. /\ UNCHANGED <<request, value, executed, lost>>
        /\ UNCHANGED air \/ Sends(Repeated(value))
    BY <1>5 DEF ReportNotifies
  <2>2. /\ Repeated(value) \in {"line", "repeat", "oldRepeat"}
        /\ Repeated(value) = "repeat" => executed = 1
    BY <1>1 DEF Repeated, TypeOK, Order
  <2>3. /\ InAir("ack")' <=> InAir("ack")
        /\ InAir("answer")' <=> InAir("answer")
        /\ InAir("oldAnswer")' <=> InAir("oldAnswer")
        /\ InAir("repeat")' => executed = 1
        /\ Ordered'
    <3>1. CASE UNCHANGED air
      BY <1>1, <3>1 DEF InAir, Ordered, Order
    <3>2. CASE Sends(Repeated(value))
      BY <1>1, <2>2, <3>2, Sending DEF Messages, Order
    <3> QED
      BY <2>1, <3>1, <3>2
  <2>4. Progress'
    BY <1>1, <1>3, <2>1, <2>3 DEF Progress
  <2>5. Order' /\ Answers'
    BY <1>1, <1>2, <1>3, <2>1, <2>3 DEF Order, Ordered, Answers
  <2> QED
    BY <2>4, <2>5
<1>6. CASE Execute
  <2>1. /\ request = "sent" /\ executed = 0 /\ ~InAir("ack") /\ ~Done
        /\ pc \notin Before \cup {"prompt", "waiting"}
    BY <1>1, <1>6 DEF Execute, Progress
  <2>2. request' = "answering" /\ executed' = 1 /\ value' = "answer" /\ UNCHANGED <<air, lost>>
    BY <1>6, <2>1 DEF Execute
  <2>3. Progress'
    BY <1>1, <1>3, <2>1, <2>2 DEF Progress, InAir
  <2>4. Order'
    BY <1>1, <2>1, <2>2 DEF Order, InAir
  <2>5. Answers'
    BY <1>1, <1>2, <1>3, <2>1, <2>2 DEF Answers
  <2> QED
    BY <2>3, <2>4, <2>5
<1>7. CASE AnswerNotifies
  <2>1. /\ request = "answering" /\ executed = 1 /\ ~InAir("ack") /\ ~Done
        /\ pc \notin Before \cup {"prompt", "waiting"}
        /\ value \in {"line", "answer"}
    BY <1>1, <1>7 DEF AnswerNotifies, Progress, Order, TypeOK
  <2>2. /\ request' = "executed" /\ UNCHANGED <<executed, value>>
        /\ \/ Sends(value) /\ (lost' <=> lost \/ value # "answer")
           \/ UNCHANGED air /\ lost' = TRUE
    BY <1>7 DEF AnswerNotifies
  <2>3. /\ ~InAir("ack")' /\ ~InAir("oldAnswer")' /\ Ordered'
        /\ lost' = TRUE \/ InAir("answer")'
    <3>1. ~InAir("oldAnswer")
      BY <1>1 DEF Order
    <3>2. CASE Sends(value) /\ (lost' <=> lost \/ value # "answer")
      <4>1. lost' \in BOOLEAN
        BY <1>1, <3>2, TypeKept, TypeSplits DEF Flags, Next, Drawer
      <4> QED
        BY <1>1, <2>1, <3>1, <3>2, <4>1, Sending DEF Messages
    <3>3. CASE UNCHANGED air /\ lost' = TRUE
      BY <1>1, <2>1, <3>1, <3>3 DEF InAir, Ordered
    <3> QED
      BY <2>2, <3>2, <3>3
  <2>4. Progress'
    BY <1>1, <1>3, <2>1, <2>2, <2>3 DEF Progress
  <2>5. Order'
    BY <1>1, <2>1, <2>2, <2>3 DEF Order, Ordered
  <2>6. Answers'
    BY <1>1, <1>2, <1>3, <2>1, <2>3 DEF Answers
  <2> QED
    BY <2>4, <2>5, <2>6
<1>8. CASE Acknowledge
  <2>1. /\ request = "executed" /\ executed = 1 /\ ~InAir("ack") /\ ~Done
        /\ pc \notin Before \cup {"prompt", "waiting"}
    BY <1>1, <1>8 DEF Acknowledge, Progress
  <2>2. /\ request' = "none" /\ UNCHANGED <<value, executed, lost>>
        /\ Sends("ack") \/ UNCHANGED air
    BY <1>8 DEF Acknowledge
  <2>3. /\ InAir("answer")' <=> InAir("answer")
        /\ ~InAir("oldAnswer")'
        /\ InAir("repeat")' <=> InAir("repeat")
        /\ Ordered'
    <3>1. CASE Sends("ack")
      BY <1>1, <2>1, <3>1, Sending DEF Messages, Order
    <3>2. CASE UNCHANGED air
      BY <1>1, <3>2 DEF InAir, Ordered, Order
    <3> QED
      BY <2>2, <3>1, <3>2
  <2>4. Progress'
    BY <1>1, <1>3, <2>1, <2>2 DEF Progress
  <2>5. Order'
    BY <1>1, <2>1, <2>2, <2>3 DEF Order, Ordered
  <2>6. Answers'
    BY <1>1, <1>2, <1>3, <2>1, <2>2, <2>3 DEF Answers
  <2> QED
    BY <2>4, <2>5, <2>6
<1> QED
  BY <1>4, <1>5, <1>6, <1>7, <1>8 DEF Drawer

(* What arrives, arrives in the order it was sent: the answer before the   *)
(* acknowledgement that lets write_gatt_char return.                       *)
LEMMA RadioKeeps == IInv /\ Radio => Progress' /\ Order' /\ Answers'
<1> SUFFICES ASSUME IInv, Radio PROVE Progress' /\ Order' /\ Answers'
  OBVIOUS
<1> USE DEF console, ble, answer, drawer, history
<1>1. /\ TypeOK /\ Progress /\ Order /\ Answers /\ Ordered
      /\ UNCHANGED <<mode, sent, code, executed, printed>>
  BY DEF Radio, OnStatus, Written, LinkLost, IInv, Order, Ordered
<1>2. CASE OnStatus
  <2>1. UNCHANGED <<pc, request, value, lost>> /\ pc # "exited"
    BY <1>2 DEF OnStatus
  <2>2. lastStatus' = Head(air) /\ (seen' <=> seen \/ Head(air) \in {"answer", "repeat"})
    BY <1>2 DEF OnStatus
  <2>3. /\ InAir("ack")' => InAir("ack")
        /\ InAir("answer")' => InAir("answer")
        /\ InAir("oldAnswer")' => InAir("oldAnswer")
        /\ InAir("repeat")' => InAir("repeat")
        /\ Ordered'
        /\ InAir("answer") => InAir("answer")' \/ Head(air) = "answer"
        /\ InAir(Head(air))
    BY <1>1, <1>2, Receiving DEF OnStatus
  <2>4. Done' <=> Done
    BY <1>1, <2>1 DEF Done
  <2>5. Progress'
    BY <1>1, <2>1, <2>3, <2>4 DEF Progress
  <2>6. Order'
    BY <1>1, <2>1, <2>3 DEF Order, Ordered
  <2>7. lastStatus' # "oldAnswer"
    BY <1>1, <2>2, <2>3 DEF Order
  <2>8. Answers'
    BY <1>1, <2>1, <2>2, <2>3, <2>4, <2>7 DEF Answers
  <2> QED
    BY <2>5, <2>6, <2>8
<1>3. CASE Written
  <2>1. /\ UNCHANGED <<request, value, statusEvent, lastStatus, seen, lost>>
        /\ pc' = IF pc = "writing" THEN "waiting" ELSE pc
    BY <1>3 DEF Written
  <2>2. /\ InAir("ack") /\ ~InAir("ack")' /\ ~InAir("answer")' /\ Ordered'
        /\ InAir("answer") => InAir("answer")'
        /\ InAir("oldAnswer")' => InAir("oldAnswer")
        /\ InAir("repeat")' => InAir("repeat")
    <3>1. air # <<>> /\ air' = Tail(air) /\ Head(air) = "ack"
      BY <1>3 DEF Written
    <3> QED
      BY <1>1, <3>1, Receiving
  <2>3. executed = 1 /\ request = "none"
    BY <1>1, <2>2 DEF Progress
  <2>4. pc \notin Before \cup {"prompt", "waiting"}
    BY <1>1, <2>2 DEF Progress
  <2>5. Done' <=> Done
    BY <1>1, <2>1, <2>4 DEF Done
  <2>6. Progress'
    <3>1. pc' \notin Before /\ pc' # "prompt"
      BY <2>1, <2>4 DEF Before, Connecting
    <3> QED
      BY <1>1, <2>1, <2>2, <2>3, <2>5, <3>1 DEF Progress
  <2>7. Order'
    BY <1>1, <2>1, <2>2 DEF Order, Ordered
  <2>8. Answers'
    BY <1>1, <2>1, <2>2, <2>3, <2>4, <2>5 DEF Answers
  <2> QED
    BY <2>6, <2>7, <2>8
<1>4. CASE LinkLost
  <2>1. /\ UNCHANGED <<pc, value, statusEvent, lastStatus, seen>>
        /\ request' = request \/ (request = "sent" /\ request' = "none")
        /\ lost' <=> lost \/ InAir("answer")
        /\ air' = <<>>
    BY <1>4 DEF LinkLost, LinkDrops, InAir
  <2>2. /\ ~InAir("ack")' /\ ~InAir("answer")' /\ ~InAir("oldAnswer")'
        /\ ~InAir("repeat")' /\ Ordered'
    BY <2>1, Silence
  <2>3. Done' <=> Done
    BY <1>1, <2>1 DEF Done
  <2>4. Progress'
    BY <1>1, <2>1, <2>2, <2>3 DEF Progress
  <2>5. Order'
    BY <1>1, <2>1, <2>2 DEF Order, Ordered
  <2>6. Answers'
    BY <1>1, <2>1, <2>2, <2>3 DEF Answers
  <2> QED
    BY <2>4, <2>5, <2>6
<1> QED
  BY <1>2, <1>3, <1>4 DEF Radio

LEMMA StutterKeeps == IInv /\ UNCHANGED vars => Progress' /\ Order' /\ Answers'
<1> SUFFICES ASSUME IInv, UNCHANGED vars PROVE Progress' /\ Order' /\ Answers'
  OBVIOUS
<1> USE DEF vars, console, ble, answer, drawer, history
<1>1. Progress'
  BY DEF IInv, Progress, Done, InAir
<1>2. Order'
  BY DEF IInv, Order, InAir
<1>3. Answers'
  BY DEF IInv, Answers, Done, InAir
<1> QED
  BY <1>1, <1>2, <1>3

LEMMA IInvHolds == Spec => []IInv
<1>1. IInv /\ [Next]_vars => IInv'
  <2> SUFFICES ASSUME IInv, [Next]_vars PROVE IInv'
    OBVIOUS
  <2>1. TypeOK' /\ Links' /\ Words'
    BY TypeKept, LinksKept, WordsKept DEF IInv
  <2>2. Progress' /\ Order' /\ Answers'
    BY ProgramKeeps, DisconnectKeeps, UserKeeps, DrawerKeeps, RadioKeeps, StutterKeeps
       DEF Next, Program
  <2> QED
    BY <2>1, <2>2 DEF IInv
<1> QED
  BY InitIInv, <1>1, PTL DEF Spec

-----------------------------------------------------------------------------
(* The variables of the client keep their types.                           *)
THEOREM ClientTypeCorrect == Spec => []TypeOK
<1>1. IInv => TypeOK
  BY DEF IInv
<1> QED
  BY <1>1, IInvHolds, PTL

(* Whatever fails and however often the client reconnects, the drawer      *)
(* executes a command at most once, and each that send_command has         *)
(* returned from exactly once.                                             *)
THEOREM CommandsRunOnce == Spec => []ExactlyOnce
<1>1. IInv => ExactlyOnce
  BY DEF IInv, Progress, ExactlyOnce
<1> QED
  BY <1>1, IInvHolds, PTL

(* What is printed is never the answer to an earlier command as the drawer *)
(* sent it in answering: that came before its acknowledgement, and was     *)
(* received before this command was written.  What is left is the loop     *)
(* task's repeat of it.                                                    *)
THEOREM AnswersAreOwn == Spec => []AnswerIsOwn
<1>1. IInv => AnswerIsOwn
  BY DEF IInv, Answers, AnswerIsOwn
<1> QED
  BY <1>1, IInvHolds, PTL

(* A command ends with its answer shown, or with that answer lost.         *)
THEOREM AnswersAreShown == Spec => []AnswerIsShown
<1>1. IInv => AnswerIsShown
  BY DEF IInv, Answers, AnswerIsShown
<1> QED
  BY <1>1, IInvHolds, PTL

(* The program keeps the drawer's only link after its end only when bleak  *)
(* failed it, or when it was interrupted while it connected.               *)
THEOREM DrawerIsReleased == Spec => []DrawerIsLeftFree
<1>1. IInv => DrawerIsLeftFree
  BY DEF IInv, Links, DrawerIsLeftFree, LinkUp
<1> QED
  BY <1>1, IInvHolds, PTL

(* The drawer is sent the verbs it knows, or one of the console's own.     *)
THEOREM VerbsAreKnown == Spec => []OnlyKnownVerbs
<1>1. IInv => OnlyKnownVerbs
  BY DEF IInv, Words, KnownVerb, OnlyKnownVerbs
<1> QED
  BY <1>1, IInvHolds, PTL

-----------------------------------------------------------------------------
(* The refinement.  What the mapping shows of the caller and of the call.  *)
Caller ==
  IF Done \/ (sent = Blank /\ pc \notin {"closing", "exited"}) THEN "free"
  ELSE IF pc \in {"closing", "exited"} THEN "gone"
  ELSE "busy"

Executed == IF sent = Blank THEN 1 ELSE executed

Response ==
  CASE printed = "repeat"    -> "answer"
    [] printed = "oldRepeat" -> "again"
    [] OTHER                 -> printed

CallStep == [Remote!Next]_<<Caller, Executed, seen, lost, Response>>

(* An answer that was stored or printed was shown when it came.            *)
AnswerWasShown ==
  /\ lastStatus \in {"answer", "repeat"} => seen
  /\ printed \in {"answer", "repeat"} => seen

LEMMA InitAnswerWasShown == Init => AnswerWasShown
  BY DEF Init, AnswerWasShown

LEMMA AnswerWasShownKept == AnswerWasShown /\ [Next]_vars => AnswerWasShown'
<1> SUFFICES ASSUME AnswerWasShown, [Next]_vars PROVE AnswerWasShown'
  OBVIOUS
<1> USE DEF AnswerWasShown, answer, history
<1>1. CASE Connect \/ Disconnect \/ Drawer
  BY <1>1 DEF Connect, ScanEnds, ClientConnects, ClientConnectFails, ConnectChecks,
     Subscribes, SubscribeFails, Disconnect, Disconnects, DisconnectFails, Drawer,
     ReportSets, ReportNotifies, Execute, AnswerNotifies, Acknowledge
<1>2. CASE SendCommand
  BY <1>2 DEF SendCommand, EnsureConnected, Retries, Write, WriteFails, Answered, TimesOut
<1>3. CASE User
  BY <1>3 DEF User, StartOnce, StartInteractive, Types, EndOfInput, Interrupt,
     NewCommand, Aged
<1>4. CASE Radio
  BY <1>4 DEF Radio, OnStatus, Written, LinkLost
<1>5. CASE UNCHANGED vars
  BY <1>5 DEF vars
<1> QED
  BY <1>1, <1>2, <1>3, <1>4, <1>5 DEF Next, Program

(* A step that leaves the call alone, or gives it up.                      *)
LEMMA Aside ==
  ASSUME UNCHANGED <<sent, executed, seen, lost, printed>>,
         Caller' = Caller \/ Caller' = "gone"
  PROVE  CallStep
  BY DEF CallStep, Executed, Remote!Next, Remote!GivesUp, Caller, Response

(* The awaits within a command, and how they follow each other.            *)
LEMMA ConnectCalls == IInv /\ Connect => CallStep
<1> SUFFICES ASSUME IInv, Connect PROVE CallStep
  OBVIOUS
<1>1. UNCHANGED <<sent, executed, seen, lost, printed, mode>>
  BY DEF Connect, ScanEnds, ClientConnects, ClientConnectFails, ConnectChecks, Subscribes,
     SubscribeFails, ConnectRaises, Leave, console, answer, history
<1>2. pc \in Connecting
  BY DEF Connect, ScanEnds, ClientConnects, ClientConnectFails, ConnectChecks, Subscribes,
     SubscribeFails, Connecting
<1>3. attempt \in 0..3 /\ mode \in {"once", "interactive"}
  BY TypeSplits DEF IInv, Numbers, Labels
<1>4. sent = Blank <=> attempt = 0 /\ mode = "interactive"
  BY <1>2 DEF IInv, Words
<1>5. \/ pc' \in {"exited", "closing"} /\ code' = 1
      \/ pc' = "sleeping" /\ attempt # 0
      \/ pc' \in {"connecting", "check", "subscribing"}
      \/ attempt # 0 /\ pc' = "ready"
      \/ attempt = 0 /\ mode = "once" /\ pc' = "sending"
      \/ attempt = 0 /\ mode = "interactive" /\ pc' = "prompt"
  BY <1>3, Raising, Subscribing DEF Connect, ScanEnds, ClientConnects,
     ClientConnectFails, ConnectChecks, SubscribeFails, NewClient
<1>6. Caller' = Caller \/ Caller' = "gone"
  BY <1>1, <1>2, <1>4, <1>5 DEF Caller, Done, Connecting
<1> QED
  BY <1>1, <1>6, Aside

LEMMA SendCommandCalls ==
  ASSUME IInv, IInv', AnswerWasShown, AnswerWasShown', SendCommand
  PROVE  CallStep
<1>1. /\ mode' = mode /\ sent' = sent /\ sent # Blank
      /\ mode \in {"once", "interactive"}
      /\ UNCHANGED <<executed, seen, lost>>
  BY TypeSplits DEF SendCommand, EnsureConnected, Retries, Write, WriteFails, Answered,
     TimesOut, CommandEnds, Leave, console, history, IInv, Words, Labels
<1>2. CASE EnsureConnected \/ Retries \/ Write \/ WriteFails
  <2>1. /\ UNCHANGED printed
        /\ pc \in {"sending", "sleeping", "ready", "writing"}
        /\ \/ pc' \in {"scanning", "connecting", "ready", "writing"}
           \/ pc' \in {"exited", "closing"} /\ code' = 1
    BY <1>2, Beginning, Leaving DEF EnsureConnected, Retries, Write, WriteFails, answer
  <2> QED
    BY <1>1, <2>1, Aside DEF Caller, Done
<1>3. CASE Answered \/ TimesOut
  <2>1. /\ pc = "waiting" /\ executed = 1
        /\ printed' = printed \/ printed' = lastStatus
    BY <1>1, <1>3 DEF Answered, TimesOut, answer, IInv, Progress
  <2>2. CASE CommandEnds
    <3>1. Done' /\ ~Done
      BY <1>1, <2>1, <2>2 DEF CommandEnds, Leave, InFirstConnect, Done, console
    <3>2. Caller = "busy" /\ Caller' = "free" /\ Executed = 1 /\ Executed' = 1
      BY <1>1, <2>1, <3>1 DEF Caller, Executed
    <3>3. seen \/ lost
      BY <1>1, <3>1 DEF IInv, Answers
    <3>4. \/ printed' \in {"nothing", "line", "oldRepeat"}
          \/ seen /\ printed' \in {"answer", "repeat"}
      BY <1>1, TypeSplits DEF IInv, Answers, AnswerWasShown, Labels, Status, Messages
    <3>5. Response' \in {"nothing", "line", "again"} \/ (seen /\ Response' = "answer")
      BY <3>4 DEF Response
    <3> QED
      BY <1>1, <3>2, <3>3, <3>5
         DEF CallStep, Remote!Next, Remote!Return, Caller, Executed, Response
  <2>3. CASE TimesOut /\ Leave(1)
    <3>1. pc' \in {"exited", "closing"} /\ code' = 1 /\ UNCHANGED printed
      BY <2>3, Leaving DEF TimesOut, answer
    <3> QED
      BY <1>1, <2>1, <3>1, Aside DEF Caller, Done
  <2> QED
    BY <1>3, <2>2, <2>3 DEF Answered, TimesOut
<1> QED
  BY <1>2, <1>3 DEF SendCommand

LEMMA DisconnectCalls == IInv /\ Disconnect => CallStep
<1> SUFFICES ASSUME IInv, Disconnect PROVE CallStep
  OBVIOUS
<1>1. /\ UNCHANGED <<mode, sent, executed, seen, lost, printed>>
      /\ pc = "closing" /\ pc' = "exited" /\ (code' = code \/ code' = 1)
  BY DEF Disconnect, Disconnects, DisconnectFails, console, answer, history
<1> QED
  BY <1>1, Aside DEF Caller, Done

LEMMA UserCalls == IInv /\ User => CallStep
<1> SUFFICES ASSUME IInv, User PROVE CallStep
  OBVIOUS
<1>1. ASSUME NEW line, Validate(line), NewCommand(line),
             pc \in {"start", "prompt"}, pc' \in {"scanning", "connecting", "sending"}
      PROVE  CallStep
  <2>1. /\ sent' = line /\ line # Blank /\ executed' = 0 /\ seen' = FALSE
        /\ lost' = FALSE /\ printed' = "nothing"
    BY <1>1, ValidLine DEF NewCommand
  <2>2. Caller = "free"
    BY <1>1 DEF Caller, Done, IInv, Words
  <2>3. Caller' = "busy" /\ Executed' = 0
    BY <1>1, <2>1 DEF Caller, Done, Executed
  <2> QED
    BY <2>1, <2>2, <2>3 DEF CallStep, Remote!Next, Remote!Call, Caller, Executed, Response
<1>2. CASE StartOnce
  <2>1. PICK line \in Lines :
          IF Validate(line)
          THEN BeginConnect(0) /\ NewCommand(line) /\ UNCHANGED code
          ELSE /\ pc' = "exited" /\ code' = 2
               /\ UNCHANGED <<sent, ble, answer, drawer, history>>
    BY <1>2 DEF StartOnce
  <2>2. pc = "start" /\ sent = Blank
    BY <1>2 DEF StartOnce, IInv, Words
  <2>3. CASE Validate(line)
    BY <1>1, <2>1, <2>2, <2>3, Beginning
  <2>4. CASE ~Validate(line)
    BY <2>1, <2>2, <2>4, Aside DEF Caller, Done, answer, history
  <2> QED
    BY <2>3, <2>4
<1>3. CASE StartInteractive
  <2>1. pc = "start" /\ sent = Blank /\ pc' \in {"scanning", "connecting"}
        /\ UNCHANGED <<sent, executed, seen, lost, printed>>
    BY <1>3, Beginning DEF StartInteractive, IInv, Words, answer, history
  <2> QED
    BY <2>1, Aside DEF Caller, Done
<1>4. ASSUME Leave(0) \/ Leave(1) \/ Leave(130), pc # "start", pc # "closing",
             Leave(0) => pc = "prompt", UNCHANGED <<answer, history>>
      PROVE  CallStep
  <2>1. /\ pc' \in {"exited", "closing"} /\ UNCHANGED <<mode, sent>>
        /\ code' # 0 \/ mode = "interactive"
    BY <1>4, Leaving DEF IInv, Words
  <2>2. Caller' = "gone"
    BY <2>1 DEF Caller, Done
  <2> QED
    BY <1>4, <2>1, <2>2, Aside DEF answer, history
<1>5. CASE Types
  <2>1. PICK line \in Lines :
          \/ Leave(0) /\ UNCHANGED <<answer, drawer, history>>
          \/ Validate(line) /\ NewCommand(line) /\ pc' = "sending"
    BY <1>5 DEF Types
  <2> QED
    BY <1>1, <1>4, <1>5, <2>1 DEF Types
<1>6. CASE EndOfInput \/ Interrupt
  <2>1. ~Leave(0) \/ pc = "prompt"
    BY <1>6, Leaving DEF EndOfInput, Interrupt
  <2> QED
    BY <1>4, <1>6, <2>1 DEF EndOfInput, Interrupt
<1> QED
  BY <1>2, <1>3, <1>5, <1>6 DEF User

LEMMA DrawerCalls == IInv /\ Drawer => CallStep
<1> SUFFICES ASSUME IInv, Drawer PROVE CallStep
  OBVIOUS
<1>1. UNCHANGED <<pc, mode, sent, code, seen, printed>>
  BY DEF Drawer, ReportSets, ReportNotifies, Execute, AnswerNotifies, Acknowledge, console, answer, history
<1>2. Caller' = Caller
  BY <1>1 DEF Caller, Done
<1>3. CASE ReportSets \/ ReportNotifies \/ Acknowledge
  BY <1>1, <1>2, <1>3, Aside DEF ReportSets, ReportNotifies, Acknowledge, history
<1>4. CASE Execute
  <2>1. /\ executed = 0 /\ executed' = 1 /\ sent # Blank
        /\ lost' = lost
    BY <1>4 DEF Execute, IInv, Progress, Words
  <2>2. Executed = 0 /\ Executed' = 1 /\ lost' \in BOOLEAN
    BY <1>1, <2>1, TypeSplits DEF Executed, IInv, Flags
  <2> QED
    BY <1>1, <1>2, <2>2 DEF CallStep, Remote!Next, Remote!Execute, Caller, Executed, Response
<1>5. CASE AnswerNotifies
  <2>1. /\ executed = 1 /\ UNCHANGED executed
        /\ lost' = lost \/ lost' = TRUE
    BY <1>5, TypeSplits DEF AnswerNotifies, IInv, Progress, Flags
  <2>2. Executed = 1 /\ Executed' = 1
    BY <1>1, <2>1 DEF Executed
  <2> QED
    BY <1>1, <1>2, <2>1, <2>2
       DEF CallStep, Remote!Next, Remote!LoseAnswer, Caller, Executed, Response
<1> QED
  BY <1>3, <1>4, <1>5 DEF Drawer

LEMMA RadioCalls == IInv /\ Radio => CallStep
<1> SUFFICES ASSUME IInv, Radio PROVE CallStep
  OBVIOUS
<1>1. UNCHANGED <<mode, sent, code, executed, printed>>
  BY DEF Radio, OnStatus, Written, LinkLost, console, answer, history
<1>2. Caller' = Caller
  BY <1>1 DEF Caller, Done, Radio, OnStatus, Written, LinkLost
<1>3. Executed' = Executed
  BY <1>1 DEF Executed
<1>4. InAir("answer") \/ InAir("repeat") => Executed = 1
  BY DEF IInv, Order, Executed
<1>5. seen \in BOOLEAN /\ lost \in BOOLEAN
  BY TypeSplits DEF IInv, Flags
<1>6. CASE OnStatus
  <2>1. InAir(Head(air))
    BY <1>6, Receiving DEF OnStatus, IInv
  <2>2. UNCHANGED lost /\ (seen' = seen \/ (seen' = TRUE /\ Executed = 1))
    BY <1>4, <1>5, <1>6, <2>1 DEF OnStatus
  <2> QED
    BY <1>1, <1>2, <1>3, <2>2 DEF CallStep, Remote!Next, Remote!ShowAnswer, Caller, Executed,
       Response
<1>7. CASE Written
  BY <1>1, <1>2, <1>7, Aside DEF Written, history
<1>8. CASE LinkLost
  <2>1. UNCHANGED seen /\ (lost' = lost \/ (lost' = TRUE /\ Executed = 1))
    BY <1>4, <1>5, <1>8 DEF LinkLost, InAir
  <2> QED
    BY <1>1, <1>2, <1>3, <2>1 DEF CallStep, Remote!Next, Remote!LoseAnswer, Caller, Executed,
       Response
<1> QED
  BY <1>6, <1>7, <1>8 DEF Radio

(* The client implements the remote call, whatever fails on the way.       *)
THEOREM ClientImplementsCall == Spec => ImplementsCall
<1>1. Init => Remote!Init
  BY DEF Init, Remote!Init, Done, Blank, Response
<1>2. IInv /\ IInv' /\ AnswerWasShown /\ AnswerWasShown' /\ [Next]_vars
        => [Remote!Next]_<<Caller, Executed, seen, lost, Response>>
  <2> SUFFICES ASSUME IInv, IInv', AnswerWasShown, AnswerWasShown', [Next]_vars
               PROVE  CallStep
    BY DEF CallStep
  <2>1. CASE UNCHANGED vars
    BY <2>1, Aside DEF Caller, Done, vars, console, answer, history
  <2> QED
    BY <2>1, ConnectCalls, SendCommandCalls, DisconnectCalls, UserCalls, DrawerCalls,
       RadioCalls DEF Next, Program
<1>3. Spec => []AnswerWasShown
  BY InitAnswerWasShown, AnswerWasShownKept, PTL DEF Spec
<1> QED
  BY <1>1, <1>2, <1>3, IInvHolds, PTL
     DEF Spec, ImplementsCall, Remote!Spec, Caller, Executed, Response

-----------------------------------------------------------------------------
(* How long a command can take.                                            *)
Attempts == IF attempt = 0 THEN 15 ELSE 5 * (3 - attempt)

LEMMA AwaitsOf ==
  /\ pc = "waiting"     => AwaitsLeft = 1
  /\ pc = "writing"     => AwaitsLeft = 2
  /\ pc = "ready"       => AwaitsLeft = 3
  /\ pc = "sending"     => AwaitsLeft = 19
  /\ pc = "sleeping"    => AwaitsLeft = 4 + Attempts
  /\ pc = "subscribing" => AwaitsLeft = 5 + Attempts
  /\ pc = "check"       => AwaitsLeft = 6 + Attempts
  /\ pc = "connecting"  => AwaitsLeft = 7 + Attempts
  /\ pc = "scanning"    => AwaitsLeft = 8 + Attempts
  BY DEF AwaitsLeft, Attempts

LEMMA AwaitsOfNext ==
  /\ pc' = "waiting"     => AwaitsLeft' = 1
  /\ pc' = "writing"     => AwaitsLeft' = 2
  /\ pc' = "ready"       => AwaitsLeft' = 3
  /\ pc' = "sending"     => AwaitsLeft' = 19
  /\ pc' = "sleeping"    => AwaitsLeft' = 4 + Attempts'
  /\ pc' = "subscribing" => AwaitsLeft' = 5 + Attempts'
  /\ pc' = "check"       => AwaitsLeft' = 6 + Attempts'
  /\ pc' = "connecting"  => AwaitsLeft' = 7 + Attempts'
  /\ pc' = "scanning"    => AwaitsLeft' = 8 + Attempts'
  BY DEF AwaitsLeft, Attempts

LEMMA ConnectRunsOut ==
  ASSUME IInv, Connect, UnderWay, UnderWay'
  PROVE  AwaitsLeft' < AwaitsLeft /\ AwaitsLeft' <= AwaitsLeft
<1>1. attempt \in 0..3 /\ mode \in {"once", "interactive"}
  BY TypeSplits DEF IInv, Numbers, Labels
<1>2. UNCHANGED attempt
  BY <1>1, Raising DEF Connect, ScanEnds, ClientConnects, ClientConnectFails,
     ConnectChecks, Subscribes, SubscribeFails
<1>3. \/ pc = "scanning" /\ pc' \in {"connecting", "sleeping"}
      \/ pc = "connecting" /\ pc' \in {"check", "sleeping"}
      \/ pc = "check" /\ pc' \in {"subscribing", "sleeping"}
      \/ pc = "subscribing" /\ pc' = "sleeping"
      \/ pc = "subscribing" /\ pc' = "ready"
      \/ pc = "subscribing" /\ pc' = "sending" /\ attempt = 0
  BY <1>1, Raising, Subscribing DEF Connect, ScanEnds, ClientConnects,
     ClientConnectFails, ConnectChecks, SubscribeFails, Subscribes, NewClient, UnderWay
<1>4. Attempts' = Attempts /\ Attempts \in Nat /\ (attempt = 0 => Attempts = 15)
  BY <1>1, <1>2 DEF Attempts
<1> QED
  BY <1>3, <1>4, AwaitsOf, AwaitsOfNext

LEMMA SendCommandRunsOut ==
  ASSUME IInv, SendCommand, UnderWay, UnderWay'
  PROVE  AwaitsLeft' < AwaitsLeft /\ AwaitsLeft' <= AwaitsLeft
<1>1. attempt \in 0..3
  BY TypeSplits DEF IInv, Numbers
<1>2. CASE EnsureConnected
  <2>1. pc = "sending" /\ (pc' = "ready" \/ (attempt' = 1 /\ pc' \in {"scanning", "connecting"}))
    BY <1>2, Beginning DEF EnsureConnected
  <2>2. attempt' = 1 => Attempts' = 10
    BY DEF Attempts
  <2> QED
    BY <2>1, <2>2, AwaitsOf, AwaitsOfNext
<1>3. CASE Retries
  <2>1. /\ pc = "sleeping" /\ attempt < 3
        /\ attempt' = attempt + 1 /\ pc' \in {"scanning", "connecting"}
    BY <1>3, Beginning, Leaving DEF Retries, UnderWay
  <2>2. Attempts \in Nat /\ Attempts' \in Nat /\ Attempts' <= Attempts - 5
    BY <1>1, <2>1 DEF Attempts
  <2> QED
    BY <2>1, <2>2, AwaitsOf, AwaitsOfNext
<1>4. CASE Write
  BY <1>4, AwaitsOf, AwaitsOfNext DEF Write
<1>5. CASE WriteFails \/ Answered \/ TimesOut
  BY <1>5, Leaving DEF WriteFails, Answered, TimesOut, CommandEnds, UnderWay
<1> QED
  BY <1>2, <1>3, <1>4, <1>5 DEF SendCommand

LEMMA OthersTakeNothingBack ==
  ASSUME IInv, UNCHANGED vars \/ User \/ Drawer \/ Radio, UnderWay, UnderWay'
  PROVE  AwaitsLeft' <= AwaitsLeft
<1>1. attempt \in 0..3 /\ pc \in Await
  BY TypeSplits DEF IInv, Numbers, Labels
<1>2. /\ UNCHANGED attempt
      /\ pc' = pc \/ (pc = "writing" /\ pc' = "waiting")
  BY Leaving DEF User, StartOnce, StartInteractive, Types, EndOfInput, Interrupt, Drawer,
     ReportSets, ReportNotifies, Execute, AnswerNotifies, Acknowledge, Radio, OnStatus, Written, LinkLost, UnderWay,
     vars, ble
<1>3. Attempts' = Attempts /\ Attempts \in Nat
  BY <1>1, <1>2 DEF Attempts
<1> QED
  BY <1>1, <1>2, <1>3, AwaitsOf, AwaitsOfNext DEF UnderWay, Await

(* A command ends within 23 steps of the program, whatever fails.          *)
THEOREM CommandsRunOut == Spec => CommandRunsOut
<1>1. IInv /\ [Next]_vars =>
        [UnderWay /\ UnderWay' =>
           /\ AwaitsLeft' <= AwaitsLeft
           /\ Program => AwaitsLeft' < AwaitsLeft]_vars
  <2> SUFFICES ASSUME IInv, Next, UnderWay, UnderWay'
               PROVE  /\ AwaitsLeft' <= AwaitsLeft
                      /\ Program => AwaitsLeft' < AwaitsLeft
    OBVIOUS
  <2>1. ASSUME Program PROVE AwaitsLeft' < AwaitsLeft /\ AwaitsLeft' <= AwaitsLeft
    <3>1. ~Disconnect
      BY DEF Disconnect, Disconnects, DisconnectFails, UnderWay
    <3> QED
      BY <2>1, <3>1, ConnectRunsOut, SendCommandRunsOut DEF Program
  <2> QED
    BY <2>1, OthersTakeNothingBack DEF Next
<1> QED
  BY <1>1, IInvHolds, PTL DEF Spec, CommandRunsOut
=============================================================================
