------------------------------ MODULE EventLog ------------------------------
(***************************************************************************)
(* The event log of the firmware (event_log.cpp) as the two tasks of the   *)
(* SmartDrawerAlarm module use it: both call publishLog, which adds a line *)
(* and sends the latest one with the log characteristic (notifyLog), and   *)
(* the NimBLE host task also answers GET_LOG with a dump.  No lock         *)
(* protects log or characteristic, so a step below is one access to one of *)
(* their members; the compiled code loads a member once for each statement *)
(* and again after each call.                                              *)
(*                                                                         *)
(* A line is reduced to its number: lines are numbered from 1 in the order *)
(* in which their add() begins.  Two tasks that assign the same String at  *)
(* once may also corrupt the heap; here the later assignment wins.         *)
(***************************************************************************)
EXTENDS Naturals, Sequences

CONSTANTS
  CAPACITY,
  MaxLines       \* bound on the number of lines

ASSUME CapacityAssumption == CAPACITY \in Nat /\ CAPACITY >= 1
ASSUME MaxLinesAssumption == MaxLines \in Nat

VARIABLES
  entries, nextIndex, count,   \* the members of `logger'
  begun,         \* BleCommandService::begin() has made the characteristic
  logValue,      \* the value of the log characteristic, 0 before
  pc,            \* where each task is
  line,          \* the line each task adds
  reg,           \* the index or the count each task has loaded
  text,          \* the latest line, as each task is about to send it
  i, output,     \* dump(): the loop variable and the lines so far
  \* A history.
  lines,         \* the number of lines so far
  disturbed,     \* the other task was adding while this one used the log
  intact,        \* lines added since adds last overlapped, at most CAPACITY
  mixed,         \* adds have overlapped, and publishLog has not paused since
  oldest         \* the oldest line being published as each publishLog began

object  == <<entries, nextIndex, count>>
ble     == <<begun, logValue>>
tasks   == <<pc, line, reg, text, i, output>>
history == <<lines, disturbed, intact, mixed, oldest>>
vars    == <<object, ble, tasks, history>>

-----------------------------------------------------------------------------
Tasks == {"loop", "host"}

Labels == {"idle", "loadSlot", "storeSlot", "loadNext", "storeNext",
           "loadCount", "storeCount", "latest", "copy", "setValue", "notify",
           "dumpTest", "dumpIndex", "dumpEntry", "dumped"}

AddLabels == {"loadSlot", "storeSlot", "loadNext", "storeNext",
              "loadCount", "storeCount"}

(* The array is a ring.                                                    *)
Wrap(n) == n % CAPACITY

(* setup() logs the boot and two sensor reports before it starts BLE and   *)
(* with it the host task; the first of them by begin(), without sending it.*)
SetupLines == 3

(* The step takes task t from label `from' to label `to'.                  *)
Step(t, from, to) ==
  /\ pc[t] = from
  /\ pc' = [pc EXCEPT ![t] = to]

Keep(t, value) == reg' = [reg EXCEPT ![t] = value]

Adding(t) == pc[t] \in AddLabels

Publishing(t) ==
  Adding(t) \/ pc[t] \in {"latest", "copy", "setValue", "notify"}

Other(t) == IF t = "loop" THEN "host" ELSE "loop"

(* History of a step: task t is disturbed from when the other one adds     *)
(* while t uses the log to when t is done; overlapping adds spoil the log, *)
(* and mix up what is sent until nobody is publishing; a publishLog that   *)
(* begins during another one may have to do with the line of that one.     *)
WatchAdds ==
  /\ disturbed' = [t \in Tasks |->
       /\ pc'[t] # "idle"
       /\ disturbed[t] \/ \E u \in Tasks \ {t} : Adding(u)']
  /\ LET done == \E t \in Tasks : Adding(t) /\ ~Adding(t)' /\ ~disturbed[t]
     IN  intact' = IF \A t \in Tasks : Adding(t)' THEN 0
                   ELSE IF done /\ intact < CAPACITY THEN intact + 1
                   ELSE intact

WatchLines ==
  /\ mixed' = \/ \A t \in Tasks : Adding(t)'
              \/ mixed /\ \E t \in Tasks : Publishing(t)'
  /\ oldest' = [t \in Tasks |->
       CASE ~Publishing(t)'  -> 0
         [] Publishing(t)    -> oldest[t]
         [] OTHER            -> IF Publishing(Other(t)) THEN line[Other(t)]
                                ELSE line'[t]]

Watch == WatchAdds /\ WatchLines

-----------------------------------------------------------------------------
(* publishLog: add(line), then notifyLog(latest()).                        *)

Publish(t) ==
  /\ begun \/ (t = "loop" /\ lines < SetupLines)
  /\ lines < MaxLines
  /\ Step(t, "idle", "loadSlot")
  /\ lines' = lines + 1
  /\ line' = [line EXCEPT ![t] = lines']
  /\ UNCHANGED <<object, ble, reg, text, i, output>>

(* entries[nextIndex] = entry                                              *)
LoadSlot(t) ==
  /\ Step(t, "loadSlot", "storeSlot")
  /\ Keep(t, nextIndex)
  /\ UNCHANGED <<object, ble, line, text, i, output, lines>>

StoreSlot(t) ==
  /\ Step(t, "storeSlot", "loadNext")
  /\ entries' = [entries EXCEPT ![reg[t]] = line[t]]
  /\ UNCHANGED <<nextIndex, count, ble, line, reg, text, i, output, lines>>

(* nextIndex = (nextIndex + 1) % CAPACITY                                  *)
LoadNext(t) ==
  /\ Step(t, "loadNext", "storeNext")
  /\ Keep(t, nextIndex)
  /\ UNCHANGED <<object, ble, line, text, i, output, lines>>

StoreNext(t) ==
  /\ Step(t, "storeNext", "loadCount")
  /\ nextIndex' = Wrap(reg[t] + 1)
  /\ UNCHANGED <<entries, count, ble, line, reg, text, i, output, lines>>

(* if (count < CAPACITY) count++, with one load of count.                  *)
LoadCount(t) ==
  /\ Step(t, "loadCount", "storeCount")
  /\ Keep(t, count)
  /\ UNCHANGED <<object, ble, line, text, i, output, lines>>

(* Mutants of StoreCount: the counter is loaded again for the increment;   *)
(* it stops one short of CAPACITY.                                         *)
StoreCountMutant(t) ==
  /\ Step(t, "storeCount", "latest")
  /\ count' = IF reg[t] < CAPACITY THEN count + 1 ELSE count
  /\ UNCHANGED <<entries, nextIndex, ble, line, reg, text, i, output, lines>>

StoreCountShortMutant(t) ==
  /\ Step(t, "storeCount", "latest")
  /\ count' = IF reg[t] + 1 < CAPACITY THEN reg[t] + 1 ELSE count
  /\ UNCHANGED <<entries, nextIndex, ble, line, reg, text, i, output, lines>>

StoreCount(t) ==
  /\ Step(t, "storeCount", "latest")
  /\ count' = IF reg[t] < CAPACITY THEN reg[t] + 1 ELSE count
  /\ UNCHANGED <<entries, nextIndex, ble, line, reg, text, i, output, lines>>

(* Mutant of Latest: the index of the next line instead of the latest.     *)
LatestMutant(t) ==
  /\ Step(t, "latest", "copy")
  /\ Keep(t, nextIndex)
  /\ UNCHANGED <<object, ble, line, text, i, output, lines>>

(* latest(): an empty log has no latest line, otherwise compute its index, *)
(* then copy the line.                                                     *)
Latest(t) ==
  /\ pc[t] = "latest"
  /\ IF count = 0
     THEN /\ text' = [text EXCEPT ![t] = 0]
          /\ Step(t, "latest", "setValue")
          /\ UNCHANGED reg
     ELSE /\ Keep(t, Wrap(nextIndex + CAPACITY - 1))
          /\ Step(t, "latest", "copy")
          /\ UNCHANGED text
  /\ UNCHANGED <<object, ble, line, i, output, lines>>

Copy(t) ==
  /\ Step(t, "copy", "setValue")
  /\ text' = [text EXCEPT ![t] = entries[reg[t]]]
  /\ UNCHANGED <<object, ble, line, reg, i, output, lines>>

(* notifyLog: without a characteristic there is nothing to do, otherwise   *)
(* set its value, and send what its value then is.                         *)
SetValue(t) ==
  /\ Step(t, "setValue", IF begun THEN "notify" ELSE "idle")
  /\ logValue' = IF begun THEN text[t] ELSE logValue
  /\ UNCHANGED <<object, begun, line, reg, text, i, output, lines>>

(* notify() of the library sends logValue, if a client is connected.       *)
Notify(t) ==
  /\ Step(t, "notify", "idle")
  /\ UNCHANGED <<object, ble, line, reg, text, i, output, lines>>

(* setup() calls BleCommandService::begin(), which sets the value to BOOT. *)
BleBegins ==
  /\ ~begun /\ lines = SetupLines /\ pc["loop"] = "idle"
  /\ begun' = TRUE
  /\ logValue' = 1
  /\ UNCHANGED <<object, tasks, lines>>

-----------------------------------------------------------------------------
(* GET_LOG: dump(), in the host task.                                      *)

Dump ==
  /\ begun
  /\ Step("host", "idle", "dumpTest")
  /\ i' = 0
  /\ output' = <<>>
  /\ UNCHANGED <<object, ble, line, reg, text, lines>>

DumpTest ==
  /\ Step("host", "dumpTest", IF i < count THEN "dumpIndex" ELSE "dumped")
  /\ UNCHANGED <<object, ble, line, reg, text, i, output, lines>>

(* Mutant of DumpIndex: the dump starts at nextIndex, as if always full.   *)
DumpIndexMutant ==
  /\ Step("host", "dumpIndex", "dumpEntry")
  /\ Keep("host", Wrap(nextIndex + i))
  /\ UNCHANGED <<object, ble, line, text, i, output, lines>>

DumpIndex ==
  /\ Step("host", "dumpIndex", "dumpEntry")
  /\ Keep("host", Wrap(nextIndex + CAPACITY - count + i))
  /\ UNCHANGED <<object, ble, line, text, i, output, lines>>

DumpEntry ==
  /\ Step("host", "dumpEntry", "dumpTest")
  /\ output' = Append(output, entries[reg["host"]])
  /\ i' = i + 1
  /\ UNCHANGED <<object, ble, line, reg, text, lines>>

(* The output becomes the response to GET_LOG.                             *)
DumpEnds ==
  /\ Step("host", "dumped", "idle")
  /\ UNCHANGED <<object, ble, line, reg, text, i, output, lines>>

-----------------------------------------------------------------------------
(* The specification.  begin() has added the line "BOOT".                  *)

Init ==
  /\ entries = [k \in 0..(CAPACITY - 1) |-> IF k = 0 THEN 1 ELSE 0]
  /\ nextIndex = Wrap(1)
  /\ count = 1
  /\ begun = FALSE
  /\ logValue = 0
  /\ pc = [t \in Tasks |-> "idle"]
  /\ line = [t \in Tasks |-> 0]
  /\ reg = [t \in Tasks |-> 0]
  /\ text = [t \in Tasks |-> 0]
  /\ i = 0
  /\ output = <<>>
  /\ lines = 1
  /\ disturbed = [t \in Tasks |-> FALSE]
  /\ intact = 1
  /\ mixed = FALSE
  /\ oldest = [t \in Tasks |-> 0]

PublishLog(t) ==
  \/ Publish(t) \/ LoadSlot(t) \/ StoreSlot(t) \/ LoadNext(t) \/ StoreNext(t)
  \/ LoadCount(t) \/ StoreCount(t) \/ Latest(t) \/ Copy(t) \/ SetValue(t)
  \/ Notify(t)

GetLog == Dump \/ DumpTest \/ DumpIndex \/ DumpEntry \/ DumpEnds

Next == ((\E t \in Tasks : PublishLog(t)) \/ GetLog \/ BleBegins) /\ Watch

Spec == Init /\ [][Next]_vars

-----------------------------------------------------------------------------
(* Types; in particular overlapping adds never push the indices out of     *)
(* their array nor the count above CAPACITY.                               *)
TypeOK ==
  /\ entries \in [0..(CAPACITY - 1) -> 0..lines]
  /\ nextIndex \in 0..(CAPACITY - 1)
  /\ count \in 0..CAPACITY
  /\ begun \in BOOLEAN /\ logValue \in 0..lines
  /\ pc \in [Tasks -> Labels] /\ line \in [Tasks -> 0..lines]
  /\ reg \in [Tasks -> 0..CAPACITY] /\ text \in [Tasks -> 0..lines]
  /\ i \in 0..CAPACITY /\ output \in Seq(0..lines)
  /\ lines \in Nat
  /\ disturbed \in [Tasks -> BOOLEAN] /\ intact \in 0..CAPACITY
  /\ mixed \in BOOLEAN /\ oldest \in [Tasks -> 0..lines]

(* The log heals: whatever overlapping adds left, every line added since   *)
(* then is in its place before nextIndex, newest last, and is counted; so  *)
(* CAPACITY lines later nothing is left of the overlap.                    *)
LogHeals ==
  (\A t \in Tasks : ~Adding(t)) =>
    /\ intact <= count
    /\ \A k \in 1..intact :
         entries[Wrap(nextIndex + CAPACITY - k)] = lines + 1 - k

(* GET_LOG answers with the counted lines; the last of them are the lines  *)
(* added since adds last overlapped, unless an add disturbs the dump.      *)
DumpIsLog ==
  pc["host"] = "dumped" /\ ~disturbed["host"] =>
    /\ Len(output) = count
    /\ \A k \in 1..intact : output[count + 1 - k] = lines + 1 - k

(* notifyLog sends no line older than the one publishLog has added, or the *)
(* one that the other task was publishing when it began: setValue() and    *)
(* notify() of the two tasks may interleave, and the line copied from the  *)
(* log may be the other's, but only overlapping adds bring back an old one.*)
NoOldLineSent ==
  \A t \in Tasks : pc[t] = "notify" /\ ~mixed => logValue >= oldest[t]
=============================================================================
