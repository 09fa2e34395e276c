---------------------------- MODULE EventLogProof ----------------------------
(***************************************************************************)
(* Proofs about the event log, for every CAPACITY: its members stay in     *)
(* range however adds overlap, and the log heals from every overlap.       *)
(***************************************************************************)
EXTENDS EventLog, TLAPS

(* Arithmetic of the ring buffer.                                          *)
Slot(n, k) == Wrap(n + CAPACITY - k)

LEMMA ModInRange ==
  ASSUME NEW n \in Nat PROVE Wrap(n) \in 0..(CAPACITY - 1)
  BY CapacityAssumption DEF Wrap

(* Going back k lines from the next index is going back k - 1 from this.   *)
LEMMA SlotOfNext ==
  ASSUME NEW n \in 0..(CAPACITY - 1), NEW k \in 1..CAPACITY
  PROVE  /\ k = 1 => Slot(Wrap(n + 1), k) = n
         /\ k > 1 => Slot(Wrap(n + 1), k) = Slot(n, k - 1)
<1>1. Wrap(n + 1) = IF n + 1 = CAPACITY THEN 0 ELSE n + 1
  BY CapacityAssumption DEF Wrap
<1>2. \A m \in 0..(CAPACITY - 1) : \A j \in 1..CAPACITY :
        Slot(m, j) = IF j <= m THEN m - j ELSE m + CAPACITY - j
  BY CapacityAssumption DEF Slot, Wrap
<1>3. CASE n + 1 = CAPACITY
  BY <1>1, <1>2, <1>3, CapacityAssumption
<1>4. CASE n + 1 # CAPACITY
  <2>1. Wrap(n + 1) = n + 1 /\ n + 1 \in 0..(CAPACITY - 1)
    BY <1>1, <1>4, CapacityAssumption
  <2>2. Slot(n + 1, k) = IF k <= n + 1 THEN n + 1 - k ELSE n + 1 + CAPACITY - k
    BY <1>2, <2>1
  <2>3. k > 1 => Slot(n, k - 1) = IF k - 1 <= n THEN n - (k - 1) ELSE n + CAPACITY - (k - 1)
    BY <1>2, CapacityAssumption
  <2> QED
    BY <2>1, <2>2, <2>3, CapacityAssumption
<1> QED
  BY <1>3, <1>4

(* The lines before the latest CAPACITY - 1 are all in other slots.        *)
LEMMA SlotIsOther ==
  ASSUME NEW n \in 0..(CAPACITY - 1), NEW k \in 1..(CAPACITY - 1)
  PROVE  Slot(n, k) \in 0..(CAPACITY - 1) \ {n}
<1>1. Slot(n, k) = IF k <= n THEN n - k ELSE n + CAPACITY - k
  BY CapacityAssumption DEF Slot, Wrap
<1> QED
  BY <1>1, CapacityAssumption

LEMMA SlotInRange ==
  ASSUME NEW n \in 0..(CAPACITY - 1), NEW k \in 1..CAPACITY
  PROVE  Slot(n, k) \in 0..(CAPACITY - 1)
  BY ModInRange, CapacityAssumption DEF Slot

-----------------------------------------------------------------------------
(* Type correctness.  The registers that hold an index hold a good one.    *)
Registers ==
  /\ \A t \in Tasks : pc[t] \in {"storeSlot", "storeNext", "copy", "dumpEntry"}
                        => reg[t] \in 0..(CAPACITY - 1)
  /\ pc["host"] \in {"dumpIndex", "dumpEntry"} => i < CAPACITY

TInv == TypeOK /\ Registers

LEMMA InitTInv == Init => TInv
<1>1. Wrap(1) \in 0..(CAPACITY - 1)
  BY ModInRange
<1> SUFFICES ASSUME Init PROVE TInv
  OBVIOUS
<1> USE CapacityAssumption DEF Init
<1>2. entries \in [0..(CAPACITY - 1) -> 0..lines] /\ count \in 0..CAPACITY
  OBVIOUS
<1>3. /\ pc \in [Tasks -> Labels] /\ line \in [Tasks -> 0..lines]
      /\ reg \in [Tasks -> 0..CAPACITY] /\ text \in [Tasks -> 0..lines]
  BY DEF Labels
<1>4. /\ i \in 0..CAPACITY /\ output \in Seq(0..lines) /\ logValue \in 0..lines
      /\ disturbed \in [Tasks -> BOOLEAN] /\ intact \in 0..CAPACITY
      /\ oldest \in [Tasks -> 0..lines]
  OBVIOUS
<1>5. Registers
  BY DEF Registers, Tasks
<1> QED
  BY <1>1, <1>2, <1>3, <1>4, <1>5 DEF TInv, TypeOK

WatchedOK ==
  /\ disturbed \in [Tasks -> BOOLEAN] /\ intact \in 0..CAPACITY
  /\ mixed \in BOOLEAN /\ oldest \in [Tasks -> 0..lines]

LEMMA WatchType ==
  ASSUME TInv, Watch, line' \in [Tasks -> 0..(lines')], lines' \in Nat, lines' >= lines
  PROVE  WatchedOK'
<1>1. oldest' \in [Tasks -> 0..(lines')]
  <2>1. \A t \in Tasks : line[t] \in 0..(lines') /\ oldest[t] \in 0..(lines')
                          /\ line'[t] \in 0..(lines') /\ Other(t) \in Tasks
    BY DEF TInv, TypeOK, Tasks, Other
  <2>2. 0 \in 0..(lines')
    OBVIOUS
  <2> QED
    BY <2>1, <2>2 DEF Watch, WatchLines
<1>2. disturbed' \in [Tasks -> BOOLEAN] /\ intact' \in 0..CAPACITY
  <2>1. intact' \in {0, intact} \/ (intact' = intact + 1 /\ intact < CAPACITY)
    BY DEF Watch, WatchAdds
  <2>2. disturbed' \in [Tasks -> BOOLEAN]
    BY DEF TInv, TypeOK, Watch, WatchAdds
  <2> QED
    BY <2>1, <2>2, CapacityAssumption DEF TInv, TypeOK
<1>3. mixed' \in BOOLEAN
  BY DEF TInv, TypeOK, Watch, WatchLines
<1> QED
  BY <1>1, <1>2, <1>3 DEF WatchedOK

(* The type invariant without the history that Watch writes.               *)
LEMMA PublishType ==
  ASSUME TInv, Watch, NEW t \in Tasks, PublishLog(t)
  PROVE  TInv'
<1>1. WatchedOK'
  <2>1. line' \in [Tasks -> 0..(lines')] /\ lines' \in Nat /\ lines' >= lines
    <3>1. CASE Publish(t)
      BY <3>1 DEF TInv, TypeOK, Publish
    <3>2. CASE ~Publish(t)
      <4>1. line' = line /\ lines' = lines
        BY <3>2 DEF PublishLog, LoadSlot, StoreSlot, LoadNext, StoreNext, LoadCount,
           StoreCount, Latest, Copy, SetValue, Notify
      <4> QED
        BY <4>1 DEF TInv, TypeOK
    <3> QED
      BY <3>1, <3>2
  <2> QED
    BY <2>1, WatchType
<1> USE CapacityAssumption DEF TInv, TypeOK, WatchedOK, Registers, Step, Keep, Labels, object, ble
<1>2. CASE Publish(t)
  <2>1. /\ lines' = lines + 1 /\ line' = [line EXCEPT ![t] = lines + 1]
        /\ pc' = [pc EXCEPT ![t] = "loadSlot"]
        /\ UNCHANGED <<entries, nextIndex, count, begun, logValue, reg, text, i, output>>
    BY <1>2 DEF Publish
  <2>2. /\ entries' \in [0..(CAPACITY - 1) -> 0..(lines')]
        /\ line' \in [Tasks -> 0..(lines')] /\ text' \in [Tasks -> 0..(lines')]
        /\ output' \in Seq(0..(lines')) /\ logValue' \in 0..(lines') /\ lines' \in Nat
    BY <2>1
  <2>3. pc' \in [Tasks -> Labels] /\ Registers'
    BY <2>1
  <2> QED
    BY <1>1, <2>1, <2>2, <2>3
<1>3. CASE LoadSlot(t)
  BY <1>1, <1>3 DEF LoadSlot
<1>4. CASE StoreSlot(t)
  BY <1>1, <1>4 DEF StoreSlot
<1>5. CASE LoadNext(t)
  BY <1>1, <1>5 DEF LoadNext
<1>6. CASE StoreNext(t)
  <2>1. Wrap(reg[t] + 1) \in 0..(CAPACITY - 1)
    <3>1. reg[t] + 1 \in Nat
      OBVIOUS
    <3> QED
      BY <3>1, ModInRange
  <2> QED
    BY <1>1, <1>6, <2>1 DEF StoreNext
<1>7. CASE LoadCount(t)
  BY <1>1, <1>7 DEF LoadCount
<1>8. CASE StoreCount(t)
  <2>1. /\ pc' = [pc EXCEPT ![t] = "latest"]
        /\ count' = IF reg[t] < CAPACITY THEN reg[t] + 1 ELSE count
        /\ UNCHANGED <<entries, nextIndex, begun, logValue, line, reg, text, i, output, lines>>
    BY <1>8 DEF StoreCount
  <2>2. count' \in 0..CAPACITY /\ pc' \in [Tasks -> Labels] /\ Registers'
    BY <2>1
  <2> QED
    BY <1>1, <2>1, <2>2
<1>9. CASE Latest(t)
  <2>1. Wrap(nextIndex + CAPACITY - 1) \in 0..(CAPACITY - 1)
    <3>1. nextIndex + CAPACITY - 1 \in Nat
      OBVIOUS
    <3> QED
      BY <3>1, ModInRange
  <2>2. CASE count = 0
    <3>1. /\ text' = [text EXCEPT ![t] = 0] /\ pc' = [pc EXCEPT ![t] = "setValue"]
          /\ UNCHANGED <<entries, nextIndex, count, ble, line, reg, i, output, lines>>
      BY <1>9, <2>2 DEF Latest
    <3> QED
      BY <1>1, <3>1
  <2>3. CASE count # 0
    <3>1. /\ pc' = [pc EXCEPT ![t] = "copy"]
          /\ reg' = [reg EXCEPT ![t] = Wrap(nextIndex + CAPACITY - 1)]
          /\ UNCHANGED <<entries, nextIndex, count, ble, line, text, i, output, lines>>
      BY <1>9, <2>3 DEF Latest
    <3> QED
      BY <1>1, <2>1, <3>1
  <2> QED
    BY <2>2, <2>3
<1>10. CASE Copy(t)
  BY <1>1, <1>10 DEF Copy
<1>11. CASE SetValue(t)
  BY <1>1, <1>11 DEF SetValue
<1>12. CASE Notify(t)
  BY <1>1, <1>12 DEF Notify
<1> QED
  BY <1>2, <1>3, <1>4, <1>5, <1>6, <1>7, <1>8, <1>9, <1>10, <1>11, <1>12 DEF PublishLog

LEMMA GetLogType ==
  ASSUME TInv, Watch, GetLog
  PROVE  TInv'
<1>1. WatchedOK'
  <2>1. line' \in [Tasks -> 0..(lines')] /\ lines' \in Nat /\ lines' >= lines
    BY DEF TInv, TypeOK, GetLog, Dump, DumpTest, DumpIndex, DumpEntry, DumpEnds
  <2> QED
    BY <2>1, WatchType
<1> USE CapacityAssumption DEF TInv, TypeOK, WatchedOK, Registers, Step, Keep, Labels, Tasks,
        object, ble
<1>2. CASE Dump
  BY <1>1, <1>2 DEF Dump
<1>3. CASE DumpTest
  BY <1>1, <1>3 DEF DumpTest
<1>4. CASE DumpIndex
  <2>1. Wrap(nextIndex + CAPACITY - count + i) \in 0..(CAPACITY - 1)
    <3>1. nextIndex + CAPACITY - count + i \in Nat
      OBVIOUS
    <3> QED
      BY <3>1, ModInRange
  <2>2. /\ pc' = [pc EXCEPT !["host"] = "dumpEntry"]
        /\ reg' = [reg EXCEPT !["host"] = Wrap(nextIndex + CAPACITY - count + i)]
        /\ pc["host"] = "dumpIndex"
        /\ UNCHANGED <<entries, nextIndex, count, begun, logValue, line, text, i, output, lines>>
    BY <1>4 DEF DumpIndex
  <2>3. TypeOK'
    <3>1. pc' \in [Tasks -> Labels] /\ reg' \in [Tasks -> 0..CAPACITY]
      BY <2>1, <2>2
    <3>2. /\ entries' = entries /\ nextIndex' = nextIndex /\ count' = count
          /\ begun' = begun /\ logValue' = logValue /\ line' = line /\ text' = text
          /\ i' = i /\ output' = output /\ lines' = lines
      BY <2>2
    <3> HIDE DEF WatchedOK, Tasks, Labels
    <3> QED
      BY <1>1, <3>1, <3>2 DEF WatchedOK
  <2>4. Registers'
    BY <2>1, <2>2
  <2> QED
    BY <2>3, <2>4
<1>5. CASE DumpEntry
  BY <1>1, <1>5 DEF DumpEntry
<1>6. CASE DumpEnds
  BY <1>1, <1>6 DEF DumpEnds
<1> QED
  BY <1>2, <1>3, <1>4, <1>5, <1>6 DEF GetLog

LEMMA BleBeginsType ==
  ASSUME TInv, Watch, BleBegins
  PROVE  TInv'
<1>1. WatchedOK'
  BY WatchType DEF BleBegins, tasks, TInv, TypeOK
<1>2. 1 \in 0..lines
  BY DEF BleBegins, SetupLines
<1> QED
  BY <1>1, <1>2 DEF BleBegins, TInv, TypeOK, WatchedOK, Registers, object, tasks

LEMMA StepTInv == TInv /\ [Next]_vars => TInv'
<1> SUFFICES ASSUME TInv, [Next]_vars PROVE TInv'
  OBVIOUS
<1>1. CASE Next
  BY <1>1, PublishType, GetLogType, BleBeginsType DEF Next
<1>2. CASE UNCHANGED vars
  BY <1>2 DEF TInv, TypeOK, Registers, vars, object, ble, tasks, history
<1> QED
  BY <1>1, <1>2

(* However the adds of the two tasks overlap, the members of the log stay  *)
(* in range, and with them every index into the array.                     *)
THEOREM TypeCorrect == Spec => []TypeOK
<1>1. Init => TInv
  BY InitTInv
<1>2. TInv /\ [Next]_vars => TInv'
  BY StepTInv
<1>3. TInv => TypeOK
  BY DEF TInv
<1> QED
  BY <1>1, <1>2, <1>3, PTL DEF Spec

-----------------------------------------------------------------------------
(* The log heals.  How far an add that nobody disturbs has got: which of   *)
(* the slots before nextIndex hold the latest lines, and what it loaded.   *)
AddDone(t) ==
  /\ line[t] = lines
  /\ intact <= count
  /\ pc[t] \in {"loadSlot", "storeSlot"} =>
       \A k \in 1..intact : entries[Slot(nextIndex, k)] = lines - k
  /\ pc[t] \in {"loadNext", "storeNext"} =>
       /\ entries[nextIndex] = lines
       /\ \A k \in 1..intact :
            k < CAPACITY => entries[Slot(nextIndex, k)] = lines - k
  /\ pc[t] \in {"loadCount", "storeCount"} =>
       \A k \in 1..CAPACITY :
         k <= intact + 1 => entries[Slot(nextIndex, k)] = lines + 1 - k
  /\ pc[t] \in {"storeSlot", "storeNext"} => reg[t] = nextIndex
  /\ pc[t] = "storeCount" => reg[t] = count

(* Overlapping adds are both disturbed and leave no intact line; a task    *)
(* that does not use the log is not disturbed.                             *)
Overlap ==
  /\ \A t \in Tasks : Adding(t) /\ disturbed[t] => intact = 0
  /\ (\A t \in Tasks : Adding(t)) => \A t \in Tasks : disturbed[t]
  /\ \A t \in Tasks : pc[t] = "idle" => ~disturbed[t]

Progress == \A t \in Tasks : Adding(t) /\ ~disturbed[t] => AddDone(t)

LInv == Overlap /\ Progress /\ LogHeals

LEMMA InitLInv == Init => LInv
<1> SUFFICES ASSUME Init PROVE LInv
  OBVIOUS
<1>1. \A t \in Tasks : ~Adding(t) /\ ~disturbed[t]
  BY DEF Init, Adding, AddLabels
<1>2. Slot(Wrap(1), 1) = 0
  BY SlotOfNext, CapacityAssumption
<1>3. LogHeals
  BY <1>2, CapacityAssumption DEF Init, LogHeals, Slot
<1> QED
  BY <1>1, <1>3 DEF LInv, Overlap, Progress, Tasks

(* When adds overlap there is nothing to keep.                             *)
LEMMA ClashKeeps == Watch /\ (\A t \in Tasks : Adding(t)') => LInv'
<1> SUFFICES ASSUME Watch, \A t \in Tasks : Adding(t)' PROVE LInv'
  OBVIOUS
<1>1. \A t \in Tasks : pc'[t] # "idle"
  BY DEF Adding, AddLabels
<1>2. intact' = 0 /\ \A t \in Tasks : disturbed'[t]
  BY <1>1 DEF Watch, WatchAdds, Tasks
<1> QED
  BY <1>1, <1>2 DEF LInv, Overlap, Progress, LogHeals, Tasks

(* A step within the add of t, while the other task does not add.          *)
LEMMA SoloKeeps ==
  ASSUME TInv, LInv, Watch, NEW t \in Tasks, NEW u \in Tasks, u # t,
         Adding(t), Adding(t)', ~Adding(u), pc'[u] = pc[u],
         AddDone(t) /\ intact' = intact => AddDone(t)'
  PROVE  LInv'
<1>1. Tasks = {t, u}
  BY DEF Tasks
<1>2. ~Adding(u)' /\ pc'[t] # "idle" /\ pc[t] # "idle"
  BY DEF Adding, AddLabels
<1>3. intact' = intact
  BY <1>1, <1>2 DEF Watch, WatchAdds
<1>4. disturbed'[t] = disturbed[t]
  BY <1>1, <1>2 DEF Watch, WatchAdds, TInv, TypeOK
<1>5. pc'[u] = "idle" => ~disturbed'[u]
  BY DEF Watch, WatchAdds
<1> QED
  BY <1>1, <1>2, <1>3, <1>4, <1>5 DEF LInv, Overlap, Progress, LogHeals

(* The five steps within an add, when nobody disturbs it.                  *)
LEMMA LoadSlotDone ==
  ASSUME TInv, NEW t \in Tasks, LoadSlot(t), AddDone(t), intact' = intact
  PROVE  AddDone(t)'
  BY DEF TInv, TypeOK, LoadSlot, AddDone, Step, Keep, object

LEMMA StoreSlotDone ==
  ASSUME TInv, NEW t \in Tasks, StoreSlot(t), AddDone(t), intact' = intact
  PROVE  AddDone(t)'
<1> USE CapacityAssumption DEF TInv, TypeOK
<1>1. /\ pc[t] = "storeSlot" /\ pc'[t] = "loadNext" /\ reg[t] = nextIndex
      /\ entries' = [entries EXCEPT ![nextIndex] = lines]
      /\ UNCHANGED <<nextIndex, count, line, lines>>
  BY DEF StoreSlot, Step, AddDone
<1>2. entries'[nextIndex] = lines
  BY <1>1
<1>3. ASSUME NEW k \in 1..intact, k < CAPACITY
      PROVE  entries'[Slot(nextIndex, k)] = lines - k
  <2>1. k \in 1..(CAPACITY - 1)
    BY <1>3
  <2>2. Slot(nextIndex, k) \in 0..(CAPACITY - 1) \ {nextIndex}
    BY <2>1, SlotIsOther
  <2>3. entries[Slot(nextIndex, k)] = lines - k
    BY <1>1 DEF AddDone
  <2> QED
    BY <1>1, <2>2, <2>3
<1>4. intact' <= count' /\ line'[t] = lines'
  BY <1>1 DEF AddDone
<1> QED
  BY <1>1, <1>2, <1>3, <1>4 DEF AddDone

LEMMA LoadNextDone ==
  ASSUME TInv, NEW t \in Tasks, LoadNext(t), AddDone(t), intact' = intact
  PROVE  AddDone(t)'
  BY DEF TInv, TypeOK, LoadNext, AddDone, Step, Keep, object

LEMMA StoreNextDone ==
  ASSUME TInv, NEW t \in Tasks, StoreNext(t), AddDone(t), intact' = intact
  PROVE  AddDone(t)'
<1> USE CapacityAssumption DEF TInv, TypeOK
<1>1. /\ pc[t] = "storeNext" /\ pc'[t] = "loadCount"
      /\ nextIndex' = Wrap(nextIndex + 1)
      /\ UNCHANGED <<entries, count, line, lines>>
  BY DEF StoreNext, Step, AddDone
<1>2. ASSUME NEW k \in 1..CAPACITY, k <= intact + 1
      PROVE  entries[Slot(Wrap(nextIndex + 1), k)] = lines + 1 - k
  <2>1. CASE k = 1
    BY <1>1, <2>1, SlotOfNext DEF AddDone
  <2>2. CASE k > 1
    <3>1. k - 1 \in 1..intact /\ k - 1 < CAPACITY
      BY <1>2, <2>2
    <3>2. entries[Slot(nextIndex, k - 1)] = lines - (k - 1)
      BY <1>1, <3>1 DEF AddDone
    <3>3. Slot(Wrap(nextIndex + 1), k) = Slot(nextIndex, k - 1)
      BY <2>2, SlotOfNext
    <3> QED
      BY <3>2, <3>3
  <2> QED
    BY <2>1, <2>2
<1>3. intact' <= count' /\ line'[t] = lines'
  BY <1>1 DEF AddDone
<1> QED
  BY <1>1, <1>2, <1>3 DEF AddDone

LEMMA LoadCountDone ==
  ASSUME TInv, NEW t \in Tasks, LoadCount(t), AddDone(t), intact' = intact
  PROVE  AddDone(t)'
  BY DEF TInv, TypeOK, LoadCount, AddDone, Step, Keep, object

(* The last step of an add: its line counts as intact, if it is.           *)
LEMMA StoreCountKeeps ==
  ASSUME TInv, LInv, Watch, NEW t \in Tasks, NEW u \in Tasks, u # t, StoreCount(t)
  PROVE  LInv'
<1> USE CapacityAssumption DEF TInv, TypeOK
<1>1. Tasks = {t, u}
  BY DEF Tasks
<1>2. /\ pc[t] = "storeCount" /\ pc'[t] = "latest" /\ pc'[u] = pc[u]
      /\ UNCHANGED <<entries, nextIndex, line, reg, lines>>
  BY DEF StoreCount, Step
<1>3. Adding(t) /\ ~Adding(t)' /\ (Adding(u)' <=> Adding(u))
  BY <1>2 DEF Adding, AddLabels
<1>4. pc'[u] = "idle" => ~disturbed'[u]
  BY DEF Watch, WatchAdds
<1>5. CASE Adding(u)
  <2>1. disturbed[t] /\ disturbed[u] /\ intact = 0
    BY <1>1, <1>3, <1>5 DEF LInv, Overlap
  <2>2. intact' = 0
    BY <1>1, <1>3, <1>5, <2>1 DEF Watch, WatchAdds
  <2>3. disturbed'[u]
    BY <1>2, <1>5, <2>1 DEF Watch, WatchAdds, Adding, AddLabels
  <2> QED
    BY <1>1, <1>2, <1>3, <1>4, <1>5, <2>2, <2>3 DEF LInv, Overlap, Progress, LogHeals
<1>6. CASE ~Adding(u)
  <2>1. LogHeals'
    <3>1. CASE disturbed[t]
      <4>1. intact = 0
        BY <1>3, <3>1 DEF LInv, Overlap
      <4>2. intact' = 0
        BY <1>1, <1>3, <1>6, <3>1, <4>1 DEF Watch, WatchAdds
      <4>3. count' \in Nat
        BY DEF StoreCount
      <4> QED
        BY <4>2, <4>3 DEF LogHeals
    <3>2. CASE ~disturbed[t]
      <4>1. AddDone(t)
        BY <1>3, <3>2 DEF LInv, Progress
      <4>2. intact' = IF intact < CAPACITY THEN intact + 1 ELSE intact
        BY <1>1, <1>3, <1>6, <3>2 DEF Watch, WatchAdds
      <4>3. intact' <= count'
        BY <1>2, <4>1, <4>2 DEF AddDone, StoreCount
      <4>4. ASSUME NEW k \in 1..(intact')
            PROVE  entries[Slot(nextIndex, k)] = lines + 1 - k
        BY <1>2, <4>1, <4>2 DEF AddDone
      <4> QED
        BY <1>2, <4>3, <4>4 DEF LogHeals, Slot
    <3> QED
      BY <3>1, <3>2
  <2> QED
    BY <1>1, <1>2, <1>3, <1>4, <1>6, <2>1 DEF LInv, Overlap, Progress
<1> QED
  BY <1>5, <1>6

(* A new line, when the other task is not adding.                          *)
LEMMA PublishKeeps ==
  ASSUME TInv, LInv, Watch, NEW t \in Tasks, NEW u \in Tasks, u # t, Publish(t),
         ~Adding(u)
  PROVE  LInv'
<1> USE CapacityAssumption DEF TInv, TypeOK
<1>1. Tasks = {t, u}
  BY DEF Tasks
<1>2. /\ pc[t] = "idle" /\ pc'[t] = "loadSlot" /\ pc'[u] = pc[u]
      /\ lines' = lines + 1 /\ line'[t] = lines'
      /\ UNCHANGED <<entries, nextIndex, count, reg>>
  BY DEF Publish, Step, object, Labels
<1>3. ~Adding(t) /\ Adding(t)' /\ ~Adding(u)'
  BY <1>2 DEF Adding, AddLabels
<1>4. intact' = intact
  BY <1>1, <1>3 DEF Watch, WatchAdds
<1>5. ~disturbed'[t] /\ (pc'[u] = "idle" => ~disturbed'[u])
  BY <1>1, <1>2, <1>3 DEF Watch, WatchAdds, LInv, Overlap
<1>6. AddDone(t)'
  BY <1>1, <1>2, <1>3, <1>4 DEF AddDone, LInv, LogHeals, Slot
<1> QED
  BY <1>1, <1>2, <1>3, <1>5, <1>6 DEF LInv, Overlap, Progress, LogHeals

(* The steps of t outside of an add leave the log alone.                   *)
LEMMA ReadKeeps ==
  ASSUME TInv, LInv, Watch, NEW t \in Tasks, NEW u \in Tasks, u # t,
         ~Adding(t), ~Adding(t)', pc'[u] = pc[u], reg'[u] = reg[u],
         UNCHANGED <<entries, nextIndex, count, line, lines>>
  PROVE  LInv'
<1>1. Tasks = {t, u}
  BY DEF Tasks
<1>2. Adding(u)' <=> Adding(u)
  BY DEF Adding
<1>3. intact' = intact
  BY <1>1, <1>2 DEF Watch, WatchAdds
<1>4. /\ Adding(u) => disturbed'[u] = disturbed[u]
      /\ \A v \in Tasks : pc'[v] = "idle" => ~disturbed'[v]
  BY <1>1, <1>2 DEF Watch, WatchAdds, Adding, AddLabels, TInv, TypeOK
<1>5. AddDone(u) => AddDone(u)'
  BY <1>3 DEF AddDone
<1>6. LogHeals => LogHeals'
  BY <1>1, <1>2, <1>3 DEF LogHeals
<1> QED
  BY <1>1, <1>2, <1>3, <1>4, <1>5, <1>6 DEF LInv, Overlap, Progress

LEMMA PublishLogKeeps ==
  ASSUME TInv, LInv, Watch, NEW t \in Tasks, PublishLog(t)
  PROVE  LInv'
<1>1. PICK u \in Tasks : u # t
  BY DEF Tasks
<1>2. Tasks = {t, u}
  BY <1>1 DEF Tasks
<1>3. CASE \A v \in Tasks : Adding(v)'
  BY <1>3, ClashKeeps
<1>4. CASE ~(\A v \in Tasks : Adding(v)')
  <2>1. pc'[u] = pc[u] /\ reg'[u] = reg[u]
    BY <1>1 DEF TInv, TypeOK, PublishLog, Publish, LoadSlot, StoreSlot, LoadNext,
       StoreNext, LoadCount, StoreCount, Latest, Copy, SetValue, Notify, Step, Keep
  <2>2. CASE Publish(t)
    <3>1. ~Adding(u)
      BY <1>2, <1>4, <2>1, <2>2 DEF Publish, Step, Adding, AddLabels, TInv, TypeOK
    <3> QED
      BY <1>1, <2>2, <3>1, PublishKeeps
  <2>3. CASE LoadSlot(t) \/ StoreSlot(t) \/ LoadNext(t) \/ StoreNext(t) \/ LoadCount(t)
    <3>1. Adding(t) /\ Adding(t)'
      BY <2>3 DEF LoadSlot, StoreSlot, LoadNext, StoreNext, LoadCount, Step,
         Adding, AddLabels, TInv, TypeOK
    <3>2. ~Adding(u)
      BY <1>2, <1>4, <2>1, <3>1 DEF Adding
    <3>3. AddDone(t) /\ intact' = intact => AddDone(t)'
      BY <2>3, LoadSlotDone, StoreSlotDone, LoadNextDone, StoreNextDone, LoadCountDone
    <3> QED
      BY <1>1, <2>1, <3>1, <3>2, <3>3, SoloKeeps
  <2>4. CASE StoreCount(t)
    BY <1>1, <2>4, StoreCountKeeps
  <2>5. CASE Latest(t) \/ Copy(t) \/ SetValue(t) \/ Notify(t)
    <3>1. ~Adding(t) /\ ~Adding(t)'
      BY <2>5 DEF Latest, Copy, SetValue, Notify, Step, Adding, AddLabels, TInv, TypeOK
    <3>2. UNCHANGED <<entries, nextIndex, count, line, lines>>
      BY <2>5 DEF Latest, Copy, SetValue, Notify, object
    <3> QED
      BY <1>1, <2>1, <3>1, <3>2, ReadKeeps
  <2> QED
    BY <2>2, <2>3, <2>4, <2>5 DEF PublishLog
<1> QED
  BY <1>3, <1>4

LEMMA GetLogKeeps ==
  ASSUME TInv, LInv, Watch, GetLog
  PROVE  LInv'
<1>1. "host" \in Tasks /\ "loop" \in Tasks
  BY DEF Tasks
<1>2. ~Adding("host") /\ ~Adding("host")'
  BY <1>1 DEF GetLog, Dump, DumpTest, DumpIndex, DumpEntry, DumpEnds, Step,
     Adding, AddLabels, TInv, TypeOK
<1>3. pc'["loop"] = pc["loop"] /\ reg'["loop"] = reg["loop"]
  BY <1>1 DEF GetLog, Dump, DumpTest, DumpIndex, DumpEntry, DumpEnds, Step,
     Keep, TInv, TypeOK
<1>4. UNCHANGED <<entries, nextIndex, count, line, lines>>
  BY DEF GetLog, Dump, DumpTest, DumpIndex, DumpEntry, DumpEnds, object
<1> QED
  BY <1>1, <1>2, <1>3, <1>4, ReadKeeps

LEMMA BleBeginsKeeps ==
  ASSUME TInv, LInv, Watch, BleBegins
  PROVE  LInv'
<1>1. "host" \in Tasks /\ "loop" \in Tasks /\ ~Adding("loop")
  BY DEF Tasks, BleBegins, Adding, AddLabels
<1>2. UNCHANGED <<entries, nextIndex, count, line, lines, pc, reg>>
  BY DEF BleBegins, object, tasks
<1> QED
  BY <1>1, <1>2, ReadKeeps DEF Adding

LEMMA StepLInv == TInv /\ LInv /\ [Next]_vars => LInv'
<1> SUFFICES ASSUME TInv, LInv, [Next]_vars PROVE LInv'
  OBVIOUS
<1>1. CASE Next
  BY <1>1, PublishLogKeeps, GetLogKeeps, BleBeginsKeeps DEF Next
<1>2. CASE UNCHANGED vars
  BY <1>2 DEF LInv, Overlap, Progress, AddDone, LogHeals, Adding, vars, object,
     ble, tasks, history
<1> QED
  BY <1>1, <1>2

(* The log heals from every overlap, whatever CAPACITY is: the lines added *)
(* since the last one are all there, in their order.                       *)
THEOREM HealsFromOverlap == Spec => []LogHeals
<1>1. Init => TInv /\ LInv
  BY InitTInv, InitLInv
<1>2. TInv /\ LInv /\ [Next]_vars => (TInv /\ LInv)'
  BY StepTInv, StepLInv
<1>3. LInv => LogHeals
  BY DEF LInv
<1> QED
  BY <1>1, <1>2, <1>3, PTL DEF Spec

-----------------------------------------------------------------------------
(* A dump.  While no add disturbs it the log stands still, and the output  *)
(* so far is the oldest of the counted lines, in their order.              *)
DumpLabels == {"dumpTest", "dumpIndex", "dumpEntry", "dumped"}

DumpSoFar ==
  /\ ~Adding("loop")
  /\ i <= count /\ Len(output) = i
  /\ \A k \in 1..i : output[k] = entries[Slot(nextIndex, count + 1 - k)]
  /\ pc["host"] \in {"dumpIndex", "dumpEntry"} => i < count
  /\ pc["host"] = "dumpEntry" => reg["host"] = Slot(nextIndex, count - i)
  /\ pc["host"] = "dumped" => i = count

DInv == pc["host"] \in DumpLabels /\ ~disturbed["host"] => DumpSoFar

(* What the host leaves undisturbed it may rely on.                        *)
LEMMA Undisturbed ==
  ASSUME TInv, LInv, Watch, pc'["host"] # "idle", ~disturbed'["host"]
  PROVE  ~disturbed["host"] /\ ~Adding("loop")'
  BY DEF Watch, WatchAdds, Tasks, TInv, TypeOK

LEMMA DumpIndexSlot ==
  ASSUME TInv
  PROVE  Wrap(nextIndex + CAPACITY - count + i) = Slot(nextIndex, count - i)
<1>1. nextIndex + CAPACITY - count + i = nextIndex + CAPACITY - (count - i)
  BY CapacityAssumption DEF TInv, TypeOK
<1> QED
  BY <1>1 DEF Slot

LEMMA GetLogDumps ==
  ASSUME TInv, LInv, DInv, Watch, GetLog
  PROVE  DInv'
<1> SUFFICES ASSUME pc'["host"] \in DumpLabels, ~disturbed'["host"]
             PROVE  DumpSoFar'
  BY DEF DInv
<1>1. "host" \in Tasks /\ pc \in [Tasks -> Labels] /\ reg \in [Tasks -> 0..CAPACITY]
      /\ i \in Nat /\ count \in Nat /\ output \in Seq(0..lines)
  BY CapacityAssumption DEF Tasks, TInv, TypeOK
<1>2. ~disturbed["host"] /\ ~Adding("loop")'
  BY Undisturbed DEF DumpLabels
<1>3. UNCHANGED <<entries, nextIndex, count, lines>>
  BY DEF GetLog, Dump, DumpTest, DumpIndex, DumpEntry, DumpEnds, object
<1>4. CASE Dump
  BY <1>1, <1>2, <1>3, <1>4 DEF Dump, Step, DumpSoFar
<1>5. CASE DumpTest
  <2>1. DumpSoFar
    BY <1>2, <1>5 DEF DInv, DumpLabels, DumpTest, Step
  <2>2. pc'["host"] = IF i < count THEN "dumpIndex" ELSE "dumped"
    BY <1>1, <1>5 DEF DumpTest, Step
  <2>3. UNCHANGED <<reg, i, output>>
    BY <1>5 DEF DumpTest
  <2> QED
    BY <1>1, <1>2, <1>3, <2>1, <2>2, <2>3 DEF DumpSoFar
<1>6. CASE DumpIndex
  <2>1. DumpSoFar /\ i < count
    BY <1>2, <1>6 DEF DInv, DumpLabels, DumpSoFar, DumpIndex, Step
  <2>2. pc'["host"] = "dumpEntry" /\ reg'["host"] = Slot(nextIndex, count - i)
    BY <1>1, <1>6, DumpIndexSlot DEF DumpIndex, Step, Keep
  <2>3. UNCHANGED <<i, output>>
    BY <1>6 DEF DumpIndex
  <2> QED
    BY <1>2, <1>3, <2>1, <2>2, <2>3 DEF DumpSoFar
<1>7. CASE DumpEntry
  <2>1. DumpSoFar /\ i < count /\ reg["host"] = Slot(nextIndex, count - i)
    BY <1>2, <1>7 DEF DInv, DumpLabels, DumpSoFar, DumpEntry, Step
  <2>2. /\ pc'["host"] = "dumpTest" /\ i' = i + 1
        /\ output' = Append(output, entries[reg["host"]])
    BY <1>1, <1>7 DEF DumpEntry, Step
  <2>3. /\ Len(output') = i + 1 /\ output'[i + 1] = entries[reg["host"]]
        /\ \A k \in 1..i : output'[k] = output[k]
    BY <1>1, <2>1, <2>2 DEF DumpSoFar
  <2>4. ASSUME NEW k \in 1..(i + 1)
        PROVE  output'[k] = entries[Slot(nextIndex, count + 1 - k)]
    <3>1. CASE k = i + 1
      <4>1. count + 1 - k = count - i
        BY <1>1, <3>1
      <4> QED
        BY <2>1, <2>3, <3>1, <4>1
    <3>2. CASE k # i + 1
      <4>1. k \in 1..i
        BY <1>1, <3>2
      <4> QED
        BY <2>1, <2>3, <4>1 DEF DumpSoFar
    <3> QED
      BY <3>1, <3>2
  <2>5. i' <= count
    BY <1>1, <2>1, <2>2
  <2>6. \A k \in 1..(i') : output'[k] = entries'[Slot(nextIndex', count' + 1 - k)]
    BY <1>3, <2>2, <2>4
  <2> QED
    BY <1>2, <1>3, <2>2, <2>3, <2>5, <2>6 DEF DumpSoFar, Slot
<1>8. CASE DumpEnds
  BY <1>1, <1>8 DEF DumpEnds, Step, DumpLabels
<1> QED
  BY <1>4, <1>5, <1>6, <1>7, <1>8 DEF GetLog

LEMMA PublishLogDumps ==
  ASSUME TInv, LInv, DInv, Watch, NEW t \in Tasks, PublishLog(t)
  PROVE  DInv'
<1> SUFFICES ASSUME pc'["host"] \in DumpLabels, ~disturbed'["host"]
             PROVE  DumpSoFar'
  BY DEF DInv
<1>1. "host" \in Tasks /\ "loop" \in Tasks /\ pc \in [Tasks -> Labels]
      /\ reg \in [Tasks -> 0..CAPACITY]
  BY DEF Tasks, TInv, TypeOK
<1>2. ~disturbed["host"] /\ ~Adding("loop")'
  BY Undisturbed DEF DumpLabels
<1>3. t = "loop"
  <2>1. t = "host" => pc'["host"] \notin DumpLabels
    BY <1>1 DEF PublishLog, Publish, LoadSlot, StoreSlot, LoadNext, StoreNext,
       LoadCount, StoreCount, Latest, Copy, SetValue, Notify, Step, DumpLabels
  <2> QED
    BY <2>1 DEF Tasks
<1>4. pc'["host"] = pc["host"] /\ reg'["host"] = reg["host"] /\ UNCHANGED <<i, output>>
  BY <1>1, <1>3 DEF PublishLog, Publish, LoadSlot, StoreSlot, LoadNext, StoreNext,
     LoadCount, StoreCount, Latest, Copy, SetValue, Notify, Step, Keep
<1>5. DumpSoFar
  BY <1>2, <1>4 DEF DInv
<1>6. Latest(t) \/ Copy(t) \/ SetValue(t) \/ Notify(t)
  BY <1>1, <1>2, <1>3, <1>5 DEF DumpSoFar, PublishLog, Publish, LoadSlot, StoreSlot,
     LoadNext, StoreNext, LoadCount, StoreCount, Step, Adding, AddLabels
<1>7. UNCHANGED <<entries, nextIndex, count>>
  BY <1>6 DEF Latest, Copy, SetValue, Notify, object
<1> QED
  BY <1>2, <1>4, <1>5, <1>7 DEF DumpSoFar, Slot

(* GET_LOG answers with the log, whatever CAPACITY is and wherever the log *)
(* begins in the array, unless an add disturbs the dump.                   *)
THEOREM DumpsAreTrue == Spec => []DumpIsLog
<1>1. Init => TInv /\ LInv /\ DInv
  BY InitTInv, InitLInv DEF Init, DInv, DumpLabels, Tasks
<1>2. TInv /\ LInv /\ DInv /\ [Next]_vars => (TInv /\ LInv /\ DInv)'
  <2> SUFFICES ASSUME TInv, LInv, DInv, [Next]_vars PROVE DInv'
    BY StepTInv, StepLInv
  <2>1. CASE Next
    <3>1. ASSUME BleBegins PROVE DInv'
      <4>1. UNCHANGED <<object, pc, reg, i, output>>
        BY <3>1 DEF BleBegins, tasks
      <4>2. pc'["host"] # "idle" /\ ~disturbed'["host"] =>
              ~disturbed["host"] /\ ~Adding("loop")'
        BY <2>1, Undisturbed DEF Next
      <4> QED
        BY <4>1, <4>2 DEF DInv, DumpLabels, DumpSoFar, Slot, object
    <3> QED
      BY <2>1, <3>1, GetLogDumps, PublishLogDumps DEF Next
  <2>2. CASE UNCHANGED vars
    BY <2>2 DEF DInv, DumpSoFar, Slot, Adding, vars, object, ble, tasks, history
  <2> QED
    BY <2>1, <2>2
<1>3. TInv /\ LInv /\ DInv => DumpIsLog
  <2> SUFFICES ASSUME TInv, LInv, DInv, pc["host"] = "dumped", ~disturbed["host"]
               PROVE  /\ Len(output) = count
                      /\ \A k \in 1..intact : output[count + 1 - k] = lines + 1 - k
    BY DEF DumpIsLog
  <2>1. DumpSoFar /\ i = count
    BY DEF DInv, DumpSoFar, DumpLabels
  <2>2. \A t \in Tasks : ~Adding(t)
    BY <2>1 DEF DumpSoFar, Adding, AddLabels, Tasks
  <2>3. /\ intact <= count /\ count \in Nat /\ intact \in Nat
        /\ \A k \in 1..intact : entries[Slot(nextIndex, k)] = lines + 1 - k
    BY <2>2, CapacityAssumption DEF LInv, LogHeals, Slot, TInv, TypeOK
  <2>4. ASSUME NEW k \in 1..intact
        PROVE  output[count + 1 - k] = lines + 1 - k
    <3>1. count + 1 - k \in 1..count /\ count + 1 - (count + 1 - k) = k
      BY <2>3
    <3>2. output[count + 1 - k] = entries[Slot(nextIndex, k)]
      BY <2>1, <3>1 DEF DumpSoFar
    <3> QED
      BY <2>3, <3>2
  <2> QED
    BY <2>1, <2>4 DEF DumpSoFar
<1> QED
  BY <1>1, <1>2, <1>3, PTL DEF Spec

-----------------------------------------------------------------------------
(* Nothing old is sent.  A publishLog whose line is in the log finds this  *)
(* line or a newer one as the latest, as long as adds do not overlap.      *)
SendReady(t) ==
  /\ Adding(t) => ~disturbed[t]
  /\ Publishing(t) /\ ~Adding(t) => intact >= 1
  /\ pc[t] = "copy" => entries[reg[t]] >= line[t]
  /\ pc[t] = "setValue" => text[t] >= line[t]
  /\ pc[t] = "notify" => logValue >= oldest[t]

(* oldest bounds the lines being published.                                *)
Order ==
  \A t \in Tasks : Publishing(t) =>
    /\ oldest[t] <= line[t]
    /\ \A u \in Tasks \ {t} : Publishing(u) => /\ oldest[t] <= line[u]
                                               /\ line[t] # line[u]

BeforeBegin == begun \/ (pc["host"] = "idle" /\ pc["loop"] # "notify")

SInv == Order /\ BeforeBegin /\ (~mixed => \A t \in Tasks : SendReady(t))

LEMMA OthersStand ==
  ASSUME TInv, NEW t \in Tasks, NEW u \in Tasks, u # t, PublishLog(t)
  PROVE  pc'[u] = pc[u] /\ reg'[u] = reg[u] /\ line'[u] = line[u] /\ text'[u] = text[u]
  BY DEF TInv, TypeOK, PublishLog, Publish, LoadSlot, StoreSlot, LoadNext, StoreNext,
     LoadCount, StoreCount, Latest, Copy, SetValue, Notify, Step, Keep

(* A step that starts no publishLog keeps the lines being published.       *)
LEMMA OrderStands ==
  ASSUME TInv, Order, Watch, line' = line,
         \A t \in Tasks : Publishing(t)' => Publishing(t)
  PROVE  Order'
<1> SUFFICES ASSUME NEW t \in Tasks, Publishing(t)'
             PROVE  /\ oldest'[t] = oldest[t]
                    /\ Publishing(t)
  BY DEF Order
<1> QED
  BY DEF Watch, WatchLines

LEMMA PublishOrders ==
  ASSUME TInv, Order, Watch, NEW t \in Tasks, NEW u \in Tasks, u # t, Publish(t)
  PROVE  Order'
<1>1. Tasks = {t, u} /\ Other(t) = u /\ Other(u) = t
  BY DEF Tasks, Other
<1>2. /\ pc[t] = "idle" /\ pc'[u] = pc[u] /\ line'[u] = line[u] /\ line'[t] = lines + 1
      /\ lines \in Nat /\ line[u] \in 0..lines
  BY DEF Publish, Step, TInv, TypeOK
<1>3. ~Publishing(t) /\ (Publishing(u)' <=> Publishing(u))
  BY <1>2 DEF Publishing, Adding, AddLabels
<1>4. Publishing(t)' =>
        oldest'[t] = IF Publishing(u) THEN line[u] ELSE line'[t]
  BY <1>1, <1>3 DEF Watch, WatchLines
<1>5. Publishing(u) => oldest'[u] = oldest[u] /\ oldest[u] <= line[u]
  BY <1>1, <1>3 DEF Watch, WatchLines, Order
<1>6. oldest[u] \in 0..lines
  BY DEF TInv, TypeOK
<1> QED
  BY <1>1, <1>2, <1>3, <1>4, <1>5, <1>6 DEF Order

LEMMA StepOrder ==
  ASSUME TInv, Order, Next
  PROVE  Order'
<1>1. Watch
  BY DEF Next
<1>2. ASSUME NEW t \in Tasks, PublishLog(t) PROVE Order'
  <2>1. PICK u \in Tasks : u # t
    BY DEF Tasks
  <2>2. Tasks = {t, u}
    BY <2>1 DEF Tasks
  <2>3. CASE Publish(t)
    BY <1>1, <2>1, <2>3, PublishOrders
  <2>4. CASE ~Publish(t)
    <3>1. line' = line /\ Publishing(t)
      BY <1>2, <2>4 DEF PublishLog, LoadSlot, StoreSlot, LoadNext, StoreNext, LoadCount,
         StoreCount, Latest, Copy, SetValue, Notify, Step, Publishing, Adding, AddLabels
    <3>2. pc'[u] = pc[u]
      BY <1>2, <2>1, OthersStand
    <3> QED
      BY <1>1, <2>2, <3>1, <3>2, OrderStands DEF Publishing, Adding
  <2> QED
    BY <2>3, <2>4
<1>3. CASE GetLog
  <2>1. line' = line /\ pc'["loop"] = pc["loop"] /\ ~Publishing("host")'
    BY <1>3 DEF GetLog, Dump, DumpTest, DumpIndex, DumpEntry, DumpEnds, Step, Tasks,
       TInv, TypeOK, Publishing, Adding, AddLabels
  <2> QED
    BY <1>1, <2>1, OrderStands DEF Tasks, Publishing, Adding
<1>4. CASE BleBegins
  BY <1>1, <1>4, OrderStands DEF BleBegins, tasks, Publishing, Adding
<1> QED
  BY <1>2, <1>3, <1>4 DEF Next

LEMMA StepBeforeBegin ==
  ASSUME TInv, BeforeBegin, Next
  PROVE  BeforeBegin'
<1> USE DEF BeforeBegin, Tasks, Step, TInv, TypeOK
<1>1. ASSUME NEW t \in Tasks, PublishLog(t) PROVE BeforeBegin'
  BY <1>1 DEF PublishLog, Publish, LoadSlot, StoreSlot, LoadNext, StoreNext, LoadCount,
     StoreCount, Latest, Copy, SetValue, Notify, ble
<1>2. CASE GetLog
  BY <1>2 DEF GetLog, Dump, DumpTest, DumpIndex, DumpEntry, DumpEnds, ble
<1>3. CASE BleBegins
  BY <1>3 DEF BleBegins
<1> QED
  BY <1>1, <1>2, <1>3 DEF Next

(* While adds do not overlap, an add works on an intact log.               *)
LEMMA AddIsSolo ==
  ASSUME TInv, LInv, SInv, ~mixed, NEW u \in Tasks, Adding(u)
  PROVE  AddDone(u)
  BY DEF SInv, SendReady, LInv, Progress

LEMMA LatestIsNew ==
  ASSUME TInv, LInv, SInv, ~mixed, NEW t \in Tasks, pc[t] = "latest"
  PROVE  count > 0 /\ entries[Slot(nextIndex, 1)] >= line[t]
<1> USE CapacityAssumption DEF TInv, TypeOK
<1>1. PICK u \in Tasks : u # t
  BY DEF Tasks
<1>2. Tasks = {t, u}
  BY <1>1 DEF Tasks
<1>3. ~Adding(t) /\ Publishing(t) /\ intact >= 1 /\ line[t] \in 0..lines
  BY DEF SInv, SendReady, Publishing, Adding, AddLabels
<1>4. CASE ~Adding(u)
  <2>1. intact <= count /\ entries[Slot(nextIndex, 1)] = lines + 1 - 1
    <3>1. /\ intact <= count
          /\ \A k \in 1..intact : entries[Slot(nextIndex, k)] = lines + 1 - k
      BY <1>2, <1>3, <1>4 DEF LInv, LogHeals, Slot
    <3> QED
      BY <1>3, <3>1
  <2> QED
    BY <1>3, <2>1
<1>5. CASE Adding(u)
  <2>1. AddDone(u)
    BY <1>5, AddIsSolo
  <2>2. line[t] <= lines - 1
    BY <1>1, <1>3, <1>5, <2>1 DEF SInv, Order, Publishing, AddDone
  <2>3. CASE pc[u] \in {"loadSlot", "storeSlot"}
    BY <1>3, <2>1, <2>2, <2>3 DEF AddDone
  <2>4. CASE pc[u] \in {"loadNext", "storeNext"}
    <3>1. CASE CAPACITY = 1
      <4>1. Slot(nextIndex, 1) = nextIndex
        BY <3>1, SlotInRange
      <4> QED
        BY <1>3, <2>1, <2>4, <4>1 DEF AddDone
    <3>2. CASE CAPACITY > 1
      BY <1>3, <2>1, <2>2, <2>4, <3>2 DEF AddDone
    <3> QED
      BY <3>1, <3>2
  <2>5. CASE pc[u] \in {"loadCount", "storeCount"}
    BY <1>3, <2>1, <2>5 DEF AddDone
  <2> QED
    BY <1>3, <1>5, <2>1, <2>3, <2>4, <2>5 DEF Adding, AddLabels, AddDone
<1> QED
  BY <1>4, <1>5

LEMMA WatchKeeps ==
  ASSUME TInv, Watch
  PROVE  intact \in Nat /\ intact' \in Nat
<1>1. intact' \in {0, intact, intact + 1}
  BY DEF Watch, WatchAdds
<1> QED
  BY <1>1, CapacityAssumption DEF TInv, TypeOK

(* What the history of a step says when adds have not overlapped.          *)
LEMMA StillSolo ==
  ASSUME TInv, LInv, Watch, ~mixed', NEW t \in Tasks, Publishing(t)'
  PROVE  /\ ~mixed
         /\ ~(\A v \in Tasks : Adding(v)')
         /\ intact' >= intact
         /\ Adding(t)' => (disturbed'[t] <=> disturbed[t])
<1>1. ~mixed /\ ~(\A v \in Tasks : Adding(v)')
  BY DEF Watch, WatchLines
<1>2. intact' >= intact
  <2>1. intact' \in {intact, intact + 1}
    BY <1>1 DEF Watch, WatchAdds
  <2> QED
    BY <2>1, CapacityAssumption DEF TInv, TypeOK
<1>3. ASSUME Adding(t)' PROVE disturbed'[t] <=> disturbed[t]
  <2>1. \A u \in Tasks \ {t} : ~Adding(u)'
    BY <1>1, <1>3 DEF Tasks
  <2> QED
    BY <1>3, <2>1 DEF Watch, WatchAdds, TInv, TypeOK, Adding, AddLabels
<1> QED
  BY <1>1, <1>2, <1>3

(* The steps of t itself.                                                  *)
LEMMA OwnStepSends ==
  ASSUME TInv, LInv, SInv, Order', Watch, NEW t \in Tasks, PublishLog(t), ~mixed'
  PROVE  SendReady(t)'
<1> SUFFICES ASSUME Publishing(t)' PROVE SendReady(t)'
  BY DEF SendReady, Publishing
<1>1. /\ ~mixed /\ intact' >= intact
      /\ Adding(t)' => (disturbed'[t] <=> disturbed[t])
  BY StillSolo
<1>2. pc \in [Tasks -> Labels] /\ reg \in [Tasks -> 0..CAPACITY] /\ SendReady(t)
      /\ text \in [Tasks -> 0..lines] /\ intact \in Nat
  BY <1>1, CapacityAssumption DEF TInv, TypeOK, SInv
<1>3. CASE Publish(t)
  BY <1>1, <1>2, <1>3 DEF Publish, Step, SendReady, LInv, Overlap, Adding, AddLabels
<1>4. CASE LoadSlot(t) \/ StoreSlot(t) \/ LoadNext(t) \/ StoreNext(t) \/ LoadCount(t)
  BY <1>1, <1>2, <1>4 DEF LoadSlot, StoreSlot, LoadNext, StoreNext, LoadCount, Step,
     SendReady, Adding, AddLabels
<1>5. CASE StoreCount(t)
  <2>1. pc[t] = "storeCount" /\ pc'[t] = "latest"
    BY <1>2, <1>5 DEF StoreCount, Step
  <2>2. Adding(t) /\ ~Adding(t)' /\ ~disturbed[t]
    BY <1>2, <2>1 DEF SendReady, Adding, AddLabels
  <2>3. intact' >= 1
    <3>1. ~(\A v \in Tasks : Adding(v)')
      BY <2>2
    <3>2. intact' = IF intact < CAPACITY THEN intact + 1 ELSE intact
      BY <2>2, <3>1 DEF Watch, WatchAdds
    <3> QED
      BY <1>2, <3>2, CapacityAssumption
  <2> QED
    BY <2>1, <2>2, <2>3 DEF SendReady
<1>6. CASE Latest(t)
  <2>1. pc[t] = "latest" /\ count # 0 /\ entries[Slot(nextIndex, 1)] >= line[t]
    BY <1>1, <1>6, LatestIsNew DEF Latest
  <2>2. pc'[t] = "copy" /\ reg'[t] = Slot(nextIndex, 1) /\ UNCHANGED <<entries, line>>
    BY <1>2, <1>6, <2>1 DEF Latest, Step, Keep, object, Slot
  <2>3. ~Adding(t) /\ ~Adding(t)' /\ Publishing(t)
    BY <2>1, <2>2 DEF Publishing, Adding, AddLabels
  <2> QED
    BY <1>1, <1>2, <2>1, <2>2, <2>3, WatchKeeps DEF SendReady
<1>7. CASE Copy(t)
  <2>1. /\ pc[t] = "copy" /\ pc'[t] = "setValue" /\ text'[t] = entries[reg[t]]
        /\ line' = line
    BY <1>2, <1>7 DEF Copy, Step
  <2>2. ~Adding(t) /\ ~Adding(t)' /\ Publishing(t)
    BY <2>1 DEF Publishing, Adding, AddLabels
  <2> QED
    BY <1>1, <1>2, <2>1, <2>2, WatchKeeps DEF SendReady
<1>8. CASE SetValue(t)
  <2>1. pc[t] = "setValue" /\ begun /\ pc'[t] = "notify" /\ logValue' = text[t]
        /\ line' = line
    BY <1>2, <1>8 DEF SetValue, Step, Publishing, Adding, AddLabels
  <2>2. text[t] >= line[t] /\ oldest'[t] <= line[t]
    BY <1>2, <2>1 DEF SendReady, Order
  <2>3. oldest'[t] \in Nat /\ line[t] \in Nat /\ text[t] \in Nat
    BY <1>2, <2>1 DEF TInv, TypeOK, Watch, WatchLines, Publishing
  <2>4. ~Adding(t) /\ ~Adding(t)' /\ Publishing(t)
    BY <2>1 DEF Publishing, Adding, AddLabels
  <2> QED
    BY <1>1, <1>2, <2>1, <2>2, <2>3, <2>4, WatchKeeps DEF SendReady
<1>9. CASE Notify(t)
  BY <1>2, <1>9 DEF Notify, Step, Publishing, Adding, AddLabels
<1> QED
  BY <1>3, <1>4, <1>5, <1>6, <1>7, <1>8, <1>9 DEF PublishLog

(* The steps of the other task.                                            *)
LEMMA OtherStepSends ==
  ASSUME TInv, LInv, SInv, Watch, NEW t \in Tasks, NEW u \in Tasks, u # t,
         PublishLog(u), ~mixed'
  PROVE  SendReady(t)'
<1> SUFFICES ASSUME Publishing(t)' PROVE SendReady(t)'
  BY DEF SendReady, Publishing
<1>1. /\ ~mixed /\ intact' >= intact
      /\ Adding(t)' => (disturbed'[t] <=> disturbed[t])
  BY StillSolo
<1>2. pc'[t] = pc[t] /\ reg'[t] = reg[t] /\ line'[t] = line[t] /\ text'[t] = text[t]
  BY OthersStand
<1>3. SendReady(t) /\ SendReady(u) /\ Publishing(t) /\ intact \in Nat /\ intact' \in Nat
  <2>1. intact \in Nat /\ intact' \in Nat
    BY WatchKeeps
  <2> QED
    BY <1>1, <1>2, <2>1 DEF SInv, Publishing, Adding
<1>4. oldest'[t] = oldest[t]
  BY <1>3 DEF Watch, WatchLines
<1>5. pc'[t] = "copy" => entries'[reg[t]] >= line[t]
  <2>1. CASE StoreSlot(u)
    <3>1. Adding(u) /\ pc[u] = "storeSlot"
      BY <2>1 DEF StoreSlot, Step, Adding, AddLabels
    <3>2. line[u] = lines /\ line[t] \in 0..lines /\ reg[u] \in 0..(CAPACITY - 1)
      BY <1>1, <3>1, AddIsSolo DEF AddDone, TInv, TypeOK, Registers
    <3>3. pc[t] = "copy" => reg[t] \in 0..(CAPACITY - 1)
      BY DEF TInv, Registers
    <3>4. entries' = [entries EXCEPT ![reg[u]] = line[u]]
      BY <2>1 DEF StoreSlot
    <3> QED
      BY <1>2, <1>3, <3>2, <3>3, <3>4 DEF SendReady, TInv, TypeOK
  <2>2. CASE ~StoreSlot(u)
    <3>1. entries' = entries
      BY <2>2 DEF PublishLog, Publish, LoadSlot, LoadNext, StoreNext, LoadCount,
         StoreCount, Latest, Copy, SetValue, Notify, object
    <3> QED
      BY <1>2, <1>3, <3>1 DEF SendReady
  <2> QED
    BY <2>1, <2>2
<1>6. pc'[t] = "notify" => logValue' >= oldest[t]
  <2>1. CASE SetValue(u) /\ begun
    <3>1. pc[u] = "setValue" /\ logValue' = text[u]
      BY <2>1 DEF SetValue, Step
    <3>2. text[u] >= line[u] /\ oldest[t] <= line[u]
      BY <1>3, <3>1 DEF SendReady, SInv, Order, Publishing
    <3>3. text[u] \in Nat /\ line[u] \in Nat /\ oldest[t] \in Nat
      BY DEF TInv, TypeOK
    <3> QED
      BY <3>1, <3>2, <3>3
  <2>2. CASE ~(SetValue(u) /\ begun)
    <3>1. logValue' = logValue
      BY <2>2 DEF PublishLog, Publish, LoadSlot, StoreSlot, LoadNext, StoreNext, LoadCount,
         StoreCount, Latest, Copy, SetValue, Notify, ble
    <3> QED
      BY <1>2, <1>3, <3>1 DEF SendReady
  <2> QED
    BY <2>1, <2>2
<1> QED
  BY <1>1, <1>2, <1>3, <1>4, <1>5, <1>6 DEF SendReady, Publishing, Adding

(* The steps that publish nothing.                                         *)
LEMMA QuietStepSends ==
  ASSUME TInv, LInv, SInv, Watch, GetLog \/ BleBegins, ~mixed', NEW t \in Tasks
  PROVE  SendReady(t)'
<1> SUFFICES ASSUME Publishing(t)' PROVE SendReady(t)'
  BY DEF SendReady, Publishing
<1>1. /\ ~mixed /\ intact' >= intact /\ intact \in Nat /\ intact' \in Nat
      /\ Adding(t)' => (disturbed'[t] <=> disturbed[t])
  BY StillSolo, WatchKeeps
<1>2. t = "loop"
  BY DEF GetLog, Dump, DumpTest, DumpIndex, DumpEntry, DumpEnds, BleBegins, Step, Tasks,
     tasks, TInv, TypeOK, Publishing, Adding, AddLabels, SInv, BeforeBegin
<1>3. CASE GetLog
  <2>1. /\ pc'[t] = pc[t] /\ reg'[t] = reg[t]
        /\ UNCHANGED <<entries, line, text, logValue>>
    BY <1>2, <1>3 DEF GetLog, Dump, DumpTest, DumpIndex, DumpEntry, DumpEnds, Step, Keep,
       TInv, TypeOK, object, ble, Tasks
  <2>2. SendReady(t) /\ Publishing(t)
    BY <1>1, <2>1 DEF SInv, Publishing, Adding
  <2>3. oldest'[t] = oldest[t]
    BY <2>2 DEF Watch, WatchLines
  <2> QED
    BY <1>1, <2>1, <2>2, <2>3 DEF SendReady, Publishing, Adding
<1>4. CASE BleBegins
  BY <1>2, <1>4 DEF BleBegins, tasks, Publishing, Adding, AddLabels
<1> QED
  BY <1>3, <1>4

LEMMA StepSInv == TInv /\ LInv /\ SInv /\ [Next]_vars => SInv'
<1> SUFFICES ASSUME TInv, LInv, SInv, [Next]_vars PROVE SInv'
  OBVIOUS
<1>1. CASE Next
  <2>1. Order' /\ BeforeBegin' /\ Watch
    BY <1>1, StepOrder, StepBeforeBegin DEF SInv, Next
  <2>2. ASSUME ~mixed', NEW t \in Tasks PROVE SendReady(t)'
    <3>1. CASE \E v \in Tasks : PublishLog(v)
      BY <2>1, <2>2, <3>1, OwnStepSends, OtherStepSends
    <3>2. CASE GetLog \/ BleBegins
      BY <2>1, <2>2, <3>2, QuietStepSends
    <3> QED
      BY <1>1, <3>1, <3>2 DEF Next
  <2> QED
    BY <2>1, <2>2 DEF SInv
<1>2. CASE UNCHANGED vars
  BY <1>2 DEF SInv, SendReady, Order, BeforeBegin, Publishing, Adding, vars, object, ble,
     tasks, history
<1> QED
  BY <1>1, <1>2

(* However the setValue() and notify() of the two tasks interleave, what   *)
(* is sent is no older than the lines being published, unless adds overlap.*)
THEOREM SendsNoOldLine == Spec => []NoOldLineSent
<1>1. Init => TInv /\ LInv /\ SInv
  <2>1. Init => SInv
    BY DEF Init, SInv, SendReady, Order, BeforeBegin, Publishing, Adding, AddLabels, Tasks
  <2> QED
    BY <2>1, InitTInv, InitLInv
<1>2. TInv /\ LInv /\ SInv /\ [Next]_vars => (TInv /\ LInv /\ SInv)'
  BY StepTInv, StepLInv, StepSInv
<1>3. SInv => NoOldLineSent
  BY DEF SInv, SendReady, NoOldLineSent
<1> QED
  BY <1>1, <1>2, <1>3, PTL DEF Spec
=============================================================================
