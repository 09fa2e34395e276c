# Verification of the Smart Drawer Anti-Theft System

TLA+ models of the ESP32 firmware, of the desktop application and of the
command-line client, the TLC configurations that check them, and proofs of
their theorems for TLAPS. Paths below are relative to `src/`;
`SmartDrawerAlarm.ino` and the `.cpp` files are under
`firmware/SmartDrawerAlarm/`, `main_gui.py`, `backends.py`, `worker.py`,
`protocol.py` and `email_notifier.py` under `pc_app/smart_drawer_gui/`,
`main.py`, `ble_client.py` and `commands.py` under
`pc_app/smart_drawer_client/`.

- [The system](#the-system): its components and how they interact
- [Modules](#modules): which module models what, and how
- [Runs](#runs): what TLC checks, within which bounds
- [Fairness](#fairness)
- [Proofs](#proofs)
- [What the checks found](#what-the-checks-found)
- [Not modelled](#not-modelled)

## The system

An ESP32 in a drawer watches three light sensors and an accelerometer. Armed
over Bluetooth Low Energy with a PIN, it raises an alarm (buzzer, notification)
when the light or the acceleration changes. A PC talks to it with a Tk
application or with a command-line client.

| Component | State | Operations |
|---|---|---|
| Security state machine (`state_machine.cpp`) | `currentState`, `currentReason` | `arm`, `disarm`, `trigger` |
| Buzzer controller (`alarm_buzzer.cpp`) | `alarmActive`, `step`, `stepStartedAt`, the PWM output | `setAlarmActive`, `update`, `advanceStep`, `stop` |
| BLE command service (`ble_service.cpp`) | `clientConnected`, the values of two characteristics, advertising | `onConnect`, `onDisconnect`, `onWrite`, `notifyStatus`, `notifyLog` |
| Command handler and main loop (`SmartDrawerAlarm.ino`) | `currentPin`, the times of the last poll and status | `handleCommand`, `pollSensors`, `setup`, `loop` |
| Event log (`event_log.cpp`) | `entries`, `nextIndex`, `count` | `add`, `latest`, `dump` |
| LDR sensor array (`ldr_sensor.cpp`) | `baseline` | `calibrate`, `read` |
| Motion sensor (`accel_sensor.cpp`) | detected address and type, `baselineMagnitude` | `begin`, `calibrate`, `read` |
| BLE backend (`BleDrawerBackend`, `backends.py`) | `client`, callbacks, `_status_event` | `scan`, `connect`, `disconnect`, `send_command` |
| Mock drawer (`MockDrawerBackend`, `backends.py`) | `connected`, `state`, `pin` | the same four; `MOCK_ALARM` raises its alarm |
| Backend worker (`worker.py`) | the asyncio loop and its coroutines; the event queue, which outlives it | `submit`, `_guard`, `shutdown` |
| GUI protocol (`protocol.py`) | none | `validate_pin`, `build_change_pin`, `parse_status_message` |
| GUI main window (`main_gui.py`) | `connected`, `snapshot`, `alarm_email_sent`, `use_mock`, `worker`, both badges, the forms, dialogs | the clicks, `_handle_event`, `_handle_alarm_email`, `_on_mock_toggle`, `_on_close` |
| Email notifier (`email_notifier.py`) | a configuration made from the form | `validate`; sends on a thread of its own |
| Command-line client (`main.py`, `ble_client.py`, `commands.py`) | `client`, `device`, `last_status`, `_status_event` | `connect`, `ensure_connected`, `send_command`, `disconnect`, both modes of `ConsoleApp` |

How they interact, and what is hard about it:

- **Two tasks on two cores, no lock.** The Arduino loop task runs
  `buzzer.update`, `pollSensors` and the periodic status line. The NimBLE host
  task runs the callbacks, and `onWrite` runs `handleCommand` to its end. Both
  call `security`, `buzzer`, `logger` and `ble`. Correct would be: state,
  buzzer and tone agree; only the PIN in force moves them; `OK DISARMED` is
  true; the log holds the lines that were added, and sends no stale one. A
`setValue` and its `notify` are two calls: either task may send what the other
has set.
- **Long operations between a check and its use.** A poll takes some 50 ms
  between the armed check and the trigger, the calibration that `ARM` starts
  more than a second. Baselines are replaced one at a time while a poll reads
  against them. Both tasks read the accelerometer through the one buffer of
  `Wire`.
- **A bus and a radio that fail.** I2C transfers may fail during the scan, the
  configuration, a calibration or a reading. The BLE link may break at any
  moment. The firmware must advertise again, a client must hear the true state
  again.
- **Coroutines and a Tk thread.** `connect` awaits six times and reads
  `self.client` again after each; the GUI lets its user start another
  `connect` meanwhile. Events cross to the Tk thread through a queue and are
  handled up to 100 ms later, against a form that may have changed; an
  error dialog stops the handling of events until somebody dismisses it, while
  the dialog that refuses a switch of the mode lets it go on.
- **A client that is replaced.** `connect` makes a new `BleakClient` and does
  not disconnect the one before; when the new one fails, nobody refers to the old
  link any more.
- **A worker that is stopped under its coroutines.** Switching the mode and
  closing the window call `shutdown()` in the Tk thread, which waits two seconds
  for a disconnection and then stops the loop with whatever is in flight. The
  events of the old worker are still in the queue, and connect or disconnect
  the GUI later.
- **Answers without a number.** Both clients take the first status
  notification after a write for the answer to it. The drawer sends a status line
  every second, and the answer to `ARM` only after a calibration that takes
  longer; and what the loop task sends may be an answer once more.
- **Text protocols.** The GUI finds the state of the drawer by looking for
  words within messages.

## Modules

| Module | Models | Used by |
|---|---|---|
| `SmartDrawerAlarm` | security state machine, buzzer, status characteristic, PIN, BLE link: both firmware tasks | `MCSmartDrawerAlarm` |
| `AlarmDevice` | what these promise: state and buzzer that change together | `AlarmOverlap`, as the specification it implements |
| `AlarmOverlap` | `SmartDrawerAlarm` with a history of overlapping writes, and the refinement mapping to `AlarmDevice` | `MCAlarmOverlap` |
| `EventLog` | the event log under adds, sends and dumps of both tasks | `MCEventLog` |
| `Sensors` | calibration against polling, I2C failures, the vote | `MCSensors` |
| `DrawerGui` | Tk thread, coroutines await by await, BLE stack; alarm email; the drawer as environment | `MCDrawerGui` |
| `GuiSession` | Tk thread, workers that come and go, mode switch, closing, mock drawer, PIN form | `MCGuiSession` |
| `CommandClient` | the command-line client, its link, and the two notifying tasks of the drawer | `MCCommandClient` |
| `DrawerCall` | what the client promises of a command: a remote call, executed at most once | `CommandClient`, as the specification it implements |
| `Timers` | the intervals of the firmware against a clock that wraps | `MCTimers` |
| `SmartDrawerAlarmProof`, `AlarmOverlapProof`, `EventLogProof`, `SensorsProof`, `DrawerGuiProof`, `GuiSessionProof`, `CommandClientProof`, `TimersProof` | theorems of the modules they name | |

**SmartDrawerAlarm.** A step is one access to a member that both tasks use;
`loopPc` and `hostPc` say where each task is. So `security.disarm()` is
`HostEnter` (the test), `HostSetState`, `HostClearReason`, and `buzzer.stop()`
is `HostStop`, `HostStopStep`, `HostStopTone`. `trigger()` is `TriggerCheck`,
`TriggerSetAlarm`, `TriggerSetReason`. `advanceStep` is `AdvanceWaits` or
`AdvanceDue`, `StoreStep`, `PlayStep`; the compiler may keep the step in a
register or load it again, and `PlayStep` allows both; `playStep` looks at
`alarmActive` again (`SoundTest`) before it sounds (`SoundTone`) or is silent
(`SoundOff`). `notifyStatus` is a `setValue` and a `notify`, which sends the
value the characteristic then holds. Comparisons of `millis()` with an interval
come out either way here (`Timers` has them). What only the host task uses
(`currentPin`, the command) is read and written in the step of its next shared
access. A PIN is a model value, its being acceptable to `CHANGE_PIN` membership
in `ValidPins`.

**AlarmOverlap** adds the history variable `torn`: have the stretches in which
both tasks still had writes to do overlapped, since the host task last began to
write undisturbed?

**AlarmDevice** is an alarm whose state and buzzer change in one step: `Raise`
(from `ARMED` only), `Carry` (an accepted `ARM` or `DISARM`: either ends an
alarm, where `README.md:36` knows of `DISARM` alone; the run `alarm_lasts`
states the disagreement), and `Overlap`, after which nothing is known until the
next `Carry`. `AlarmOverlap!Device` maps the firmware to it: a change counts
from the step that decides it (the check in `trigger`, `arm` or `disarm`), and
the writes that follow only carry it out.

**EventLog.** Two tasks call `publishLog` (`add`, `latest`, `notifyLog`), the
host task also `dump`. `add` is a load and a store for each of the slot index,
`nextIndex` and `count`, because `nextIndex = (nextIndex + 1) % CAPACITY`
and `count++` are not atomic; `latest` computes an index and copies a line
(`Latest`, `Copy`); `notifyLog` is `SetValue` and `Notify`, and does nothing
before `BleBegins`, which also sets the value to the line BOOT. A line is the
number it was added as. `intact` is a history: how many of the latest adds had
the log to themselves. `mixed` and `oldest` tell which lines may be sent: have
adds overlapped since nobody was publishing, and the oldest line that was being
published when a `publishLog` began.

**Sensors.** The calibrating task is `setup()` first and the host task then; it
calibrates one LDR or scans one I2C address a step. The loop task reads one LDR a
step. An access to the accelerometer has two halves in either task, the transfer
that fills the buffer of `Wire` (`SampleTransfer`, `ReadTransfer`) and the six
reads from it (`SampleMotion`, `ReadMotion`); a transfer of one task between the
halves of the other sets `mixed`, and then any value of `Garbled` may be read by
both. An average of ADC samples is one value; a noisy LDR reads anything; LDRs at
one `Place` see the same light; three axes are one magnitude. `changed` and
`pollChanged` remember which inputs have changed since the baseline was taken,
`worthless` which readings tell nothing (mixed, or an average of no sample).

**DrawerGui.** A coroutine runs undisturbed between two awaits, so each await
of `BleDrawerBackend` separates two actions (`ConnectStarts`,
`ClientConnects`, `ConnectChecks`, `Subscribes`, `LooksAgain`, `Follows`,
`ConnectAnnounces`...); `subscribed` and `following` are the clients with a
status and a log subscription. A
`BleakClient` is a model value; what bleak and the radio do is external: each
call may succeed or raise, each link may break. The Tk thread handles one event
or one click a step, with the guards that `_set_controls_enabled` gives the
buttons; while `dialog` holds it handles neither. `Parse` is what
`parse_status_message` makes of the state, with its order of tests. The email
form is a record whose texts are empty, with an @ or without; `Validate` is
`EmailConfig.validate`; `sending` counts the threads that send. The drawer has
no state here: its messages may be overwritten, late or repeated, as
`SmartDrawerAlarm` and `CommandClient` have it, so `StatusArrives` and
`LogArrives` bring any message at any time, and a loss of power is `LinkLost`.
What a property needs of the drawer it has as a premise (`Tells`: in the end the
status lines carry one state), which is what `SmartDrawerAlarm` promises with
`StatusConverges`.

**GuiSession.** The BLE backend is here only what a session sees of it (a call
ends with its events or with an exception); what is new is that workers come and
go, and that clients are replaced: `client` is the `connect()` whose client the
backend refers to, `link` is its `is_connected()`, and `up` says whether any
client of this backend has a link. `BleConnectStarts` (with `BleFinds`, when the
drawer must be found first) replaces the client; `left` is a history, that the
latest `connect()` failed beside such a link. `tk` says whether the Tk thread is
idle, amid a batch of `_process_events`, in `shutdown()`, or gone; `after` what
it does when `shutdown()` returns. `ready` is the order in which the loop starts
what was submitted, so that the `disconnect()` of `shutdown()` (`stop`) starts
last. `Returns` stops the loop and loses what was in flight; the queue stays.
`unclean` is a history of what disturbed the latest `shutdown()`: a `connect()`
in flight, a `disconnect()` that raised, or the two seconds. `ClickMode` in a
connected GUI opens the dialog (`refusing`), under which events go on being
handled by the wrong mode, until `DismissRefusal` puts the box back; `slipped`
remembers a "Connected." that came in between. The mock drawer is
`HandleCommand` and `Response`; a PIN is its length and whether it is all
digits, and `ValidatePin` and `BuildChangePin` are those of `protocol.py`.

**CommandClient.** There is one coroutine, and a step is what lies between two
of its awaits; the notification callbacks (`OnStatus`) run between steps. A line
is its verb and the number of words after it, which is all that
`validate_command` looks at. `air` is the FIFO link from the drawer. The
firmware handles a command within `onWrite`, so the answer is set (`Execute`)
and sent (`AnswerNotifies`) before the write is acknowledged (`Acknowledge`).
The loop task sets its line (`ReportSets`) and sends what `value` then holds
(`ReportNotifies`). So a status message is an answer to the command under way,
to an earlier one, either of them once more (a repeat), or a periodic line;
`NewCommand` ages the answers. `executed`, `seen`, `lost` and `spoiled` are
histories.

**DrawerCall** is the same without connections, attempts, status lines and
acknowledgements: a call is made, executed at most once (perhaps after the
caller has given up), and returns only when it has been executed and its answer
was shown or is lost; what it returns may be the answer to an earlier call that
was sent `again`, never one left over from it; the caller may give up at any
time, and then knows nothing. `CommandClient!Remote` maps the client to it: the
caller is `free` before the first command and once one has returned, `gone` when
the console ends or an exception or interrupt has ended the program, and `busy`
at every await between.

**Timers.** One iteration of `loop()` is `Loop` (the reading that poll and status
line share), `Update` (the buzzer, with a reading of its own), `PollSensors`
and `NotifyStatus`; `Tick` lets a millisecond pass anywhere between them, and
`Stop` is `buzzer.stop()` by the host task. `IsOver` is the unsigned comparison
of the code. How long ago the stored readings were taken (`sincePoll`,
`sinceNotify`, `sinceStep`) is a history that does not wrap. What an interval
starts, and the races of `stop()` with `advanceStep`, are in
`SmartDrawerAlarm`; what they store in `stepStartedAt`, the next alarm replaces.

## Runs

| Run | Checks | Shows |
|---|---|---|
| `alarm` | `TypeOK`, `UntornIsConsistent`, `OkIsTruthful`, `OnlyPinMovesAlarm`, `ImplementsDevice` | overlapping writes are the only way to an inconsistent alarm, one undisturbed `ARM` or `DISARM` repairs it, and its answer is then true; whatever PINs are sent and changed, only the PIN in force arms or disarms; the unlocked writes of both tasks implement `AlarmDevice`, in which `ARM` ends an alarm, too |
| `alarm_liveness` | `StatusConverges`, `LinkRecovers` | a client left alone comes to hear the true state; advertising resumes after a broken link |
| `event_log` | `TypeOK`, `LogHeals`, `DumpIsLog`, `NoOldLineSent` | indices stay in range under every overlap, `CAPACITY` undisturbed lines heal the log, an undisturbed dump is right, and unless adds overlap no line is sent that is older than those being published |
| `sensors` | `TypeOK`, `LightAlarmIsReal`, `MotionAlarmIsReal`, `IntrusionIsNoticed` | one noisy LDR, a calibration amid a poll and failing transfers raise no alarm by themselves, save for the empty baseline below and mixed reads; an armed drawer in which two sound LDRs keep seeing changed light does not stay armed |
| `gui` | `TypeOK`, `OneEmailPerShownAlarm`, `AlarmIsTold`, `BadgeConverges`, `AlarmIsEmailed`, `CommandFindsLinkBroken` | only connected clients are subscribed; at most one email is sent while the badge goes on showing ALARM; a message of an alarm that arrives is going to be shown, no alarm is without one, and it goes only for another message or for Disconnected; the badge converges to what the drawer tells, a lasting alarm uses up its email, a command tells a wrong "connected" |
| `session` | `PinIsTypable`, `WorkerMatchesMode`, `AssertionNeedsRace`, `LinkIsClosed`, `MockAlarmStaysInMock`, `BadgeLiesAfterScanOnly`, `MockIsShown`, `ShutdownEnds`, `BadgeSettles` | only a disturbed `shutdown()`, or a `connect()` that replaced a connected client and failed, leaves a link behind; only the former a connected GUI without a worker; `MOCK_ALARM` reaches a real drawer only through the dialog of a refused switch; the PIN stays one that the form accepts; the mock drawer and its display agree; neither the window nor the badge gets stuck |
| `client` | `ExactlyOnce`, `AnswerIsOwn`, `AnswerIsShown`, `DrawerIsLeftFree`, `OnlyKnownVerbs`, `CommandReturns`, `ImplementsCall`, `CommandRunsOut` | whatever calls fail, no command runs twice; an earlier answer is printed only where the loop task has sent it once more, and none is missed unless it is lost; the drawer is left free; every command returns, after at most 23 awaits; the client implements the remote call of `DrawerCall` |
| `timers` | `NeverLate`, `NeverEarly` | wherever the counter wraps, no poll, status line or tone comes early, and none is late by two iterations |

`TypeOK` of `GuiSession`, `CommandClient` and `Timers` is in no run: it is proved
for all values of the constants, and the inductive invariants rest on it.

Four more runs each check one statement of the documentation that the code does
not keep; see [below](#what-the-checks-found).

**Bounds.**

- *Alarm core:* finite without bounds, given the sets of commands and words.
  `alarm` has all commands and two acceptable PINs, so that an old PIN can be
  presented after a change, and one word for all that are too short, too long or
  missing. `alarm_liveness` has all commands, one PIN, and alarms by light only,
  to leave room for the temporal check: its properties are about which state is
  reported, never about why it is that state.
- *Event log:* `CAPACITY` = 4 (24 in the firmware) and `MaxLines` = 8, the
  number of lines added. So the log wraps around once with both tasks anywhere
  in `add`; `setup` adds three lines, as in the code. The theorems hold for
  every `CAPACITY`.
- *Sensors:* three LDRs and a vote of two, as in the firmware; one noisy LDR; all
  three at one place, as in one drawer; two levels of light a threshold apart;
  two magnitudes; two samples per calibration (120 in the firmware), of which
  none, one or both may fail; garbled axes of magnitude 0, the farthest from a
  baseline; a bus with an unknown device before the accelerometer.
- *GUI:* two clients, so that a new one can replace one still connected.
  `MaxQueue` = 1 event: while it waits whoever has another one waits, too, as if
  slower. The form is valid, or lacks its port, or has its check box off.
  `MaxEmails` = 1 thread that sends; a second email waits for it. There is one
  coroutine, to leave room for the temporal check, so this run has no
  `connect` that overlaps another: `session` has, and the theorems hold for every
  number of coroutines and every length of the queue. (The safety
  properties were also checked with `MaxQueue` = 2, 4.4 million states.)
- *Session:* two coroutines; what may be submitted beside another one is
  `connect`, `disconnect` and `MOCK_ALARM` (`Overlapping`); `MaxPending` = 1:
  with more coroutines and events pending the user does nothing, while the
  coroutines go on emitting. Three words: the default PIN, another, and one that
  the form refuses. A real drawer's answers matter only as events, so there is
  one of them. The theorems hold for every number of coroutines and everything
  overlapping.
- *Client:* eight lines, one for each way `validate_command` and the console
  treat one; `MaxAir` = 3 messages, so that an answer, its repeat and a status
  line are on their way before an acknowledgement. The theorems hold for every
  `MaxAir`.
- *Timers:* a counter modulo 16, intervals of 3 and 7, steps of 1 to 3
  milliseconds, `MaxIteration` = 3 between two readings by `loop()` and
  `MaxBoot` = 5 before the first, so that the counter wraps within each interval
  and at each point of an iteration. The ages are bounded by `NeverLate`. The
  theorems hold for every width, 2^32 among them.

Deadlock is checked in every run but `session` and `client`, whose programs end:
the window is closed, the client exits.

## Fairness

`SmartDrawerAlarm!Fairness`: both tasks keep running (weak fairness), for each
is a loop of the operating system that no priority starves, and no lock exists to
wait for. The status interval passes again and again although any one test may
come too early: strong fairness of `StatusDue`, disabled between the
tests. A broken link is reported once the host task has handled the finitely many
writes that had arrived: strong fairness of `OnDisconnect`. Nothing is assumed of
clients and radio.

`Sensors!FairSpec`: the loop task keeps polling while armed, and a
calibration that has begun goes on: its loops are bounded, the transfers have
the timeouts of the I2C driver.

`DrawerGui!Fairness`: `_process_events` reschedules itself every 100 ms (no
handler raises on the events modelled); the asyncio loop resumes each coroutine,
and bleak ends each call by success, error or its own timeout, as SMTP does; the
drawer reports every second, and other events do not keep its line out of the
bounded queue for ever (strong fairness; the queue of the program has no bound).
Nothing is assumed of user and radio. The three liveness properties have
`Answered`, a user who dismisses every dialog, as a premise, two of them also
`Tells`, a drawer that in the end tells one state to a client that listens.

`GuiSession!Fairness`: the Tk loop handles events, the loop starts and resumes
its coroutines, and `shutdown()` returns, since it waits for two seconds at
most. The `disconnect()` that `shutdown()` submits ends in the mock drawer (0.1
s); with BLE nothing says that it ever does.

`CommandClient!FairSpec`: weak fairness of the program's own steps, which
await a call that bleak ends, or a timeout. Neither the drawer nor the radio
need do anything for a command to return.

## Proofs

`tlapm` checks every step of these, for every value of the constants that
satisfies the named assumptions of the module.

| Theorem | States |
|---|---|
| `SmartDrawerAlarmProof!TypeCorrect` | `Spec => []TypeOK`; the PIN in force is always acceptable |
| `SmartDrawerAlarmProof!PinMovesAlarm` | `Spec => OnlyPinMovesAlarm` |
| `AlarmOverlapProof!OverlapIsNeeded` | `HSpec => []UntornIsConsistent` |
| `AlarmOverlapProof!AnswersAreTruthful` | `HSpec => []OkIsTruthful` |
| `EventLogProof!TypeCorrect` | `Spec => []TypeOK`, for every `CAPACITY` |
| `EventLogProof!HealsFromOverlap` | `Spec => []LogHeals`, for every `CAPACITY` |
| `SensorsProof!TypeCorrect` | `Spec => []TypeOK` |
| `SensorsProof!LightIsReal` | `Spec => []LightAlarmIsReal`, for every number of LDRs |
| `SensorsProof!MotionIsReal` | `Spec => []MotionAlarmIsReal`, for every number of samples |
| `DrawerGuiProof!TypeCorrect` | `Spec => []TypeOK`, for every number of clients and coroutines |
| `DrawerGuiProof!EmailIsSentOnce` | `Spec => []OneEmailPerShownAlarm` |
| `DrawerGuiProof!AlarmsAreTold` | `Spec => AlarmIsTold`, for every length of the queue |
| `AlarmOverlapProof!TasksImplementDevice` | `HSpec => ImplementsDevice`: the refinement |
| `EventLogProof!DumpsAreTrue` | `Spec => []DumpIsLog`, for every `CAPACITY` |
| `EventLogProof!SendsNoOldLine` | `Spec => []NoOldLineSent`, for every `CAPACITY` |
| `GuiSessionProof!SessionTypeCorrect` | `Spec => []TypeOK` |
| `GuiSessionProof!AssertionHoldsWithoutRace` | `Spec => []AssertionNeedsRace`, for every set of coroutines |
| `GuiSessionProof!LinksAreClosed` | `Spec => []LinkIsClosed` |
| `GuiSessionProof!WorkerFollowsMode` | `Spec => []WorkerMatchesMode` |
| `GuiSessionProof!BadgeLiesOnlyAfterScan` | `Spec => []BadgeLiesAfterScanOnly` |
| `GuiSessionProof!PinStaysTypable` | `Spec => []PinIsTypable`, for every set of words |
| `GuiSessionProof!MockStateIsShown` | `Spec => []MockIsShown`, for every set of coroutines |
| `GuiSessionProof!MockAlarmNeverLeaves` | `Spec => []MockAlarmStaysInMock`, for every set of coroutines |
| `CommandClientProof!ClientTypeCorrect` | `Spec => []TypeOK`; at most three attempts |
| `CommandClientProof!CommandsRunOnce` | `Spec => []ExactlyOnce`, for every `MaxAir` |
| `CommandClientProof!AnswersAreOwn` | `Spec => []AnswerIsOwn` |
| `CommandClientProof!AnswersAreShown` | `Spec => []AnswerIsShown` |
| `CommandClientProof!DrawerIsReleased` | `Spec => []DrawerIsLeftFree` |
| `CommandClientProof!VerbsAreKnown` | `Spec => []OnlyKnownVerbs` |
| `CommandClientProof!ClientImplementsCall` | `Spec => ImplementsCall`: the refinement |
| `CommandClientProof!CommandsRunOut` | `Spec => CommandRunsOut`, the safety half of `CommandReturns` |
| `TimersProof!TimersTypeCorrect` | `Spec => []TypeOK` |
| `TimersProof!IntervalsPass` | `Spec => NeverEarly`, for every width of the counter and all intervals that fit |
| `TimersProof!IntervalsEnd` | `Spec => []NeverLate`, likewise |

*Assumptions:*

- `SmartDrawerAlarm`: `PinAssumption` (acceptable PINs are words, the default
  PIN is acceptable), `SensorAssumption` (light and motion are Booleans).
- `EventLog`: `CapacityAssumption` (a log has at least one entry),
  `MaxLinesAssumption` (a natural number, however large).
- `Sensors`: `LdrAssumption` (there is an LDR), `NoisyAssumption` (fewer LDRs
  are noisy than the vote requires), `LightAssumption` and `MotionAssumption`
  (levels and thresholds are natural numbers, the thresholds positive, gravity
  never measures 0), `PlaceAssumption` (each LDR has a place), `BusAssumption`.
- `DrawerGui`: `BoundAssumption` (the queue has room for an event),
  `EmailAssumption` (an email can be sent), `FormAssumption`,
  `NoClientAssumption` (`None` is no client).
- `GuiSession`: `WordsAssumption` (a word has a length, the default PIN is
  acceptable), `PendingAssumption` (a natural number), `TasksAssumption` (a
  coroutine can be in flight), `AnswersAssumption`.
- `CommandClient`: `AirAssumption` (a message can be on its way),
  `LinesAssumption`.
- `Timers`: `IntervalAssumption` (intervals are positive), `WrapAssumption`
  (each interval and two iterations, and `setup()` and two, fit the counter,
  which goes round in 49.7 days).

*PinMovesAlarm.* That a step of `stop()` carries the right PIN is no property of
this step. The invariant behind it: while the host task is within `arm`,
`disarm` or `stop`, its command is `ARM` or `DISARM` and its PIN is the one in
force, which cannot change meanwhile, for only the host task changes it.

*OverlapIsNeeded, AnswersAreTruthful.* `UntornIsConsistent` speaks of moments
at which no task is writing, so it is not inductive. `IInv` says at each label
what a task has done so far:

- `LoopProgress`: unless torn, with the host task outside its writes, the
  alarm objects are what they are half-way through `trigger`,
  `setAlarmActive` and `advanceStep`;
- `HostProgress`: the same for `arm`, `disarm` and `stop`, with the loop task
  outside its writes;
- `AnswerFits`: the response built belongs to the command being handled;
- `OkIsTruthful` itself, which a trigger step could only break for `DISARM`,
  and it does not because `trigger` tests the state.

*HealsFromOverlap.* `TInv` (types, and the range of each register of `add`) and
`LInv`: `Overlap`, that `intact` is 0 while both tasks are in `add`;
`Progress`, that within a lone `add` the slots before `nextIndex` hold the
latest lines, with the slot, the index and the count it has written so far
(`AddDone`); and `LogHeals`. Facts about `%` come from four lemmas on `Wrap`
and `Slot` (`ModInRange`, `SlotOfNext`, `SlotIsOther`, `SlotInRange`), which are
all that the step proofs know of the ring.

*LightIsReal.* Above the types (`TInv`), `LInv` has five conjuncts: a sound LDR
not in `changed` has its light as baseline (`Fits`), except before `setup()` has
reached it, when no poll can run (`Booted`); what changes during a poll stays
known to the poll although a calibration takes it out of `changed` (`Watched`);
the votes counted are at most the noisy LDRs and the sound ones that changed
(`Votes`, a statement about cardinalities); and a movement amid the samples of a
calibration is in `changed` until they are averaged (`Moved`).

*MotionIsReal.* On top of these, `MInv`: a baseline that is not worthless equals
what the accelerometer reads unless the drawer has moved (`MFits`); within a
calibration without mixed samples the sum is a multiple of the present reading
unless the drawer moved between two of them (`Samples`), so that the mean is
exact however many transfers failed; what waits in the buffer between a transfer
and its reads is the present reading unless the drawer has moved or the buffer
is mixed (`Buffers`); and there is no baseline before the sensor is configured
(`Unset`).

*DrawerGui.* `TypeOK` needs that a coroutine waiting in `client.connect()`
waits for a client (`Awaited`), which makes the link it brings up one of a
client; the type invariant is split by who changes what. `EmailIsSentOnce`
rests on `Marked`: an email since the badge last showed no alarm means
that it still shows the alarm and that `alarm_email_sent` is set.

*AlarmsAreTold.* `WillShow(s)` says that the last event in the queue that sets
the badge sets it to `s`, or that there is none and the badge shows `s`. That at
most one state will be shown is `OneIsShown`, that there is one the invariant
`WillShowOne`. Every step leaves alone what will be shown, or makes it
`DISCONNECTED`, or brings a message, whose state it then is (`ToldStep`, with
`ArrivedShows` and `AlarmArrives`); that an event taken from the queue leaves it
alone (`TakesFirst`) is what the reading of messages in `Parse` is for. The
property is about what *will* be shown: that the queue is handled is
`BadgeConverges`.

*TasksImplementDevice.* From `IInv` above: a step that decides a change
(`TriggerCheck`, `HostEnter`) maps to `Raise` or `Carry`, the steps that carry it
out to stutters, since `LoopProgress` and `HostProgress` say that they write what
the mapping shows already; and any step that leaves `torn` set maps to
`Overlap`.

*DumpsAreTrue, SendsNoOldLine.* While the host task dumps and nobody disturbs it,
the log stands still, so that the lines collected up to index `i` are the
first `i` of it (`DumpSoFar`); the index arithmetic is `DumpIndexSlot`. What is
sent is followed by `SInv`: `oldest` bounds the lines being published (`Order`),
and unless adds have overlapped what a task finds as the latest line, copies
and sets is no older than its own, and what the characteristic then holds no
older than `oldest` (`SendReady`). Before `BleBegins` only the loop task
publishes, and it sends nothing (`BeforeBegin`).

*GuiSession.* `AssertionNeedsRace` and `LinkIsClosed` speak of a moment after
the worker is gone, but what decides them is in the queue that it left.
`WillConnect` says whether the GUI is connected once it has handled this queue,
by the last event in it that changes the connection. The invariant: when an
undisturbed `shutdown()` is done there is no link (of any client, unless `left`)
and no `WillConnect` (`Stopping`); beside a worker without a `connect()` in
flight a link that the backend cannot see is one that the latest `connect()`
left (`Lost`, `Tidy`); and this stays so as long as there is no worker
(`Stopped`), however the batches of events fall between. `Follows` strengthens
`WorkerMatchesMode` to the states amid a batch; `Typable` adds to the PIN in
force the PINs on their way to it.

*MockStateIsShown.* `MockIsShown` speaks of an empty queue; `MockAgrees` says
of every moment with a link what the badge will show (`WillShow`): the last
event in the queue that sets it, or the badge itself when there is none, agrees
with the mock drawer. Each command changes the drawer and emits the event that
agrees (`MockAnswers`); a new worker starts without a link.

*MockAlarmNeverLeaves.* Unless a "Connected." was handled under the dialog of a
refused switch (`slipped`), the button can work beside a BLE worker (a late
`connected` of a stopped mock worker, then the mode switched, then a scan).
`Button`: then there is neither a link nor a `connect()` in flight, since
Connect is disabled in a connected GUI. `WillFail`: a `MOCK_ALARM` that such a
worker has got waits for the loop, before every `connect()` that waits, so that
there is no link when it starts. This needs the order of the loop (`Ready`: each
coroutine waits once) and `Follows`, without which a `connected` could turn the
button on beside a worker with a link.

*CommandClient.* `ExactlyOnce` needs to know where the command is: not written
before `Write` (`Progress`), executed before its acknowledgement, the program
out of `writing` only after the acknowledgement or by an exception that ends it.
`AnswerIsOwn` and `AnswerIsShown` rest on `Order`: the link keeps the order
and the answer, as the host task sent it, precedes the acknowledgement, so that it
is not on the link once `send_command` waits (a repeat by the loop task may
be, and is a message of its own); `Answers` follows it into `last_status` and the
event. `DrawerIsReleased` rests on `Links`: a client that
was replaced while connected means that a `start_notify` has failed.

*ClientImplementsCall.* From the same invariant: a line typed maps to `Call`,
the drawer's execution to `Execute` (also of a command whose client has gone),
the answer's arrival, or its repeat's, to `ShowAnswer`, its loss with the link,
without a subscription or under a line of the loop task to `LoseAnswer`, the end
of the wait to `Return`, every exception to `GivesUp`, the rest to stutters.
That `Return` may return an answer only if it was shown is an invariant of its
own (`AnswerWasShown`); that it follows an execution needs `Progress`.

*CommandsRunOut.* `AwaitsLeft` counts the awaits a command can take yet: 3
once the connection is there, 5 for each attempt to connect, the first `connect()`
of `--command` included. It needs little more than types. With the fairness of
`Program` it gives `CommandReturns`.

*IntervalsPass, IntervalsEnd.* A difference of two readings says how long
ago the stored one was taken only if that is less than a turn of the counter
(`ElapsedIsAge`), and that it is less is what the comparison is for. So `IInv`
ties both: `Tracked`, that each reading and its age name one moment of the
clock; `Stored`, that a stored reading is no newer than this iteration's; and
`InTime`, which bounds each age according to whether its test is still to come
in this iteration.

Out of the prover's reach, and left to TLC: liveness under fairness
(`StatusConverges`, `LinkRecovers`, `IntrusionIsNoticed`, `BadgeConverges`,
`AlarmIsEmailed`, `CommandFindsLinkBroken`, `ShutdownEnds`, `BadgeSettles`,
`CommandReturns`; of the last, `CommandsRunOut` proves all but that the program
goes on). Every safety invariant and every action property that a passing run
checks is proved.

## What the checks found

Each is a run in which TLC violates one statement of the documentation.

| Run | What happens |
|---|---|
| `buzzer_follows_state` | `ARM` has set ARMED (`state_machine.cpp:23`) when the loop task's poll triggers and raises the whole alarm; the `buzzer.stop()` that `ARM` had still to do (`SmartDrawerAlarm.ino:90`) silences it: ALARM with the buzzer off. A `DISARM` can overlap with the loop task in the same way |
| `alarm_lasts` | `ARM` with the right PIN ends an alarm, with no overlap (`state_machine.cpp:19`); `README.md:36` has an alarm last until a correct `DISARM` |
| `still_drawer_is_quiet` | after a calibration whose I2C transfers all failed the baseline is 0, and gravity counts as motion |
| `ok_is_shown` | `"ARMED"` is found within `OK DISARMED`: the badge shows ARMED |

Seen while modelling, without a run of their own:

- A `connect()` that replaces a connected client and then fails leaves a link
  that no `disconnect()` and no `shutdown()` closes (`backends.py:101`): the
  second disjunct of `LinkIsClosed`.
- The dialog that refuses a switch of the mode handles events while the box is
  still the other way round (`main_gui.py:313`): a second "Connected." then turns
  Mock Alarm on beside a BLE worker, and `MOCK_ALARM` is written to a real
  drawer (`MockAlarmStaysInMock` allows for it).
- A poll and a calibration that read the accelerometer at the same time may read
  axes from two transfers or from an empty buffer (`accel_sensor.cpp:192`),
  which may raise an alarm of a drawer at rest or end up in a baseline
  (`MotionAlarmIsReal` allows for it).
- The loop task may send an answer once more, after its acknowledgement
  (`ble_service.cpp:63-65`); the client then takes it for the answer to its next
  command (`AnswerIsOwn` allows for it). The alarm report may be overwritten
  before it is sent; that later status lines make up for it is `StatusConverges`.
- Before Python 3.11 `asyncio.TimeoutError` is not the `TimeoutError` that is
  caught: an unanswered command ends the command-line client and disconnects the
  GUI, though the link works.
- A disconnection forgets that the email of the running alarm was sent
  (`main_gui.py:408`), so that a reconnection sends another;
  `OneEmailPerShownAlarm` is therefore about an alarm that is shown without a
  break.
- With the mock drawer the wrong badge after `OK DISARMED` stays, for no
  periodic status line comes (`MockIsShown` allows for it).
- `connected` without a worker, in which `send_command` fails its assertion
  (`main_gui.py:373`), is reachable when a `shutdown()` times out or cuts off a
  `connect()` (`AssertionNeedsRace`); and the badge says Disconnected in a
  connected GUI after a scan (`BadgeLiesAfterScanOnly`).
- Since `WorkerMatchesMode` holds, the branch of `_ensure_worker` that replaces
  a worker of the other mode (`main_gui.py:305`) is never taken.
- The GUI takes PINs of four to eight digits, the firmware and the command-line
  client any word of a suitable length: a PIN set with the client may be one
  that the GUI does not let its user type. `PinIsTypable` is about the mock
  drawer, whose PIN only the GUI changes.
- The sensor algorithms of `README.md` (lines 384 and 409) give the sensors'
  comparison as `>`; the code has `>=` (`ldr_sensor.cpp:33`,
  `accel_sensor.cpp:109`). The models follow the code.

## Not modelled

- *Time in milliseconds,* but for `Timers`: elsewhere an interval is over or not
  yet. How long an iteration of `loop()` takes is a bound there, not derived.
- *The words of a command.* `tokenAt`, trimming and upper case are reduced to
  a verb and a word that is or is not a PIN; the commands of the mock drawer
  with fixed answers (`PING`, calibrations, `GET_LOG`) are left out.
- *The log files of the PC programs.* They append a JSON line per event. A
  write that fails raises in `_log`, which `_handle_event` calls first; nothing
  catches it within `_process_events`, which then ends before it schedules
  itself again (`main_gui.py:391-392`): the window stays, and no event is handled
  any more. All properties of the GUI assume that the file can be written.
- *`setAlarmActive(false)`*, which nobody calls.
- *Pure I/O and display:* the SMTP dialogue, the layout, colours, device list,
  sensor values and log panel of the window, pins, entry points and build
  scripts.
- *Restart of the firmware.* Nothing is persisted: `Init` of the firmware's
  modules is the state after every power cycle. What a client sees of one is a
  broken link and messages of another state, which `DrawerGui` has at any
  time.
