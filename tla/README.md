# Kickermat: TLA+ models and proofs

Kickermat is a table football robot. Eight servo motors move and turn the four
bars of one side; a camera above the table sees the ball; a C# web application
lets a *player* (an algorithm) turn images into movements; a microcontroller
watches a light curtain and stops the motors when somebody reaches into the
table. This directory holds TLA+ modules for parts of that code, TLC
configurations that check them on small instances, and TLAPS proofs.

Paths below are relative to the repository; `Can_Open/` stands for
`safetyctrl/Core/Can_Open/`.

## 1. Inventory

### Safety controller (`safetyctrl/`, C on an STM32F1)

| Component | State | Operations | Hard behaviour |
|---|---|---|---|
| CAN driver, transmit (`CO_driver.c`) | `bufferFull` of each `txArray` entry, `CANtxCount` (16 bit), `bufferInhibitFlag`, `firstCANtxMessage`, three hardware mailboxes | `CO_CANsend`, `CO_CANpolling_Tx`, `CO_CANclearPendingSyncPDOs`, `CO_CANtxBufferInit` | callers in three contexts; a counter that must agree with flags others reset; a poll that nothing calls |
| CAN driver, receive | `rxArray`, `CANnormal`, the peripheral's FIFO | `CO_CANmodule_init`, `CO_CANrxBufferInit`, `CO_CANsetNormalMode`, `CO_CANinterrupt_Rx` | the interrupt dispatches while `main` configures; a FIFO that overruns |
| SDO client (`CO_SDOmaster.c`) | transfer state, node of the last setup, receive flag, timeout timers, offsets | setup, initiate, one *poll* of a download or an upload, abort; expedited, segmented, block | one client object used by `main` and by the timer interrupt |
| Motor routines (`application.c`) | `detected_motors` | `motorDetection`, `init_motor`, `Stop_Motor`, `Stop_Nodes`, `communicationReset` | loops that wait for an answer; NMT frames overtake SDO frames |
| `main` and `TIM3_IRQHandler` (`Core/Src/main.c`) | `Zustand`, the pin of the light curtain | start-up, the main loop, a timer interrupt that calls the motor routines itself | the interrupt preempts `main` inside the same routines on the same objects |
| NMT slave, heartbeat producer (`CO_NMT_Heartbeat.c`) | `operatingState`, `HBproducerTimer` (16 bit), `resetCommand`, error register | `CO_NMT_receive`, `CO_NMT_process` | a command between `main`'s test and write of the state; a timer that wraps |
| Heartbeat consumer (`CO_HBconsumer.c`) | per node `time`, `NMTstate`, `CANrxNew`, `monStarted`, `timeoutTimer`; `allMonitoredOperational` | `CO_HBcons_receive`, `CO_HBconsumer_process`, write of 0x1016 | heartbeats between the steps of the loop |
| Emergency messages (`CO_Emergency.c`) | a status bit per error, a ring of messages, error register, inhibit timer | `CO_errorReport`, `CO_errorReset`, `CO_EM_process`, `CO_CANverifyErrors` | reports from the timer interrupt against those of `main`; a ring that overflows |
| SYNC and receive PDOs (`CO_SYNC.c`, `CO_PDO.c`) | timer, window, toggle; two buffers and their flags | `CO_SYNC_receive`, `CO_SYNC_process`, `CO_PDO_receive`, `CO_RPDO_process`, configuration | CAN interrupt against the copy in TIM2, twice toggled buffers |
| Transmit PDOs (`CO_PDO.c`) | `sendRequest`, inhibit and event timer, `syncCounter` | `CO_TPDO_process`, `CO_TPDOsend`, writes of 0x1800 | refused sends, writes in two halves |
| SDO server (`CO_SDO.c`) | state, buffer, toggle or sequence, two timers | `CO_SDO_receive`, `CO_SDO_process` | lost, late and repeated frames, retransmitted sub-blocks |
| Object dictionary, CRC, trace, EEPROM, `xprintf` | tables | - | none, or unused in this build |

### Framework (`framework/`, C# and C++)

| Component | State | Operations | Hard behaviour |
|---|---|---|---|
| Camera (`BaseVideoObservable`, `GenieNanoCamera`, native `Camera`) | the observers, a managed and a native "acquisition is running" flag, the connection state | subscribe, dispose, connected and disconnected callbacks | no lock: web requests, the game and the SDK's thread interleave |
| Game service and classic player | `State`, `CurrentPlayer`, the player's subscription | `StartGame`, `StopGame` | exceptions half way; state read outside the lock |
| Mock camera, video channels, video controllers | token, channel | loop, switch, stream | a loop that reads its token from a field; a request that never completes |
| Motor library (`CanInterface`) | last request, calibration values | SDO request with resend, calibration sequences, movement API | resend against a late answer, unbounded waits |
| Motor controller (C#) | calibration state | calibrate, `ShiftBar`, `RotateBar` | movement before calibration |
| Settings (`Writeable`, `SettingsService`) | a JSON file and listeners | read, modify, write | lost updates |
| Camera calibration service | frame counter, `isDone` | handle a frame | frames on several pool threads |
| Web API, web application | none of their own, or a copy of server state | forward to the services | - |

How they interact. On the controller everything shares one `CO` object: `main`
and `TIM3_IRQHandler` call the motor routines, these call the SDO client and
`CO_sendNMTcommand`, these call `CO_CANsend`; the CAN receive interrupt writes
the SDO client's receive buffer. Priorities: SysTick and CAN 0, TIM3 3, TIM2
(PDO) 4, `main` lowest. In the framework a web request or the game calls
`Subscribe`/`Dispose` on a camera; the SDK calls back on a thread of its own.

What makes each part correct, in one line: the driver neither loses nor reorders
messages; the SDO client hands a caller the answer to the caller's own request;
the safety controller leaves no drive enabled once it has handled an engaged
curtain and starts all of them again when it is free; the camera runs exactly
while it has observers; the game runs exactly while its player observes.

`PROJECT.json` lists each component with what is modelled of it, and the hazards,
each at its line.

## 2. Modules

| Module | Models | Runs in |
|---|---|---|
| `CanTxOps` | the driver's record and its operations as operators on it | `CanTx`, `SdoMasterOps`, `SafetyCtrl` |
| `TxQueue` | abstract: a priority queue in front of the mailboxes | refined by `CanTx` |
| `CanTx` | the transmit path under arbitrary callers | `MCCanTx`, `MCDrivers` |
| `CanRx` | the receive path: configuration, FIFO, dispatch | `MCStack` |
| `SdoMasterOps` | the SDO client, expedited transfers, as operators on its record | `SafetyCtrl` |
| `Interlock` | abstract: what the light curtain promises | refined by `SafetyCtrl` |
| `SafetyCtrl` | `main` and `TIM3_IRQHandler` with everything they share, and the motors | `MCSafetyCtrl`, `MCNode` |
| `NmtSlave` | NMT slave, heartbeat producer, error behaviour | `MCNode` |
| `HbConsumer` | heartbeat consumer | `MCNode`, itself |
| `Tpdo` | transmit PDOs: cyclic and event driven | `MCNode` |
| `SyncRpdo` | SYNC and the receive PDO's double buffer | `MCStack` |
| `SdoServer`, `SdoClient` | both ends of a transfer as operators on their records | `SdoTransfer` |
| `SdoTransfer` | the two ends, a bus that loses frames, an application that repeats | `MCStack` |
| `Emergency` | error reports, their ring and the process that sends them | `MCEmergency`, `MCStack` |
| `VideoSource` | camera, its callers and the game service | `MCVideoSource`, `MCDrivers` |
| `MockCamera` | the mock camera's loops | `MCDrivers` |
| `Settings` | requests that change settings, the file, the camera that follows | `MCDrivers` |
| `Calibration` | the motor library's SDO requests and calibration sequences, the drive | `MCDrivers` |
| `CanTxOpsProofs`, `CanTxProofs` | theorems on the driver's transmit path | - |
| `SafetyCtrlProofs`, `InterlockProofs` | theorems on the safety controller and the interlock | - |
| `NodeProofs`, `StackProofs`, `DriversProofs` | theorems on the parts of the three hosts | - |
| `SdoProofs` | theorems on both ends of SDO transfers | - |

`MCDrivers`, `MCNode` and `MCStack` are *hosts*: each extends several component
modules that share no variable, and a variable `part` says which of them moves in
a behaviour; the others stay as they were initialised. A host's state space is
the sum of its parts', not their product, and every property holds of each part
as in a run of its own. Where parts do interact (`main` and the interrupt, client
and server, a request and the camera) one module holds both.

### CanTx

The record `tx` is `CO_CANmodule_t`: `full` the indices with `bufferFull` set,
`count` = `CANtxCount` modulo `CountRange`, `inhibit` = `bufferInhibitFlag`,
`first` = `firstCANtxMessage`, `box` the mailboxes. `CO_CANsend` is one step
because it runs with interrupts off (`CO_LOCK_CAN_SEND`); only its overflow
report precedes the lock. A frame is the index of its buffer. `ClearedBuffers`
are the buffers whose owner resets `bufferFull` itself, as the SDO client does.
`PollingWired` says whether the transmit interrupt may call `CO_CANpolling_Tx`:
FALSE is the firmware as built (nothing calls it), TRUE the driver as its
header describes it. The behaviours of FALSE are among those of TRUE, so that the
safety properties and theorems hold of the firmware as built. That a waiting message
is ever served is not among the properties: it would rest on a poll that nothing
calls, and `cantx_mute` shows what happens instead.
The history variable `wrapped` marks the wrap of the 16-bit counter.

### SafetyCtrl

A routine of `application.c` is a sequence of *blocks*, a block the instructions
for one motor (`Block(proc, b)`); an instruction is an NMT command, a client
setup, an SDO write or an SDO read. A context (`main`, `tim3`) is the routine it
runs, the block, the instruction and the step of the instruction. The two
assignments and the send of `CO_sendNMTcommand` are three steps, the setup of
the SDO client two, an initiated transfer three, and each call of
`CO_SDOclientDownload` in the waiting loop is one, because the timer interrupt
can come between any two of them and uses the same buffers. `main` moves only
while the handler is idle (`Runs`). Motors are external: CiA 402 drive state,
NMT state, voltage, and the answer not yet put on the bus; the bus delivers
NMT frames first, then answers, then requests, as their identifiers decide, and
frames of one kind in any order.

Constants that say which environment is meant:

| Constant | Meaning |
|---|---|
| `EarlyCurtain` | the curtain may change before start-up is over |
| `Prompt` | what is under way arrives before a wait ends: an SDO answer before the timeout, NMT frames before the handler's `xprintf` is done, everything within `HAL_Delay`. It is the timing of a working bus; with FALSE no order is assumed |
| `LatePower` | motors without voltage at first |
| `Faulty` | motors that may lose their voltage or refuse a request |
| `Resets` | another master may command a communication reset |
| `SdoPolls` | polls until the client's timeout |

`SDOclientPoll` is the whole of `CO_SDOclientDownload` (or `Upload`) as far as an
expedited transfer to another node goes, with the timeout, the abort and the
behaviour of a client in the state NOTDEFINED.

### Emergency

`em` is `CO_EM_t` (status bits as the set of errors present, ring, write and read
index, `bufFull`), `pr` is `CO_EMpr_t`. `main` runs `CO_EM_process`:
`CO_CANverifyErrors` first, whose calls are put in `todo`; each call is five
steps (test the bit, read the byte, write it, test `bufFull`, the critical
section), then the error register and the oldest message, the wrap of the read
pointer, the overflow test with its own report, the pre-defined error field and
the send. `Isr` is a whole call of `CO_errorReport` in the timer interrupt;
`Preempt` says whether it may come inside a call of `main`. `Ticks` is what
passes between two calls: with 0 among them the module covers the firmware as
built, whose `CO_timer1ms` never advances and which therefore never sends an
emergency message (its inhibit time is 0x64). For the same reason no liveness is
claimed. `told` is what a listener knows from the messages sent, `dropped` that a
message has found the ring full.

### VideoSource

Each access to `_isAcquisitionRunning`, to the observers or to the native flag
`acquisition_running` is a step; `pc` says where each web request, the player
and the SDK's thread is. `Subscribe` runs through `added`, `claim`, `start`,
`grab`, `grabbed` to `in`, or to `failed` when the native call is refused (the
exception leaves the observer in the dictionary and the flag set). Dispose runs
through `removed`, `emptied`, `stop`, `freeze`, `frozen`, `unset` to `out`.
The SDK's thread runs the same native steps for its callbacks; a refused start
there is an exception out of a native callback (`crashed`, the end of the
program). `game` is `GameService.State` and whether `CurrentPlayer` is set: a
failed start leaves a player without a game, a failed stop a game that runs on.
Calls overlap as the web server lets them, and the cable may be pulled or plugged
at any time. The history variable `apart` says that the calls have kept apart so far:
no call began while another caller was inside one or while the SDK's thread was starting
the acquisition, and `CameraConnected` did not come inside a call. `CameraDisconnected`
may come, and stop the acquisition, between any two steps of a call. What `apart`
exempts is where the properties are false: a second caller finds the flag of an
acquisition that the first is stopping (`video_overlap`); two first observers both find
it down, and the second start is refused; a camera that comes back inside a call is
started by the call and by the callback. `GameHasPlayer` needs no such condition: the
lock of the game service keeps its own calls apart, and the property says what is left
after a call that threw (`failed` after a start, `kept` after a stop).
Not in the model: two observers with equal hash codes, and what the SDK does
when it is asked to grab twice (any answer is allowed).

### CanRx

`rx` is `rxArray` (identifier, and whether a function is registered), `fifo` the
peripheral's FIFO, not locked on overrun (`ReceiveFifoLocked` is DISABLE), so that
the newest frame replaces the last. `CANinterrupt_Rx` is the whole handler: fetch,
the comparison with every buffer in order, the callback. An unused buffer keeps
identifier 0, which is NMT's; the order of the objects, not the code of the
comparison, is what saves NMT frames. `stdId` is the field of the static header
that an extended frame leaves as it was.

### NmtSlave, HbConsumer

`nmtMain.at` says where `main` is inside `CO_process`; the CAN interrupt's
`NMT_receive` comes between any two steps, so that the test of the operating state
and its overwriting, by an error behaviour or at boot-up, are two actions each; a command
that comes in between is lost, as in the code. `HBproducerTimer` is taken modulo `HbTimerMod` (2^16 in the code, 8 in the run). `quiet` and `unsaid`
are histories. The consumer's loop is one action per access to the fields the
interrupt writes (test and fetch of a message, clearing its flag, the late
report, the assignment after it, the state test), with `timeDifference_ms` in
`consPc.diff` because the code changes it for the nodes that follow.

### SyncRpdo, Tpdo

`tick` says where TIM2 is in `CO_SYNC_process` and `CO_RPDO_process`; the CAN
interrupt's `SYNC_receive` and `PDO_receive` come in between, and so do writes to
the parameters, which `main` makes only while TIM2 rests (it has the lower
priority). The copy of a PDO is two bytes, in two steps. `mixed` marks what the
code's own rule excludes (two SYNCs in a tick, a changed type). In `Tpdo` a tick
is one action, because nothing it reads is written by an interrupt above it;
the write of a transmission type is two, before and after the object dictionary
is written.

### SdoServer, SdoClient, SdoTransfer

Both ends are records and operators, one operator per state of the code's state
machines; `ServerProcess` and `ClientPoll` are one call each. A byte is a number
that says which transfer wrote it and where. A segment carries `SegmentSize` bytes
instead of seven, an expedited frame `ExpeditedMax` instead of four, and the CRC
is the bytes it covers, so that it is equal exactly when they are. `SdoTransfer`
has the two callbacks of the CAN interrupts, both processes with what time passes,
frames lost, the server's node stopped and started, the application giving up or
starting again after a time-out. A frame keeps its kind, except where the code
takes its first byte for a number: `SeqNo` gives late segments of the other kind the
numbers they have on the wire. Frames keep their order; a frame that finds the
transmit buffer full replaces it, as in the driver.

### Calibration

A motor's `Calibrate` is a sequence of instructions (`TelemecaniqueCalibrate`,
`FaulhaberCalibrate`): put a value, wait until a read gives one, read into a
variable, and the three loops of the Telemecanique. Each is a request, its
resends and the answer taken. The drive is external: CiA 402 states and the bits
of its controlword, a position between two stops, the load that rises at a stop,
and faults that it leaves by itself. Speeds and scales, which are written and
never read, are left out. `late` marks the first answer that is not to the request
waited for; from then on every answer is one behind, which only
`LimitsNeedNoVoltage` does not exclude.

### Settings, MockCamera

A request of `Settings` goes through the lines of `Update`; what it has read is
in its record, so that two requests interleave between the read of the file and
its write. The object of the options is shared. A busy file (`Conflict`) is an
exception that `UpdateParameter` turns into a refusal. `alone` and `settled` say
for which sections the property can be asked. In `MockCamera` each start makes a
loop; `ct` is the field from which all loops read their token.

## 3. Runs

| Run | What it asks | Bounds |
|---|---|---|
| `cantx_wired`, part can | counter covers the full buffers; sync window closes; no overtaking; implements `TxQueue` | 3 buffers (asynchronous, synchronous, owner-cleared), 2 mailboxes, counter of 6 values |
| part video | as long as the calls keep apart: the camera serves its observers and stops with the last, no flag is left behind; always: the game has its player | 1 request, the player, 2 disconnections, calls overlap |
| part mock | a started camera serves, a stopped one falls silent | 3 starts |
| part settings | a setting that succeeded is in memory, file and camera | 2 requests, 3 parameters of 2 sections |
| part calibration | the bar is measured, the figures hang; limits are set without voltage; it ends | a way of 6 steps, 1 resend, 1 lost frame, load counter 1 |
| `cantx_mute` (violation) | "will be then sent by CAN TX interrupt" | as part can |
| `safety_clean` | motors follow `Zustand`, drives follow the curtain, whose answer is it, implements `Interlock` | 3 motors, no fault |
| `safety_startup` | does detection end only with every motor powered | 2 motors, one faulty and late, curtain at any time, resets |
| `safety_faulty`, part program | is no drive left enabled behind a stop | 2 motors, one faulty and late, no timing assumed |
| part nmt | errors take the node out of operational; heartbeats in time and at a loss | timer modulo 8, ticks of 1 or 2 ms, 2 errors, 3 error behaviours |
| part heartbeat | the first node's silence is seen; no false alarm | 2 nodes, time 2, ticks of 1 |
| part tpdo | inhibit and event time, every change, every n-th SYNC | types 0, 2, 255, inhibit times 0 and 2 |
| `safety_early` (violation) | no drive enabled behind `Zustand` | curtain before the end of start-up |
| `safety_mistaken` (violation) | shut down, then stop | same |
| `safety_silent` (violation) | "switch all motors ... to NMT-Stop" | one motor that may not answer |
| `stack_parts`, part emergency | the messages tell exactly the errors present, or a loss is reported | ring of 2, one error from the interrupt; of the bus, bus off |
| part receive | right receiver, newest frame survives | 3 buffers, 2 identifiers, FIFO of 2 |
| part sync | the object is one frame, of its own cycle; the window closes | 2 interchangeable frames, period 2, window 1 |
| part sdo | success means all bytes arrived; the object is of one transfer; only segments can mix; undisturbed transfers succeed | objects of 1 and 5 bytes, segments of 2, blocks of 2, 2 transfers (see section 4), 1 fault |
| `video_overlap` (violation) | observers are served | overlapping calls, no disconnection |
| `emergency_preempt` (violation) | "may be used form any task or interrupt" | as part emergency, interrupt at any step |
| `hb_second` (violation) | "If any monitored node don't send his Heartbeat in specified time" | as part heartbeat |

Why the bounds are enough. Two mailboxes and three buffers give every relation
the driver tells apart: full or not, lower or higher, synchronous or not, owner
cleared or not. The counter's range of 6 (4 in `SafetyCtrl`) makes the wrap
reachable; `cantx_wired` excludes it (`NextNoWrap`) because 65536 sends without
a poll cannot happen when polls are served. Two motors are needed for one that
works beside one that does not, and three for a first, middle and last block.
Two polls are one that finds nothing and one that times out. A web request and
the player are a pair of callers, of which one stays while the other comes and goes;
`video_overlap`, where a pair races, has a second request. Two disconnections
are one during a call and one after recovery. A ring of two wraps, is full and
overflows as one of ten does; the error of the interrupt shares its status byte
with CAN bus off. Three starts of the mock camera are a loop that ends, one that
survives its stop, and one that runs. A FIFO of two overruns; two identifiers
and three buffers are a match, no match and an unused buffer. Two frames and two
buffers are all a receive PDO can mix up. A timer of 8 wraps within two heartbeat
times of 5. An object of one byte is expedited, one of five is three segments and
two sub-blocks, the last of each incomplete; two transfers are one that is given
up and one that may take its answers. One resend is enough for an answer that is
always one behind. `NmtCap`, `HbCap`, `PdoCap` bound history clocks past the
times they are compared with. Motors are ordered by the routines, so no symmetry
is used there; web requests are interchangeable, and so are the frames of a
receive PDO, which the code only copies (`FrameSymmetry`). `CHECK_DEADLOCK FALSE` appears
in `Stack_parts.cfg`, where an application that has made its `Transfers` makes no
more, and in `VideoSource_overlap.cfg`, where an exception out of the native
callback ends the program.

Fairness. Each context of the controller keeps executing and TIM3 fires every
millisecond (weak fairness of both contexts' steps, of `main`'s waits and of
`TIM3_IRQHandler`); a bus with a node on it delivers (weak fairness of `Bus`).
Nothing is assumed of the curtain or of faults. In `CanTx` (`cantx_mute`) the bus
acknowledges each mailbox, and nothing more: no code of the firmware polls. `MockFairness`: the thread pool runs every task
and a delay ends. `CalFairness`: the library's loop polls, the bus carries what it
does not lose, the drive answers, leaves a fault, and arrives where it was sent.
The other modules state no fairness and check no liveness.

## 4. What the runs show

- The driver is a priority queue as far as something serves it. As built,
  a message that has once had to wait is never sent, and blocks all later ones
  until `CANtxCount` wraps (`cantx_mute`, `CO_driver.c:687`).
- With motors that answer in time and a curtain that first moves after start-up
  the controller implements the interlock.
- A curtain that engages while `main` waits 30 s before `communicationReset` is
  forgotten: `main` starts all motors (`safety_early`, `main.c:123`).
- When the interrupt comes while `main` waits for an answer, it takes that
  answer for its own and stops a node whose drive is enabled (`safety_mistaken`).
- One motor that does not answer keeps `Stop_Nodes` from those after it, for
  ever (`safety_silent`, `application.c:73`).
- Calls that overlap can leave an observer without frames (`video_overlap`,
  `BaseVideoObservable.cs:62`). As long as they keep apart, the loss of the camera inside
  a call leaves no flag behind that would refuse a later one. The state of the game
  and its player agree in every interleaving; after a start or a stop that threw they
  tell which half of it was done.
- Emergency messages tell a listener exactly the errors present as long as
  reports do not interrupt one another; a report from the interrupt between
  `main`'s read and write of the same status byte is forgotten by the node
  (`emergency_preempt`, `CO_Emergency.c:308`).

Read from the code while modelling, without a run of its own: `CANtxCount` is
not the number of waiting messages its comment names (`CO_driver.h:291`), since
a second send of a waiting buffer counts again; when every motor gets its
voltage late, three requests of `motorDetection` fill the mailboxes, the next
ones wait in buffers, detection works again only once the counter wraps, and
what is left of the count may then keep `main`'s first request from the bus;
a camera that returns keeps the state NotConnected, so that its options can no
longer be set (`GenieNanoCamera.cs:138,166`); the bus warning is never reset
(`CO_driver.c:597` tests with a mask that is zero) and neither is the report of
a full emergency ring; the mailbox abort described at
`CO_driver.h:284-287` is commented out; as built a transmit overflow is never
reported, because `firstCANtxMessage` is cleared only by the poll; the comment on
the pin's polarity (`main.c:194-195`) is the opposite of the code (`main.c:198`);
`CO_timer1ms` is never incremented, so timers of `CO_process` do not advance; a
statusword answer that arrives in the handler's download makes the client abort
each attempt; two NMT commands waiting in mailboxes are sent in mailbox order.

- A second monitored node may fall silent without a report while the first keeps
  sending (`hb_second`, `CO_HBconsumer.c:226`: the elapsed time is zeroed for one
  node and used for the next). The firmware monitors no node as configured.
- With the interrupt at any step, the NMT slave, the first monitored node, the
  receive PDO's double buffer and the transmit PDOs keep what they promise, within
  the exceptions their properties name (two SYNCs in a tick, a master's command or
  a client's write in between).
- An SDO transfer that reports success has moved its bytes if nothing was ever
  disturbed or at most one transfer came before, with one exception: an expedited
  download accepts a late answer to a download given up before
  (`CO_SDOmaster.c:481`). From the third transfer on this is false: two that were
  given up may have left answers enough for every segment of a third, a download that
  writes a mixture and reports success, or an upload that takes an older answer,
  because a frame tells its transfer only by a toggle bit or a number (`FewGivenUp` in
  `SdoTransfer` is the condition; TLC finds the counterexample when the properties are
  stated without it for three transfers). What an expedited or a block download writes
  is never a mixture, whatever came before (`WholeWrites`, proved for any number of
  transfers).
- A calibration ends and finds both ends although a drive faults, frames are lost
  and requests repeated, as long as no answer is late. After one late answer each
  request takes the answer to the one before, for the rest of the program; the
  limits are still written only without voltage.
- Overlapping requests may undo each other's settings in the file, but only until
  the next one; whatever succeeded alone is in memory, file and camera.
- The mock camera may run two loops after a quick stop and start, but serves, and
  falls silent.

Read from the code while modelling these, without a run of their own: a block
download of 29 to 32 bytes is aborted (`CO_SDO.c:1097`; `CO_SDO.h:350-352` asks for
a larger buffer); a time-out's answer does not reset `timeoutTimer`
(`CO_SDO.c:872`); `CO_PDO.c:466` tests bits 15..29 where its comment says 11..29;
a command that comes before the first `CO_NMT_process` suppresses the boot-up
message; one that comes between a test of the operating state and the write after it is
overwritten (`CO_NMT_Heartbeat.c:238,299-337`); a reconfigured heartbeat entry accepts one heartbeat of the old node
(`CO_HBconsumer.c:92`); an extended frame is dispatched with the identifier of the
standard frame before it (`CO_driver.c:625-639`); `move_bar` moves the
goalkeeper's motors for every bar (`api.cpp:135-146`); `ShiftBar` and `RotateBar` do not
ask whether the motors are ready (`MotorController.cs:74`); the answers to the safety
controller's requests reach the computer's queue too (`Motor.cpp:28`), and the
computer may enable a drive between the controller's shutdown and its NMT stop;
the file with the settings is never read (`ServiceCollectionExtensions.cs:179`);
a frame listener of the calibration service shares counters without a lock
(`CameraCalibrationService.cs:70`), but nothing starts it; a camera that is
plugged in while a request subscribes may be started twice, and the refusal ends
the program (`GenieNanoCamera.cs:157`).

## 5. Proofs

TLAPS proves the following for every value of the constants that satisfies the
named assumptions (`CanTxAssumption` and the like, in the module that declares
the constants; TLC evaluates them on each run).

`CanTxProofs`, with lemmas on the operators in `CanTxOpsProofs`:

- `CanTxTypeCorrect`: `Spec => []TypeOK`.
- `CanTxCountCovers`: `Spec => []CountCoversFull`. `CountCoversFull` is inductive
  together with the types: a send adds at most one full buffer and always one to
  the counter unless it wraps, which sets `wrapped`; the owner's reset and the
  closing of the sync window remove at least as many buffers as they count.
- `CanTxNoOvertaking`: `Spec => NoOvertaking`, from the previous one: a counter of
  zero means that no buffer is full.
- `CanTxImplementsQueue`: `SpecNoWrap => ImplementsQueue`, by a step refinement:
  each action maps to a step of `TxQueue` or to a stutter.
- `CanTxWindowCloses`: `Spec => SyncWindowCloses`: `CO_CANclearPendingSyncPDOs` looks at
  the buffers only when the counter is not zero, and the counter covers them. A message
  that is in a mailbox already stays there, since the abort is commented out
  (`CO_driver.c:510-519`); the property speaks of the buffers.

`SafetyCtrlProofs`, for any number of motors, mailboxes, polls and counter values:

- `SafetyTypeCorrect`: `Spec => []TypeOK`. Types alone are not inductive: `Instr(c)`
  is an instruction only if the context's block and index exist in its routine, and
  a step such as `poll` finds the right kind of argument only at an SDO
  instruction. The inductive invariant `IInv` therefore adds `CtxOK`: each context
  rests, or it is at a step that belongs to its current instruction of a routine
  it may run.
- `SafetyDetection`: `ASSUME ~Resets PROVE Spec => []DetectedMeansPowered`. The
  curtain may engage at any time, motors may be late or lose their voltage, and
  the bus may be slow. `main` leaves the detection when the last read was answered
  and all motors before were; `Detecting` follows that answer backwards: whoever has answered, or is about to,
  has voltage (`HeardFromPowered`); only the handler writes controlwords, so that an
  acknowledgement that `main` might take for its own comes from a motor the handler
  has reached (`WordsToWritten`), and the handler passes a motor only when it has
  answered (`MotorsPassed`); `MainClient` and `HandlerClient` say whom the shared
  client addresses.
  A reset is excluded: it leaves in the mailboxes what main and
  the interrupt had mixed up before. `safety_startup` allows it.

`InterlockProofs`, the promise of the light curtain. `Scope` is `~EarlyCurtain /\
~Resets`: without either hypothesis the properties are false, as `safety_early`
and `safety_mistaken` show. Within it the handler runs only when `main` is done,
so that one context at a time (`Turn`) uses the client. The invariant `LockInv` is
`IInv`, `HandlerLast` (main is in its endless loop while the handler runs),
`Shared` (the client and the buffers hold what the instruction of `Turn` put there),
`OneWord` (at most one controlword is under way, in a mailbox or answered, and it is
the running instruction's) and `Drives` (which drives are off behind
the place the routine has reached, which NMT stops may be under way, and that a
stopped motor is shut down).

- `LockStopsAfterShutdown`, `LockEngaged`: within `Scope`, also with motors that
  fail and whatever the timing, no motor is NMT-stopped with an enabled drive, and
  none is enabled when the handler has set `Zustand`.
- `LockWordIsExecuted`, `LockFollowsZustand`, `LockKeepsPromise`: within `Scope` and
  with no faulty motor (`Sound`) `Send_SDO` returns only after its motor executed the
  word, the motors are in the states `Zustand` tells, and every step is a step of
  `Interlock` or a stutter, the safety half of `ImplementsInterlock`. They need
  `FollowInv`, which adds `DrivesOn`, `WordLoaded`, `WordAnswered`, `HavePower` and
  `NmtFollows`, about what must arrive rather than what must not.

`NodeProofs`, for any heartbeat times, timer widths, numbers of nodes and caps
that the named assumptions allow:

- `NmtErrorsAreHeeded`, `NmtHeartbeatTells` from `NmtInv`: the types, `TargetLeaves`
  (the state an error behaviour is about to enter is not operational), and for the
  time between heartbeats `UnsaidIsDue` and `QuietIsTimed`, which relate the history
  clock `quiet` to the producer's timer, also across its wrap.
- `HbSilenceSeen`, `HbAlarmsAreTrue` from `HbInv`: an entry whose message is a boot-up is marked, and a consumed heartbeat restarts
  the timer (`Marked`), its timer is neither ahead of nor, for the first node, behind
  the time since its last heartbeat (`NeverAhead`, `NeverBehind`), and a first node
  that was late is reported (`FirstReported`). What is proved of silence is of the first
  monitored node; of the others it is false (`hb_second`).
- `PdoTimersKept`, `PdoEveryNthSync` from `PdoInv`: each timer of the PDO is the
  difference of its period and a history clock (`InhibitTimed`, `LagTimed`,
  `QuietTimed`), and the SYNCs since the last message are those counted.
- `NodeTypeCorrect`: `NodeTypeOK` of the host, from the types of its parts.

`SdoProofs`, for any sizes of segments, buffers and objects, and any number of
transfers and faults:

- `SdoTypeCorrect`: `SdoSpec => []SdoTypeOK`, that no transfer reads or writes past a
  buffer. What keeps an end in range depends on what it has been told, so that
  `SdoInv` speaks of both ends and of every frame on its way: the numbers a frame
  carries (`IsFrame`, `Carries`), the server's fields and how far its transfer has
  come (`ServerShape`, `Begun`), the frame it has not yet processed (`Heard`), what a
  download reads (`Reads`) and where an upload writes (`Writes`). Three of its parts
  are not to be seen in the types. A block upload never confirms all of its data
  without having seen the end, because all segments but the last are full
  (`Begun`); the padding that the client takes off what it received is smaller than
  that, because block uploads are of more than `BlockFrom` bytes and that is a
  segment at least (`Writes`; 21 and 7 in the code, `SdoServerAssumption`); and the
  segments of a block are numbered below 128 because neither end orders more
  (`IsFrame`; the buffer of the firmware has room for 4 segments, the client's
  `block_size_max` is 127).

  One attempt failed for a good reason: the first version of `SdoTypeOK` said that
  the client's offset is at most a segment behind its data. With three faults a late
  confirmation of a sub-block is counted twice and the offset ends up further behind
  (`CO_SDOmaster.c`, the branch of `CO_SDOclientDownload` that adds `ackseq * 7` to
  `bufferOffsetACK`). That is harmless, since an offset behind the data leads to the
  CRC and not to a segment, and what is proved says just this: where the client
  sends a segment its offset is inside.
- `SdoWholeWrites`: `SdoSpec => WholeWrites`, an action property. An expedited and a
  block download write all the data of one download or nothing, however many transfers
  were given up and whatever was lost. `WholeInv` follows the data from the client's
  buffer over the bus to the frame that the server has not yet processed: they are in
  one frame of an expedited download, and the last frame of a block download carries
  the CRC of all of them, which the server compares with what it has. With segments
  there is no such thing to follow, and the counterexample above shows it.

`StackProofs`, for any ring, errors, frames, buffers, identifiers and SYNC times:

- `EmTypeCorrect`, whatever interrupts what; `EmListenerKnows` with `~Preempt`, since
  `emergency_preempt` shows it false otherwise. `EmTells` says that for each error the
  newest of its messages, waiting in the ring or sent, tells its status bit, but for
  the call under way whose bit is set and whose message is not yet queued, and that
  a message was dropped only if the loss is being told.
- `RxTypeCorrect`, `RxNewestSurvives`: an arriving frame is always the last of the
  FIFO, also in an overrun, and the interrupt takes the first. `RxRightReceiver`:
  `CanRxSpec => RightReceiver`. It needs `Configured`, that every buffer has the
  identifier its object was told to listen to (0 where it was told nothing), that
  buffer 0 is NMT's, and that in normal mode every buffer is configured; types,
  `Configured` and `NewestSurvives` together are `RxInv`.
- `SyncObjectIsWhole`, `SyncCycleIsKept`, `SyncWindowKept` (and the types) from
  `SyncInv`: while TIM2 copies, the bytes copied are those of the buffer it reads
  unless the flag has been set again (`Copied`); a synchronous PDO has been copied
  from the buffer of the last cycle once the tick has dealt with the SYNC
  (`CycleInv`), and any other from its only buffer (`AsyncInv`).
- `StackIsItsParts`: a behaviour of the host is one of each of its parts, so that all
  of this and `SdoTypeCorrect` hold of `StackSpec`; `StackTypeCorrect`: `StackTypeOK`.

`DriversProofs`, for any requests, disconnections, starts, resends, ways and limits:

- `CameraIsServing` (`CameraServesObservers`) and `NoFlagIsLeft` (`NoStaleRefusal`) from
  `VideoInv`: as long as the calls have kept apart (`apart`, section 2), `CallsFit` says at
  each place of a call what the flag, the native flag, the observers and the events not
  yet delivered are, with the SDK's thread stopping the acquisition at any step of the
  call, and with starts and stops that fail.
- `GameKeepsPlayer` (`GameHasPlayer`), without any condition: `PlayerPlace` says for each
  place of the player's call, the failed ones included, what `State`, `CurrentPlayer`
  and the observers are.
- `MockIsServing`: the token of the newest source is not cancelled while there is
  an observer, and the loop started for it has that token or will take it.
- `SettingsAreKept`: `SettingsInv` says of each place of a request what the file, the
  object of the options and the camera hold of the parameter it sets, and that a
  section that one request alone changes stays as that request left it.
- `CalMotorsCalibrated`: `CalSpec => []MotorsAreCalibrated`, for every way of a bar,
  step width, buffer and load count, and however often requests are lost or repeated.
  Calibrate is a list of 61 requests to one motor and 24 to the other, and the result
  rests on what each left behind. The invariant is therefore indexed by `Place`, which
  is 2k while request k is unanswered and 2k + 1 when its answer is queued. `TmFacts` and `FhFacts` say over which
  stretches of places the mode, the voltage, the limits, the zero, the control word, the
  measured ends and the bar's way are known, and what an awaited answer tells
  (`StatusTells`: a status word that reads as enabled comes from a drive that is). The
  waits matter: what is written is known at once, but what it leads to (`state`,
  `display`, `pos`) only once a wait has seen it. `Alone` is what makes an answer belong
  to its request. Each lemma is about one kind of step: what the motor does by itself
  (`TmMoves`), an answered read (`TmAnswered`), a write (`TmObjectWritten`,
  `TmVoltageWritten`, `TmSetPointWritten`), an answer taken (`TmTakes`).
- `CalLimitsOnTime`, from the same invariant: `LimitsNeedNoVoltage` while no answer is
  late.
- `DriversTypeCorrect`: `DriversTypeOK`, with the types of `Calibration` among them.

The assumptions on the constants are types and the caps of history clocks, which
must run further than the times they are compared with (`HbCap`, `NmtCap`, `PdoCap`);
`FrameAssumption` says that the value of an empty mailbox is not a frame.
One attempt failed for a good reason: the induction for `HeartbeatInTime` needs the
time between two calls of `CO_NMT_process` to fit in what is left of the 16-bit timer
after a heartbeat time, one less than the property had assumed (`TimeFits`).

Only model-checked, of the properties of the runs: `LimitsNeedNoVoltage` once an answer
is late, which depends on the numbers the queue holds (with enough answers outstanding a
position may be taken for a status word, and a position can be any number);
`TransferArrives`, `ObjectOfOneTransfer` and
`CleanTransferSucceeds` of the SDO transfers, of which the first two are true only of
the first two transfers or of undisturbed ones, as they say (they hold as well with
`SdoFaults = 3` and `Held = 3`, and undisturbed for three transfers);
`DetectedMeansPowered` with resets. Out of the prover's reach are liveness under
fairness (`CalibrationEnds`, `MockFallsSilent`,
`DrivesFollowCurtain`, and the fair half of `ImplementsInterlock`), ENABLED, and
induction over data.

## 6. Not modelled

Left out of the modules above: `CO_RESET_APP` and the unused `tmrTask_thread`;
the LEDs and callbacks nobody registers; the SYNC counter (0 in this firmware)
and a write of another SYNC identifier; the mapping of objects to PDO bytes; SDO
domains and transfers to the client's own node; frames of the camera and their
buffers, and a camera that is absent at start; the movement of bars by PDO, which
keeps no state; players other than the classic one.

Not modelled at all, and why: the object dictionary (generated tables); CRC, trace,
EEPROM and formatted output (a loop over data, configured out, not attached, no
state); start-up code and the vendored STM32 HAL and CMSIS, which are the bulk of
the repository's lines and are modelled only by what their callers rely on;
diagnostics of the motor library (its body is a TODO); the C# motor
controller (one blocking call in its constructor, then a guarded state); the
camera calibration service (nothing starts it); Web API controllers and the web
application (they forward and keep the last answer).
