# DualSense Link in TLA+

DualSense Link makes a DualSense that is connected over Bluetooth look like a wired one:
a Windows service reads the controller's input reports, translates them and submits them
to a virtual HID device, and takes output reports (rumble, light) the other way. A UI
watches and steers the service over a named pipe. This directory holds TLA+
specifications of the parts that run concurrently or can fail half way, TLC
configurations that check them on small instances, and TLAPS proofs of the safety
properties that matter most for every value of the constants. All source lines below are
relative to `src/`.

## 1. Inventory

| Component | State | Operations | What makes it correct |
|---|---|---|---|
| Virtual HID driver (`driver/driver.cpp`, `vhf_device.cpp`) | per device: VHF handle, spin lock, ring of output reports with head, tail, count | device add and cleanup; IOCTLs submit input, push output, get output, get version | the ring is a bounded FIFO; a device that serves requests is ready; "no report" is never confused with a report |
| Driver bridge client (`service/driver_bridge_client.cpp`) | `running_`, `device_`, `output_handler_`, output thread | `Start`, `Stop`, `SendInputReport`, `EmitTestOutputReport`, `SetOutputReportHandler`, output loop | no call on a closed handle, thread joined, reports handed over in order |
| Bluetooth manager (`service/bluetooth_manager.cpp`) | `running_`, `device_handle_`, callbacks, input thread | `Start` (find, open), `Stop`, read loop, `WriteOutputReport` | reads only an open handle, ends when stopped, delivers each report once and in order |
| Controller proxy (`service/controller_proxy.cpp`) | `manager_`, `last_state_`, state callback | `Start`, `Stop`, a handler for each direction | drops invalid packets, does nothing once stopped |
| Service main, console (`service/main.cpp`, `console_runtime.cpp`) | connection state, bridge mode, shutdown flag, HidHide flag, live flag, raw gate | start and stop sequences, background and console loops, UI command handlers | nothing is destroyed under a running thread, a shutdown waits for nothing but the pipe, the state shown is the real one |
| Console fallback (`service/console_virtual_hid_client.cpp`) | counters, handler | sink for input, synthetic rumble | same handler discipline as the driver client |
| HidHide manager (`service/hidhide_manager.cpp`, `hidhide_helpers.cpp`) | cached flags, path and instance id of the controller, a mutex | toggle (three command line runs with variants), status, set path | a success that is reported is one, every toggle gets as far as its reply |
| Pipe server (`ipc/pipe_server.cpp`) | `running_`, `connected_`, `pipe_`, write mutex, worker | `Start`, `Stop`, connect, read, dispatch, send | frames stay whole, a new UI is served, `Stop` leaves nothing behind |
| UI pipe client (`ui/PipeClient.cpp`) | `running_`, `pipe_`, write mutex, reader | `Start`, `Stop`, commands, read loop with reconnect | as above |
| UI service process (`ui/service_process.cpp`) | launched, detected, process handles | `EnsureRunning`, `ShutdownIfLaunched` | a service that was there before is not ended; a shutdown that is sent sets the flag |
| Parser, translation, CRC (`core/`) | the sequence tag | parse, validate, translate | exactly the intact packets pass; what is written carries its payload, tag and CRC |
| State format (`service/state_format.cpp`) | | status payload, raw line | the button mask means to the UI what it means to the parser |
| WinUI window, dashboard (`ui/MainWindow.xaml.cpp`, ...) | service text, bridge mode, widgets | start, refresh, close; display | what it says of the service, and what it shows as pressed, is so |
| Legacy Win32 UI (`ui/win32_main.cpp`) | widgets | as the window above | not in the default build |

**Interaction.** Four threads run in a service: `main()`, the Bluetooth input thread, the
driver output thread and the pipe's worker. The input thread runs the proxy's handler,
which submits to the driver (an IOCTL) and writes a status to the pipe. The output thread
polls the driver (an IOCTL) and runs the proxy's other handler, which writes to the
controller through the Bluetooth manager. The worker runs the UI's commands: they read the
proxy's state, call the HidHide manager and set the shutdown flag. `main()` connects the
callbacks, starts everything, waits, and takes everything apart. In the UI a reader
thread receives and the window's thread sends. Between processes there is only the pipe: a
UI that finds no instance of it launches a service, and a service whose pipe another one
owns keeps trying to make its own.

**Where it is hard.** Fields are shared without a lock (`manager_`, `device_handle_`,
`pipe_`). Handles are copied under a lock and used after it. Timed-out reads and writes
are left to the driver. The driver's ring outlives the service. Both ends of the pipe are
synchronous handles on which two threads work. HidHide is told what to do by programs
that may fail, or go on after they have been given up. `PROJECT.json` lists each of these
hazards with its line and the properties that watch it.

## 2. Modules

| Module | Models | Uses |
|---|---|---|
| `OutputQueue` | abstract: what the driver promises about output reports | |
| `VhfDevice` | the kernel driver | refines `OutputQueue` |
| `Channel` | abstract: what the bridge promises about reports in one direction | |
| `Bridge` | the service: `main()`, input thread, output thread, proxy, with controller, driver, pipe and console around it | an instance of `OutputQueue` as the driver's ring; refines `Channel` twice |
| `PipeLink` | both ends of the named pipe | |
| `ServiceProcess` | UI and service processes around the one pipe name | |
| `HidHide` | the HidHide manager and the threads that call it | |
| `PacketCodec` | layouts, CRC, parser, translation, payload and words, as operators | |
| `PacketPath` | the proxy's two handlers over the bytes of reports | `PacketCodec` |
| `MCPacketPath` | the reports TLC tries | `PacketPath` |
| `VhfDeviceProofs`, `BridgeProofs`, `BridgeChannelProofs`, `PipeLinkProofs`, `ServiceProcessProofs`, `HidHideProofs`, `PacketCodecProofs`, `PacketPathProofs` | theorems | the module of that name |

`Bridge` composes the components of the service and uses the driver only through
`OutputQueue`, the specification the driver is proved to implement. The pipe appears in
`Bridge` and in `ServiceProcess` as calls that may block; `PipeLink` shows when and why
they do. The parser's verdict is a Boolean in `Bridge`; `PacketCodec` has what decides it.

### VhfDevice

The context `DSL_VHF_CONTEXT` is the state: `handle` and `output_lock` as "not null", the
slots with their sizes, `queue_head`, `queue_tail`, `queue_count`. The framework's default
queue is sequential (`driver.cpp:125`), so one IOCTL is one action: `HandleSubmitInputIoctl`,
`HandlePushOutputIoctl`, `HandleGetOutputIoctl`, `HandleGetVersionIoctl`, and
`RefusedIoctl` for short buffers and unknown codes. Every size a client may name is tried,
one past the room included. `DslEvtDeviceAdd` may fail at each of its steps, after which
the framework deletes the device. The contents of a report are model values.

### Bridge

One action per stretch of code between two points where another thread can interfere.
`main` is a program counter through `main.cpp:236-329`; `reader` and `output` are the
counters of `ReadLoop` and `ReadOutputLoop`, including what the proxy does in their
callbacks. `packet` and `report` are what a thread holds. Reports are numbered, which is
what the order properties need; a packet carries the parser's verdict.

- Undefined behaviour: `manager_` is read twice without a lock, so `UseManager` may use
  the pointer that was tested or the null pointer that replaced it; the latter sets
  `crashed`, which ends the process.
- A read that times out is cancelled but not waited for: `ReadAbandoned` may lose a report.
- A write that times out is left to the driver: `WriteReturns` may or may not deliver it.
- The ring may hold a report from before this service (report 0).
- `source` is what discovery opened: any present device with the right vendor and product
  id, the driver's own virtual controller included (`bluetooth_manager.cpp:159` asks for
  nothing else, although `docs/architecture.md:11-12` speaks of a controller on Bluetooth).
- Every exit of `main()` is there: no driver and no fallback, no controller, normal stop.
- Refinement: a report is underway (`InputUnderway`, `OutputUnderway`) while it is in a
  buffer or in a thread's hand before its delivery; with the fallback the driver's ring is
  not read, so what is in it is lost.

### PipeLink

Two threads a side: the receiver (`PipeServer::Run`, `PipeClient::RunReadLoop`) and one
sender that in the end calls `Stop()`. `busy` is the thread whose call is pending on a
side's handle: the pipe is opened without `FILE_FLAG_OVERLAPPED`, so every other call on
that handle waits. Header and payload are separate writes and reads. The worker replaces
`pipe_` without the write mutex, as in the code. A UI may vanish at any moment
(`UiReplaced`) and another may come. `torn` is a history variable: a sender had its header
in an instance that ConnectNamedPipe then failed for, and the worker replaced the pipe
before the payload followed (`pipe_server.cpp:87-108`). That is the one way in which a frame
is broken, and `FramesWhole` says there is no other.

### ServiceProcess

A UI is the window's thread from `EnsureRunning` to the destructor (`ui`), with the fields
of `ServiceProcess` and the text the window shows; its read loop is `OpenPipe`. A service is
`main()` reduced to its phases and the worker of its `PipeServer` step by step: loop, create,
connect, read, the command's callback with the replies it writes, and `ClosePipe` with its
flush. `owner` is the service that has the pipe's only instance. Whether a write or a flush
waits for the client is not a state of this module but a question of fairness: the step that
returns from it may come at any time, or never (`Prompt`, below). Processes may be killed at any step, may be
started by the user, and their numbers are used again once no handle refers to them.
The text is the WinUI window's. Left as the code has it, without a property: a UI whose own
service has died goes on believing that it launched the service it finds
(`launched_by_ui_` is never taken back), shows it as "started by UI", and ends it; a
stopping service that waits for a client is found by the next UI, which then launches
nothing.

### HidHide

Two threads (the pipe's worker, the main thread) and the connected callback. A toggle is
the flag's store, the query of the service, the lock, the three command line runs, the
unlock, the status, and `SendHidHideStatus`: the writes to the pipe that end the command
and may wait for the other side. `TryRunCli` may succeed, fail, or be given up with its effect still
to come (`LateRun`). Whether the HidHide service is ready is asked anew every time. `raced`
is a history variable: a toggle began while the opposite one was on its way between the
flag's store and the manager (`OnItsWay`). `overtaken` is another: since the last operation
began, a run given up earlier has told HidHide the opposite of what the manager wants.

### PacketCodec and PacketPath

A word is the set of its one bits, which makes "xor" and masks set operators and keeps the
CRC in reach of TLC; a packet is a sequence of such bytes. The operators have the names of
the functions they translate. Their parts that a module can get wrong by itself are checked
against independent definitions: the CRC against its check value (`CrcCheckValue`, an
assumption TLC evaluates) and, for what is written, against the residue every CRC-32 leaves:
`Residue` is the register after four zero bytes, and the assumption `ResidueValue` says that
it is 0xDEBB20E3.

`PacketPath` runs the two handlers of the proxy over them. Of the reports in `Hit` the packet
may also arrive cut short, or with one byte xored with one of the bit patterns in `Errors`.
Left as the code has it: a report with the USB id is accepted without a CRC, whatever its
length from 64 bytes on, so a hit that turns the id 0x31 into 0x01 makes a damaged packet one
that is delivered (`DeliveredIffIntact` names this exception and no other); an output report
without its id whose first byte is 2 is taken for one with it.

## 3. What is checked

All runs use the specification as it is proved about; a configuration only gives values to
constants.

| Run | Instance | States | Properties |
|---|---|---|---|
| `vhf` | 2 reports, sizes up to 2 (and 3, refused), 3 slots | 4,903 | `TypeOK`, `RingConsistent`, `SizeMarksLiveSlots`, `StartedIsReady`, `ImplementsQueue` |
| `bridge_input` | 3 input reports, inbox of 2 | 2.1 M | `TypeOK`, `DeliveredInOrder`, `StreamSaysConnected`, `SubmitsToOpenDriver`, `ThreadsJoined`, `ReadsOpenHandle`, `ImplementsInputChannel` |
| `bridge_output` | 2 rumbles and a report left over, ring of 2 | 212 k | `WrittenInOrder`, `DropsOnlyAroundStartAndStop`, `OutputsLeaveRing`, `ImplementsOutputChannel` |
| `bridge_shutdown` | 1 input report | 236 k | `ShutdownWaitsOnlyForPipe` |
| `pipe_link` | 1 status, 1 command, 3 pipe instances, any number of UIs | 555 k | `TypeOK`, `FramesWhole`, `StoppedHoldsNothing`, `ListensAgain` |
| `hidhide` | 2 toggles a thread, 1 run given up | 0.9 M | `TypeOK`, `OkMeansDone`, `FlagIsResult`, `CommandsReachSend` |
| `ui_service` | 1 UI (which may start over), 2 services | 223 k | `TypeOK`, `ExternalLeftAlone`, `PipeServedAgain`, `ShutdownArrives`, `StopWaitsOnlyForClient` |
| `packets` | 528 input reports, one of them also damaged in 858 ways; 11 output reports | 9,772 | `TypeOK`, `DeliveredIffIntact`, `ShownIsPressed`, `MaskIsReport`, `WrittenIsSealed`, `TagsFollow` |

- `vhf`: three slots are enough for head and tail to wrap independently, for empty, full
  and in between; two sizes tell a cut report from a whole one.
- `bridge_input`: with three reports and room for two the inbox overflows, and a report
  can be delivered, in hand and waiting at once. The output side is idle here
  (`MaxRumbles = 0`, apart from a left-over report) and the input side is idle in
  `bridge_output`; the proofs cover both together.
- `bridge_output`: two rumbles plus the left-over one fill the ring of two and overflow it.
  Each report is looked at by itself in `OutputsLeaveRing`.
- `pipe_link`: two instances are the least at which a sender can meet the next pipe, a third
  shows what an old frame does after that. When the bound is reached the worker waits;
  `ListensAgain` asks only below the bound.
- `bridge_shutdown`: one report is enough for an input thread that waits in the status
  callback while `main()` joins it. Calls on the pipe may stall at any moment and for ever;
  `ShutdownWaitsOnlyForPipe` says that the process ends unless one such call never returns.
- `hidhide`: two toggles a thread are the least for on-off-on against another thread.
  `OkMeansDone` holds with a run given up, unless that run later tells HidHide the opposite of
  what the manager wants (`overtaken`): then "ok" is wrong, and nothing in the code notices.
  `CommandsReachSend` ends where the command calls the pipe; no thread takes the manager's
  lock there, so one that stays there holds up no other. The deadlock check is on: somebody can always ask again.
- `ui_service`: two services are the least that can compete for the pipe. A second UI makes
  the instance too large; a UI that starts over, and services the user starts, play its part,
  and the theorems about the module are for any number of both. `ShutdownArrives` says that a
  shutdown in the pipe of a service that hears commands sets its flag although the UI has
  gone, with whatever the worker still had to answer before it; a command read before
  `SetOnCommand` is dropped, by the code and by the model. What the flag leads to in a service
  that runs in the background is `StopWaitsOnlyForClient`.
- `packets`: every value of the two bytes the parser decodes (d-pad and face buttons,
  battery), every other button alone, four sticks that differ; in each of the 78 bytes every single bit flipped, all of
  them, and the two bits that make the Bluetooth id that of USB; every length a packet can be
  cut to; output reports of every length at which something changes. One report is enough for
  the damage: whether a CRC notices it depends on the bits that are other and not on the rest
  (the theorems are for all reports and all patterns in a byte). The sequence counter runs through all 256 values. A single
  packet is enough since nothing but the counter is kept from one to the next.
  `ShownIsPressed` compares what the windows say with the bytes of the report the game gets:
  four conditions, one for each direction of the d-pad, that together fix every word;
  `MaskIsReport` covers all fifteen buttons, of which the windows show four.

`Bridge`, `PipeLink` and `ServiceProcess` really stop, and `PacketPath` handles one packet,
so their runs do not check for deadlock; what the stop sequences may wait for is the subject of
`ShutdownWaitsOnlyForPipe` and `StopWaitsOnlyForClient`.

### Where documents and code differ

Four runs expect a violation; each states what a comment or a document says and TLC shows
how the code breaks it. The findings in `PROJECT.json` quote the lines.

| Run | Property | What the trace shows |
|---|---|---|
| `bridge_null_manager` | `NullManagerNotUsed` | `ControllerProxy::Stop` clears `manager_` between test and use |
| `bridge_loss` | `LossIsReported` | a controller that is gone stays "Connected" |
| `bridge_stalled_pipe` | `LoopCancellable` | an input thread blocked on the pipe cannot be stopped |
| `pipe_stream` | `StatusStreams` | a status waits behind the worker's pending read |

Two more differences are in the models without a run of their own: discovery may open the
driver's own virtual controller (above, `Bridge`), and two opposite toggles that overlap can
leave the flag the UI shows and the manager's value different for good
(`service/main.cpp:146`, against `docs/architecture.md:71`). `FlagIsResult` states that
nothing else can, so it holds with the exception it names.

### Fairness

No run assumes that a call on the pipe returns while the other side does not read or write:
the code gives no such guarantee.

- `Bridge!ThreadFairness`: the operating system schedules every thread of a live process.
  Weak fairness for the two loops; strong fairness for `main()` and for `SendStatus`,
  whose calls on the pipe are enabled and disabled as it stalls and resumes: a call that
  can get through again and again does. A pipe that stalls for good keeps them disabled, and
  nothing obliges it to resume, which is why `ShutdownWaitsOnlyForPipe` has that case;
  `LoopCancellable`, which a comment of the code claims without condition, fails by it.
  Nothing is assumed of the controller, the console or the UI's commands.
- `PipeLink!FairSpec`: weak fairness for both receivers, and for a sender that has begun a
  message or a stop. Nobody has to send, to stop or to go away; a call that waits behind
  another on its handle, for a message or for the end of a flush is disabled, not assumed to
  return.
- `HidHide!FairSpec`: weak fairness for the callback and for each thread's work up to its
  call on the pipe, none for `SendHidHideStatus`. The mutex may be unfair; it is taken at
  most a bounded number of times.
- `ServiceProcess!FairSpec`: fairness for the threads of a service, none for a UI. `Prompt`
  says when a call on the pipe has nothing to wait for: the service has no instance, or its
  client has gone. The worker (`WorkerSure`, weak) goes on by itself except in a reply, a
  flush or a read while `Prompt` is false. `main()` (`MainSure`, strong) goes on while the
  worker only waits for a client, since then nothing is written, and under `Prompt` when no
  read of the worker is pending; a call that was held up returns after what held it up has
  gone, although the worker may be in its next wait soon after. So a client that stays and
  does not read may hold up worker and stop for ever, and `StopWaitsOnlyForClient` says that
  nothing but the wait for a client, coming or present, does.

## 4. What is proved

For every value of the constants that satisfies the module's assumption.

**VhfDeviceProofs** (assumes `VhfAssumption`: sizes and capacity are positive and a slot
holds no more than a request). `InvariantHolds` proves the inductive invariant `IInv`:
types, `RingConsistent` (the tail is where head and count say), `SizeMarksLiveSlots` (a
slot has a size exactly while it is in use), `StartedIsReady`, and `AbsentIsEmpty` (a
removed device holds nothing). None of the three ring parts is inductive alone: that a
push hits a free slot needs the tail's position, and that a get clears the right slot
needs that slots of distinct places differ (`SlotsDistinct`, the modular arithmetic).
`TypeCorrect`, `RingCorrect`, `SizesCorrect` and `AlwaysReady`
follow. `RingImplementsQueue` proves the
refinement of `OutputQueue` under the mapping `QueueOfRing`, `AnswerOfReply`: push appends
or overflows, get hands out the head whole or says empty, everything else stutters.

**BridgeProofs** (assumes `BridgeAssumption`: the bounds are naturals, the buffers hold
something). `TypeCorrect` first, then the invariant `Control`, four parts that say what
the order of statements in `main()` guarantees to the two threads:
`ReaderPhase` (the input thread exists only between the start and the join, with the handle
open), `ConnectedPhase` (the proxy's callback is installed only after the connected
callback ran), `DriverPhase` (the driver's handle is open until the last step) and
`ProxyPhase` (while running, handler and manager are set). From it `StreamConnected`,
`DriverOpen`, `AllJoined`, `HandleOpen` and the action property `NoDropWhileRunning`.
`InputInOrder` and `OutputInOrder` need a second invariant each, `InputOrder` and
`OutputOrder`: what was delivered lies before what is in hand, which lies before what is
buffered, which lies before what has been sent. The proofs go action by action over
lemmas for what can happen to a sequence: an element forgotten, taken, appended, passed on.

**BridgeChannelProofs** (same assumption). `InputIsChannel` and `OutputIsChannel`: each
direction implements `Channel`. Every step of `Bridge` is shown to lose, send, deliver or
hand over, or to leave the channel alone. The order invariants are what makes a delivery one
of the channel: the report in hand is older than everything in the buffer, so nothing that
is still underway is overtaken.

**PipeLinkProofs** (assumes `PipeAssumption`: the bounds are naturals). First `Control`:
types, who can hold a write mutex and where (`LocksHeld`), which thread's call can be pending
on a handle (`CallsPending`), when an end has a handle (`EndsOpen`) and when the pipe is empty
(`WireEmpty`). `TypeCorrect` and `StoppedHoldsNothingCorrect` follow. `FramesWholeCorrect`
needs `Frames`: what is in the pipe goes on from what the receiver read last, alternates
header and payload, and ends with what the sender that holds the lock wrote last. It is
inductive because a second sender is kept out by the mutex, and because replacing a pipe
between the two halves sets `torn`, after which nothing is claimed.

**HidHideProofs** (assumes `HidHideAssumption`). `TypeCorrect`, then `OkMeansDoneCorrect`,
which is not inductive: it needs that the value the lock's holder took at its check is the
manager's own (`HolderTold`), that a late run about the whitelist only ever puts the service on
it (`LateWhitelists`), and what HidHide has been told after each step of the sequence (`Done`),
as long as it has not been overtaken. `FlagIsResultCorrect` adds that,
without opposite toggles on their way, the flag is what every thread between its store and
the manager carries.

**ServiceProcessProofs** (assumes `ServiceAssumption`: UIs, services and the two markers are
distinct). One invariant of four parts: types, `WorkersLive`, `ClientsLive` (what a call on
the pipe implies about processes), `TextKept` (what the text says of `launched_by_ui_`); from
it `TypeCorrect` and `ExternalLeftAloneCorrect`, for any number of UIs and services.

**PacketCodecProofs** (no assumption on constants). Lemmas about the operators of
`PacketCodec`. `ShiftBit` is linear over xor and injective (bit 31 of the polynomial is
set), so eight of them are; two registers that differ stay apart over equal bytes, and equal
registers part at a byte that differs. `CrcApart` follows: *two messages of one length that
differ in a single byte, in any of its bits, have different CRCs*. `CrcOfSealed` is the
other side: a message with its own CRC behind it leaves `Residue`, whatever the message was.
The register is a recursive function of the number of bytes read (`Registers`). The
library's induction theorems cannot be instantiated here, since they take an operator, so
`Induction` is stated for a set of numbers and proved by its least counterexample, from the
library's theorem that `<` on `Nat` is well founded; `RegistersExist` uses it to show that the
recursion defines a function, and `RegistersStep` that this function takes the code's step.

**PacketPathProofs** (assumes `PacketAssumption`: an input report is 63 bytes, output reports
are sequences of bytes, an error is at least one bit of a byte). Which packets the parser
takes is settled first, by what can arrive: the sealed packet of any report, alone or with more
behind it (`SealedParses`, `LongerParses`), the report with the USB id (`UsbParses`), a packet
hit in one byte of its id, its payload or its CRC (`FlippedParses`, on `CrcFails`), and a cut one
(`CutParses`). The invariant `IInv` has three parts. `Arrived` relates the packet to what was
sent, which the properties speak about after the packet has been handled; `Handled` says that
what was submitted, kept and shown all come from the one parse of that packet; `Written` ties
the tag of the last packet to the 8 bit counter, without which `TagsFollow` would not survive
the wrap. What is shown rests on lemmas about one byte each: `DpadShown` (the word of each
nibble), `BatteryIs`, `ButtonPressed` and `MaskInBytes` (the tables of the parser and of the
status name the same bits, `Tables`). From it `TypeCorrect`, `DeliveredIffIntactCorrect`,
`ShownIsPressedCorrect`, `MaskIsReportCorrect`, `WrittenIsSealedCorrect` and the action property `TagsFollowCorrect`, for every report, every
output report of any length, every bit pattern in any byte.

**Only model-checked:** all liveness (`OutputsLeaveRing`, `ShutdownWaitsOnlyForPipe`,
`ListensAgain`, `CommandsReachSend`, `PipeServedAgain`, `ShutdownArrives`,
`StopWaitsOnlyForClient`), since liveness under fairness is beyond the prover, and the
violations. Every safety invariant, action property and refinement of a passing run is
stated by a theorem.

## 5. What is not modelled

- Memory: buffers and `OVERLAPPED` structures that go out of scope with an I/O pending,
  and handle numbers that are reused after a close.
- Fields of a report that the program only passes on (touch, motion, triggers); wording,
  punctuation and widgets. What the reader thread queues for the UI thread
  (`MainWindow.xaml.cpp:136-171`) runs when WinUI lets it.
- The live stream switch and the 120 ms gate in front of the raw text
  (`main.cpp:33-52, 115-127, 219-225`), and the console printer: a flag and a time stamp
  that decide whether a line of text is sent. Nothing depends on them, and a property
  would restate their one comparison.
- The legacy Win32 window (`ui/win32_main.cpp`): not in the default build, and it calls
  `PipeClient` and `ServiceProcess` as the WinUI window does.
- VHF's own way to bring a game's output reports to the driver: `vhf_device.cpp:25-36`
  registers no write callback, so the ring is filled only by the push IOCTL.
- The 8192 byte buffers of the pipe in `PipeLink` (no message of these runs fills them);
  a reader that lets them fill up is `PipeFlows` in `Bridge`.
- Scripts, packaging and the build's output: no state of the running system.

## 6. Plan

Done, in this order: `OutputQueue`, `VhfDevice` with proofs, `Bridge` with proofs,
`PipeLink`, `HidHide`, `ServiceProcess` and `PacketCodec`, proofs of `HidHide`, `PipeLink`
and `ServiceProcess`, `Channel` and the proof that `Bridge` implements it, proofs of
`PacketCodec` and `PacketPath`.

What could follow:

1. A second UI in `ServiceProcess`, once its state space has been cut down (the polling and
   the worker's dispatch could be merged where nobody interferes).
2. A fix for the torn frame (the worker taking the write mutex while it replaces the pipe):
   `torn` would then be false for ever, which `PipeLinkProofs` is close to saying.
3. The UI's dispatcher queue, if WinUI's behaviour at the end of a window is pinned down.
