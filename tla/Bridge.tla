-------------------------------- MODULE Bridge --------------------------------
(***************************************************************************)
(* The service's bridge between a Bluetooth DualSense and the virtual      *)
(* controller, from start to stop: main() (service/main.cpp,               *)
(* console_runtime.cpp), the input thread of BluetoothManager, the output  *)
(* thread of DriverBridgeClient and ControllerProxy, whose methods run on  *)
(* those threads.  One action per stretch of code between two points where *)
(* another thread can interfere: a lock, an unlocked shared field, an I/O. *)
(*                                                                         *)
(* External, as the code uses it: the controller and its HID class driver, *)
(* the virtual HID driver (its output ring is OutputQueue, which VhfDevice *)
(* refines), and the pipe to the UI, here only as a call that may block:   *)
(* PipeLink has the pipe itself.                                           *)
(***************************************************************************)
EXTENDS Integers, Sequences

CONSTANTS
    MaxReports,     \* bound: input reports the controller sends
    MaxRumbles,     \* bound: "rumble" commands on the console
    InboxSize,      \* read buffers the HID class driver keeps per handle
    RingSize        \* kDslOutputQueueCapacity

ASSUME BridgeAssumption ==
    /\ MaxReports \in Nat /\ MaxRumbles \in Nat
    /\ InboxSize \in Nat \ {0} /\ RingSize \in Nat \ {0}

VARIABLES
    \* the environment
    args,           \* [console, fallback: BOOLEAN]: ServiceMode, allow_fallback
    driverPresent,  \* the virtual HID driver is installed
    controller,     \* "absent" | "present" | "lost"
    inbox,          \* input reports buffered for the service's handle
    sent,           \* input reports sent so far; they are numbered
    pipeReady,      \* a call on the pipe returns
    rumbles,        \* output reports pushed so far; they are numbered
    ring, answer,   \* the driver's output queue, and its last answer
    \* main()
    main,
    bridge_mode,            \* "unknown" | "driver" | "fallback"
    connection_state,       \* "Disconnected" | "Connected"
    shutdown_requested,
    crashed,                \* a null pointer was dereferenced
    \* BluetoothManager
    running_,
    device_handle_,         \* "invalid" | "readWrite" | "readOnly"
    source,                 \* what it has open: "none" | "controller" | "virtual"
    \* ControllerProxy, and the callback it installs in BluetoothManager
    manager_, on_report_,
    last_state_,            \* number of the last report parsed, 0 for none
    \* DriverBridgeClient; output_handler_ also of ConsoleVirtualHidClient
    drv_running_, drv_device_, output_handler_,
    \* the threads and what they hold
    reader, packet,
    output, report,
    \* what the world has seen
    delivered,      \* input reports the virtual controller accepted, in order
    shown,          \* the last status the input thread sent to the UI
    written         \* output reports the controller received, in order

envVars   == <<args, driverPresent, controller, inbox, sent, pipeReady>>
ringVars  == <<ring, answer, rumbles>>
mainVars  == <<main, bridge_mode, connection_state, shutdown_requested>>
btVars    == <<running_, device_handle_, source>>
proxyVars == <<manager_, on_report_, output_handler_>>
drvVars   == <<drv_running_, drv_device_>>
readVars  == <<reader, packet, last_state_, delivered, shown>>
outVars   == <<output, report, written, crashed>>
vars == <<envVars, ringVars, mainVars, btVars, proxyVars, drvVars, readVars, outVars>>

Packet == [n : 1 .. MaxReports, valid : BOOLEAN]
NoPacket == [n |-> 0, valid |-> FALSE]

Rumble == 0 .. MaxRumbles
NoRumble == -1

MainPc == {"driverStart", "wire", "btStart", "connected", "proxyManager", "proxyReport",
           "proxyOutput", "run", "stopReport", "stopManager", "stopOutput", "btStop",
           "btJoin", "pipeStop", "drvClose", "drvJoin", "done"}
ReaderPc == {"off", "loop", "wait", "woken", "emit", "submit", "ioctl", "publish",
             "status", "done"}
OutputPc == {"off", "loop", "ioctl", "handler", "check", "deref", "write", "writing", "done"}

\* The steps in which a thread holds what it was given; Undelivered, below, has those in
\* which the input thread may still deliver it.
Holding == {"woken", "emit", "submit", "ioctl", "publish", "status"}
Unwritten == {"handler", "check", "deref", "write", "writing"}

Ring == INSTANCE OutputQueue WITH
            Report <- Rumble, Capacity <- RingSize, queue <- ring, answer <- answer

EnvTypeOK ==
    /\ args \in [console : BOOLEAN, fallback : BOOLEAN]
    /\ driverPresent \in BOOLEAN
    /\ controller \in {"absent", "present", "lost"}
    /\ inbox \in Seq(Packet)
    /\ Len(inbox) <= InboxSize
    /\ sent \in 0 .. MaxReports
    /\ pipeReady \in BOOLEAN

RingTypeOK ==
    /\ rumbles \in 0 .. MaxRumbles
    /\ ring \in Seq(Rumble)
    /\ answer \in Ring!Answer

MainTypeOK ==
    /\ main \in MainPc
    /\ bridge_mode \in {"unknown", "driver", "fallback"}
    /\ connection_state \in {"Disconnected", "Connected"}
    /\ shutdown_requested \in BOOLEAN

BtTypeOK ==
    /\ running_ \in BOOLEAN
    /\ device_handle_ \in {"invalid", "readWrite", "readOnly"}
    /\ source \in {"none", "controller", "virtual"}

ProxyTypeOK == manager_ \in BOOLEAN /\ on_report_ \in BOOLEAN /\ output_handler_ \in BOOLEAN

DrvTypeOK == drv_running_ \in BOOLEAN /\ drv_device_ \in BOOLEAN

ReadTypeOK ==
    /\ reader \in ReaderPc
    /\ packet \in Packet \cup {NoPacket}
    /\ reader \in Holding => packet \in Packet
    /\ last_state_ \in 0 .. MaxReports
    /\ delivered \in Seq(Packet)
    /\ shown \in [state : 0 .. MaxReports, connection : {"none", "Disconnected", "Connected"}]

OutTypeOK ==
    /\ output \in OutputPc
    /\ report \in Rumble \cup {NoRumble}
    /\ output \in Unwritten => report \in Rumble
    /\ written \in Seq(Rumble)
    /\ crashed \in BOOLEAN

TypeOK ==
    /\ EnvTypeOK /\ RingTypeOK /\ MainTypeOK /\ BtTypeOK
    /\ ProxyTypeOK /\ DrvTypeOK /\ ReadTypeOK /\ OutTypeOK

\* A report 0 in the ring was pushed before this service started: the ring is the
\* driver's and outlives the service.
Init ==
    /\ args \in [console : BOOLEAN, fallback : BOOLEAN]
    /\ driverPresent \in BOOLEAN
    /\ controller \in {"absent", "present"}
    /\ inbox = <<>> /\ sent = 0 /\ pipeReady = TRUE /\ rumbles = 0
    /\ ring \in (IF driverPresent THEN {<<>>, <<0>>} ELSE {<<>>})
    /\ answer = Ring!Other
    /\ main = "driverStart" /\ bridge_mode = "unknown"
    /\ connection_state = "Disconnected" /\ shutdown_requested = FALSE
    /\ running_ = FALSE /\ device_handle_ = "invalid" /\ source = "none"
    /\ manager_ = FALSE /\ on_report_ = FALSE /\ output_handler_ = FALSE
    /\ drv_running_ = FALSE /\ drv_device_ = FALSE
    /\ reader = "off" /\ packet = NoPacket /\ last_state_ = 0
    /\ delivered = <<>> /\ shown = [state |-> 0, connection |-> "none"]
    /\ output = "off" /\ report = NoRumble /\ written = <<>> /\ crashed = FALSE

-----------------------------------------------------------------------------
(* The environment.                                                        *)

\* The HID class driver keeps the newest InboxSize reports of an open handle.
ControllerSends ==
    /\ controller = "present" /\ sent < MaxReports
    /\ \E ok \in BOOLEAN :
          inbox' = IF source # "controller" THEN inbox
                   ELSE LET all == Append(inbox, [n |-> sent + 1, valid |-> ok])
                        IN  IF Len(all) > InboxSize THEN Tail(all) ELSE all
    /\ sent' = sent + 1
    /\ UNCHANGED <<args, driverPresent, controller, pipeReady,
                   ringVars, mainVars, btVars, proxyVars, drvVars, readVars, outVars>>

ControllerLost ==
    /\ controller = "present"
    /\ controller' = "lost" /\ inbox' = <<>>
    /\ UNCHANGED <<args, driverPresent, sent, pipeReady,
                   ringVars, mainVars, btVars, proxyVars, drvVars, readVars, outVars>>

PipeStalls ==
    /\ pipeReady /\ pipeReady' = FALSE
    /\ UNCHANGED <<args, driverPresent, controller, inbox, sent,
                   ringVars, mainVars, btVars, proxyVars, drvVars, readVars, outVars>>

PipeResumes ==
    /\ ~pipeReady /\ pipeReady' = TRUE
    /\ UNCHANGED <<args, driverPresent, controller, inbox, sent,
                   ringVars, mainVars, btVars, proxyVars, drvVars, readVars, outVars>>

\* UiShutdownService, on the pipe's thread: possible from SetOnCommand
\* (WireServiceCallbacks) until PipeServer::Stop.
HandleUiShutdownCommand ==
    /\ main \notin {"driverStart", "wire", "drvClose", "drvJoin", "done"}
    /\ ~shutdown_requested /\ shutdown_requested' = TRUE
    /\ UNCHANGED <<main, bridge_mode, connection_state,
                   envVars, ringVars, btVars, proxyVars, drvVars, readVars, outVars>>

-----------------------------------------------------------------------------
(* main(), starting.                                                       *)

MainStep(from, to) == main = from /\ main' = to

\* A call on the pipe waits while the UI lets its buffer fill up, and while another
\* thread's call on the same synchronous handle is pending (PipeServer::SendRaw,
\* ClosePipe).
PipeFlows == pipeReady

\* DriverBridgeClient::Start with the fallback decision of main().cpp:261-285.
DriverStartSucceeds ==
    /\ driverPresent
    /\ MainStep("driverStart", "wire") /\ bridge_mode' = "driver"
    /\ drv_running_' = TRUE /\ drv_device_' = TRUE
    /\ output' = "loop"
    /\ UNCHANGED <<connection_state, shutdown_requested, envVars, ringVars, btVars,
                   proxyVars, readVars, report, written, crashed>>

\* The device is missing, busy or of another version.
DriverStartFails ==
    /\ \/ args.console \/ args.fallback
    /\ MainStep("driverStart", "wire") /\ bridge_mode' = "fallback"
    /\ UNCHANGED <<connection_state, shutdown_requested, envVars, ringVars, btVars,
                   proxyVars, drvVars, readVars, outVars>>

\* Exit 2: the pipe is stopped and nothing else has been started.
NoDriverNoFallback ==
    /\ ~args.console /\ ~args.fallback
    /\ PipeFlows
    /\ MainStep("driverStart", "done")
    /\ UNCHANGED <<bridge_mode, connection_state, shutdown_requested, envVars, ringVars,
                   btVars, proxyVars, drvVars, readVars, outVars>>

\* SendBridgeStatus and SendInfo of the driver's start, then WireServiceCallbacks.
WireServiceCallbacks ==
    /\ PipeFlows
    /\ MainStep("wire", "btStart")
    /\ UNCHANGED <<bridge_mode, connection_state, shutdown_requested, envVars, ringVars,
                   btVars, proxyVars, drvVars, readVars, outVars>>

\* FindDualSenseDevicePath takes the first HID interface with Sony's vendor id and a
\* DualSense's product id; the virtual controller of the driver has both.
FoundDevices ==
    (IF controller = "present" THEN {"controller"} ELSE {})
        \cup (IF driverPresent THEN {"virtual"} ELSE {})

\* The first HidHide status, then BluetoothManager::Start: the thread runs before the
\* callback is made.
BluetoothStarts ==
    /\ PipeFlows
    /\ MainStep("btStart", "connected")
    /\ source' \in FoundDevices
    /\ device_handle_' \in {"readWrite", "readOnly"}
    /\ running_' = TRUE
    /\ reader' = "loop"
    /\ UNCHANGED <<bridge_mode, connection_state, shutdown_requested, envVars, ringVars,
                   proxyVars, drvVars, packet, last_state_, delivered,
                   shown, outVars>>

\* Nothing found, or it cannot be opened: exit 1.  The pipe is stopped and the
\* destructors stop the driver client.
BluetoothFails ==
    /\ PipeFlows
    /\ MainStep("btStart", IF bridge_mode = "driver" THEN "drvClose" ELSE "done")
    /\ UNCHANGED <<bridge_mode, connection_state, shutdown_requested, envVars, ringVars,
                   btVars, proxyVars, drvVars, readVars, outVars>>

\* The connected callback of WireServiceCallbacks: state, HidHide, SendInfo.
OnControllerConnected ==
    /\ PipeFlows
    /\ MainStep("connected", "proxyManager")
    /\ connection_state' = "Connected"
    /\ UNCHANGED <<bridge_mode, shutdown_requested, envVars, ringVars, btVars, proxyVars,
                   drvVars, readVars, outVars>>

\* ControllerProxy::Start, statement by statement.
ProxyStart ==
    /\ \/ /\ MainStep("proxyManager", "proxyReport")
          /\ manager_' = TRUE /\ UNCHANGED <<on_report_, output_handler_>>
       \/ /\ MainStep("proxyReport", "proxyOutput")
          /\ on_report_' = TRUE /\ UNCHANGED <<manager_, output_handler_>>
       \/ /\ MainStep("proxyOutput", "run")
          /\ output_handler_' = TRUE /\ UNCHANGED <<manager_, on_report_>>
    /\ UNCHANGED <<bridge_mode, connection_state, shutdown_requested, envVars, ringVars,
                   btVars, drvVars, readVars, outVars>>

-----------------------------------------------------------------------------
(* main(), running.                                                        *)

\* RunBackgroundLoop polls the flag.
RunBackgroundLoopEnds ==
    /\ ~args.console /\ shutdown_requested
    /\ MainStep("run", "stopReport")
    /\ UNCHANGED <<bridge_mode, connection_state, shutdown_requested, envVars, ringVars,
                   btVars, proxyVars, drvVars, readVars, outVars>>

\* RunConsoleLoop looks at it between two lines, and ends on "quit" or at the end of
\* the input: only whoever types ends it.
RunConsoleLoopEnds ==
    /\ args.console
    /\ MainStep("run", "stopReport")
    /\ UNCHANGED <<bridge_mode, connection_state, shutdown_requested, envVars, ringVars,
                   btVars, proxyVars, drvVars, readVars, outVars>>

\* A command typed on the console; if the flag is set meanwhile it is the last one.
ConsoleLine ==
    /\ args.console
    /\ MainStep("run", IF shutdown_requested THEN "stopReport" ELSE "run")

\* "rumble" with the driver: IOCTL_DSL_PUSH_OUTPUT_REPORT, accepted or refused.
EmitTestOutputReport ==
    /\ bridge_mode = "driver"
    /\ ConsoleLine
    /\ rumbles < MaxRumbles
    /\ rumbles' = rumbles + 1
    /\ Ring!Push(rumbles + 1)
    /\ UNCHANGED <<bridge_mode, connection_state, shutdown_requested, envVars, btVars,
                   proxyVars, drvVars, readVars, outVars>>

\* WriteOutputReport fails at once, or its write reaches the controller, or it does not:
\* after 200 ms the call returns and leaves the write to the driver.
CanStartWrite == device_handle_ = "readWrite" /\ source = "controller" /\ controller = "present"
WriteOutcomes(r) == {written} \cup (IF CanStartWrite THEN {Append(written, r)} ELSE {})

\* "rumble" with the fallback runs the proxy's output handler on this thread, the one
\* that stops the proxy later: nothing can come between its steps.
EmitTestRumbleCommand ==
    /\ bridge_mode = "fallback"
    /\ ConsoleLine
    /\ rumbles < MaxRumbles
    /\ rumbles' = rumbles + 1
    /\ written' \in (IF output_handler_ /\ manager_ THEN WriteOutcomes(rumbles + 1) ELSE {written})
    /\ UNCHANGED <<ring, answer, bridge_mode, connection_state, shutdown_requested, envVars,
                   btVars, proxyVars, drvVars, readVars, output, report, crashed>>

-----------------------------------------------------------------------------
(* main(), stopping: StopRuntime, then DriverBridgeClient::Stop.           *)

ProxyStop ==
    /\ \/ /\ MainStep("stopReport", "stopManager")
          /\ on_report_' = FALSE /\ UNCHANGED <<manager_, output_handler_>>
       \/ /\ MainStep("stopManager", "stopOutput")
          /\ manager_' = FALSE /\ UNCHANGED <<on_report_, output_handler_>>
       \/ /\ MainStep("stopOutput", "btStop")
          /\ output_handler_' = FALSE /\ UNCHANGED <<manager_, on_report_>>
    /\ UNCHANGED <<bridge_mode, connection_state, shutdown_requested, envVars, ringVars,
                   btVars, drvVars, readVars, outVars>>

\* Mutant: running_ is tested, not cleared.
BluetoothStopTests ==
    /\ MainStep("btStop", "btJoin")
    /\ UNCHANGED <<bridge_mode, connection_state, shutdown_requested, btVars,
                   envVars, ringVars, proxyVars, drvVars, readVars, outVars>>

\* BluetoothManager::Stop up to the join; CancelIoEx ends a read that is pending.
BluetoothStop ==
    /\ MainStep("btStop", "btJoin")
    /\ running_' = FALSE
    /\ UNCHANGED <<bridge_mode, connection_state, shutdown_requested, device_handle_, source,
                   envVars, ringVars, proxyVars, drvVars, readVars, outVars>>

\* Mutant: the thread is detached.
ReaderDetached == TRUE

ReaderJoined == reader = "done"

\* The join, and CloseDevice.
BluetoothJoined ==
    /\ ReaderJoined
    /\ MainStep("btJoin", "pipeStop")
    /\ device_handle_' = "invalid" /\ source' = "none"
    /\ inbox' = <<>>
    /\ UNCHANGED <<bridge_mode, connection_state, shutdown_requested, running_, args,
                   driverPresent, controller, sent, pipeReady, ringVars, proxyVars, drvVars,
                   readVars, outVars>>

\* PipeServer::Stop flushes the pipe: it too waits for the reader of the pipe.
PipeStop ==
    /\ PipeFlows
    /\ MainStep("pipeStop", IF bridge_mode = "driver" THEN "drvClose" ELSE "done")
    /\ UNCHANGED <<bridge_mode, connection_state, shutdown_requested, envVars, ringVars,
                   btVars, proxyVars, drvVars, readVars, outVars>>

\* DriverBridgeClient::Stop: the handle is closed before the thread is joined.
DriverClose ==
    /\ MainStep("drvClose", "drvJoin")
    /\ drv_running_' = FALSE /\ drv_device_' = FALSE
    /\ UNCHANGED <<bridge_mode, connection_state, shutdown_requested, envVars, ringVars,
                   btVars, proxyVars, readVars, outVars>>

DriverJoined ==
    /\ output = "done"
    /\ MainStep("drvJoin", "done")
    /\ UNCHANGED <<bridge_mode, connection_state, shutdown_requested, envVars, ringVars,
                   btVars, proxyVars, drvVars, readVars, outVars>>

MainNext ==
    \/ DriverStartSucceeds \/ DriverStartFails \/ NoDriverNoFallback \/ WireServiceCallbacks
    \/ BluetoothStarts \/ BluetoothFails \/ OnControllerConnected \/ ProxyStart
    \/ RunBackgroundLoopEnds
    \/ ProxyStop \/ BluetoothStop \/ BluetoothJoined \/ PipeStop \/ DriverClose \/ DriverJoined

-----------------------------------------------------------------------------
(* The input thread: BluetoothManager::ReadLoop and, in its callback,      *)
(* ControllerProxy::HandleBluetoothInputReport.                            *)

ReaderStep(from, to) == reader = from /\ reader' = to
ReaderOnly == UNCHANGED <<envVars, ringVars, mainVars, btVars, proxyVars, drvVars, outVars>>

\* The loop ends when Stop() cleared running_ ...
ReadLoopEnds ==
    /\ ~running_
    /\ ReaderStep("loop", "done")
    /\ ReaderOnly /\ UNCHANGED <<packet, last_state_, delivered, shown>>

\* ... or for good, and silently, when no event can be made for the read.
ReadEventFails ==
    /\ running_
    /\ ReaderStep("loop", "done")
    /\ ReaderOnly /\ UNCHANGED <<packet, last_state_, delivered, shown>>

\* ReadFile; on a lost controller it fails at once and the loop turns idly.
ReadStarts ==
    /\ running_
    /\ source = "virtual" \/ controller = "present"
    /\ ReaderStep("loop", "wait")
    /\ ReaderOnly /\ UNCHANGED <<packet, last_state_, delivered, shown>>

ReadCompletes ==
    /\ inbox # <<>>
    /\ ReaderStep("wait", "woken")
    /\ packet' = Head(inbox) /\ inbox' = Tail(inbox)
    /\ UNCHANGED <<args, driverPresent, controller, sent, pipeReady, ringVars, mainVars,
                   btVars, proxyVars, drvVars, outVars, last_state_,
                   delivered, shown>>

\* Mutant: a timeout is not told from a completed read.
ReadTimeoutIgnored ==
    /\ ReaderStep("wait", "woken")
    /\ ReaderOnly /\ UNCHANGED <<packet, last_state_, delivered, shown>>

\* 250 ms are over, or the read was cancelled or failed.  CancelIoEx is not waited
\* for: the abandoned read may yet take a report, which nobody sees.
ReadAbandoned ==
    /\ ReaderStep("wait", "loop")
    /\ inbox' \in {inbox} \cup (IF inbox # <<>> THEN {Tail(inbox)} ELSE {})
    /\ UNCHANGED <<args, driverPresent, controller, sent, pipeReady, ringVars, mainVars,
                   btVars, proxyVars, drvVars, outVars, packet, last_state_,
                   delivered, shown>>

\* running_ is looked at again before the report is passed on.
CheckStillRunning ==
    /\ ReaderStep("woken", IF running_ THEN "emit" ELSE "loop")
    /\ packet' = IF reader' = "loop" THEN NoPacket ELSE packet
    /\ ReaderOnly /\ UNCHANGED <<last_state_, delivered, shown>>

\* Mutants: the parser's verdict is ignored; a handler is taken for granted.
HandlerTakesAny == on_report_
HandlerTakenForGranted == packet.valid

\* The proxy's handler drops a packet that TryParseBluetoothInput refuses.
HandlerTakes == on_report_ /\ packet.valid

\* EmitInputReport copies the callback under its lock and runs it.
EmitInputReport ==
    /\ ReaderStep("emit", IF HandlerTakes THEN "submit" ELSE "loop")
    /\ packet' = IF reader' = "loop" THEN NoPacket ELSE packet
    /\ ReaderOnly /\ UNCHANGED <<last_state_, delivered, shown>>

\* IVirtualHidClient::SendInputReport.  The fallback only counts the report; the
\* driver client copies its handle under the lock ...
SendInputReport ==
    /\ \/ /\ bridge_mode = "driver"
          /\ ReaderStep("submit", IF drv_device_ THEN "ioctl" ELSE "publish")
          /\ UNCHANGED delivered
       \/ /\ bridge_mode = "fallback"
          /\ ReaderStep("submit", "publish")
          /\ delivered' = Append(delivered, packet)
    /\ ReaderOnly /\ UNCHANGED <<packet, last_state_, shown>>

\* Mutant: a request that failed is made again.
SubmitRetried ==
    /\ drv_device_ /\ delivered' = Append(delivered, packet)
    /\ \/ ReaderStep("ioctl", "ioctl")
       \/ ReaderStep("ioctl", "publish")
    /\ ReaderOnly /\ UNCHANGED <<packet, last_state_, shown>>

\* ... and uses the copy without it: the driver accepts the report or refuses it.
SubmitIoctl ==
    /\ ReaderStep("ioctl", "publish")
    /\ delivered' \in {delivered} \cup
                        (IF drv_device_ THEN {Append(delivered, packet)} ELSE {})
    /\ ReaderOnly /\ UNCHANGED <<packet, last_state_, shown>>

PublishState ==
    /\ ReaderStep("publish", "status")
    /\ last_state_' = packet.n
    /\ ReaderOnly /\ UNCHANGED <<packet, delivered, shown>>

\* The state callback of WireServiceCallbacks: SendStatus and SendRawInput.
SendStatus ==
    /\ PipeFlows
    /\ ReaderStep("status", "loop")
    /\ shown' = [state |-> packet.n, connection |-> connection_state]
    /\ packet' = NoPacket
    /\ ReaderOnly /\ UNCHANGED <<last_state_, delivered>>

ReaderNext ==
    \/ ReadLoopEnds \/ ReadStarts \/ ReadCompletes \/ ReadAbandoned \/ CheckStillRunning
    \/ EmitInputReport \/ SendInputReport \/ SubmitIoctl \/ PublishState \/ SendStatus

-----------------------------------------------------------------------------
(* The output thread: DriverBridgeClient::ReadOutputLoop and, in its       *)
(* callback, ControllerProxy::HandleVirtualOutputReport.                   *)

OutputStep(from, to) == output = from /\ output' = to
OutputOnly == UNCHANGED <<envVars, mainVars, btVars, proxyVars, drvVars, readVars>>

ReadOutputLoopEnds ==
    /\ ~drv_running_
    /\ OutputStep("loop", "done")
    /\ OutputOnly /\ UNCHANGED <<ringVars, report, written, crashed>>

\* CopyDeviceHandle; an invalid handle would only be polled again.
CopyDeviceHandle ==
    /\ drv_running_ /\ drv_device_
    /\ OutputStep("loop", "ioctl")
    /\ OutputOnly /\ UNCHANGED <<ringVars, report, written, crashed>>

\* ReadOutputReport: IOCTL_DSL_GET_OUTPUT_REPORT takes the oldest report off the ring.
ReadOutputReport ==
    /\ drv_device_
    /\ Ring!Pop
    /\ OutputStep("ioctl", IF ring # <<>> THEN "handler" ELSE "loop")
    /\ report' = IF ring # <<>> THEN answer'.report ELSE report
    /\ OutputOnly /\ UNCHANGED <<rumbles, written, crashed>>

\* The handle was closed after it was copied: the call fails.
ReadOutputFails ==
    /\ ~drv_device_
    /\ OutputStep("ioctl", "loop")
    /\ OutputOnly /\ UNCHANGED <<ringVars, report, written, crashed>>

\* Mutant: the report is dropped when the handler's lock is taken.
CopyOutputHandlerIfFree ==
    /\ \E free \in BOOLEAN :
          OutputStep("handler", IF free /\ output_handler_ THEN "check" ELSE "loop")
    /\ report' = IF output' = "loop" THEN NoRumble ELSE report
    /\ OutputOnly /\ UNCHANGED <<ringVars, written, crashed>>

CopyOutputHandler ==
    /\ OutputStep("handler", IF output_handler_ THEN "check" ELSE "loop")
    /\ report' = IF output' = "loop" THEN NoRumble ELSE report
    /\ OutputOnly /\ UNCHANGED <<ringVars, written, crashed>>

\* HandleVirtualOutputReport: manager_ is tested ...
CheckManager ==
    /\ OutputStep("check", IF manager_ THEN "deref" ELSE "loop")
    /\ report' = IF output' = "loop" THEN NoRumble ELSE report
    /\ OutputOnly /\ UNCHANGED <<ringVars, written, crashed>>

\* ... and, after the translation, used, without a lock.  If it was cleared meanwhile
\* the build may use the value it tested or the null pointer.
UseManager ==
    /\ \/ OutputStep("deref", "write") /\ UNCHANGED crashed
       \/ ~manager_ /\ OutputStep("deref", "done") /\ crashed' = TRUE
    /\ OutputOnly /\ UNCHANGED <<ringVars, report, written>>

\* BluetoothManager::WriteOutputReport up to WriteFile.
WriteStarts ==
    /\ OutputStep("write", IF CanStartWrite THEN "writing" ELSE "loop")
    /\ report' = IF output' = "loop" THEN NoRumble ELSE report
    /\ OutputOnly /\ UNCHANGED <<ringVars, written, crashed>>

\* Mutants: a write that timed out is tried again; the wait has no timeout.
WriteRetried ==
    /\ \/ OutputStep("writing", "loop") /\ report' = NoRumble /\ UNCHANGED written
       \/ /\ controller = "present" /\ written' = Append(written, report)
          /\ OutputStep("writing", "write") /\ UNCHANGED report
    /\ OutputOnly /\ UNCHANGED <<ringVars, crashed>>

WriteAwaited ==
    /\ controller = "present" /\ written' = Append(written, report)
    /\ OutputStep("writing", "loop")
    /\ report' = NoRumble
    /\ OutputOnly /\ UNCHANGED <<ringVars, crashed>>

\* The wait of 200 ms: the write reached the controller or not, whatever is returned.
\* The class driver takes writes in the order they were issued, so one that arrives late
\* still comes before any later one.
WriteReturns ==
    /\ OutputStep("writing", "loop")
    /\ written' \in {written} \cup
                      (IF controller = "present" THEN {Append(written, report)} ELSE {})
    /\ report' = NoRumble
    /\ OutputOnly /\ UNCHANGED <<ringVars, crashed>>

OutputNext ==
    \/ ReadOutputLoopEnds \/ CopyDeviceHandle \/ ReadOutputReport \/ ReadOutputFails
    \/ CopyOutputHandler \/ CheckManager \/ UseManager \/ WriteStarts \/ WriteReturns

-----------------------------------------------------------------------------
EnvironmentNext ==
    \/ ControllerSends \/ ControllerLost \/ PipeStalls \/ PipeResumes
    \/ HandleUiShutdownCommand \/ ReadEventFails
    \/ RunConsoleLoopEnds \/ EmitTestOutputReport \/ EmitTestRumbleCommand

\* A crash of one thread is the end of the process.
Next == ~crashed /\ (MainNext \/ ReaderNext \/ OutputNext \/ EnvironmentNext)

Spec == Init /\ [][Next]_vars

\* Every thread of a running process is scheduled.  Strong fairness where a call on the
\* pipe is made: one that can get through again and again does.  That it ever can is not
\* assumed, nor anything of the controller, of the console and of the commands of the UI.
ThreadFairness ==
    /\ SF_vars(~crashed /\ MainNext)
    /\ WF_vars(~crashed /\ ReaderNext) /\ SF_vars(~crashed /\ SendStatus)
    /\ WF_vars(~crashed /\ OutputNext)

FairSpec == Spec /\ ThreadFairness

-----------------------------------------------------------------------------
(* Safety.                                                                 *)

\* The virtual controller gets only packets the parser accepted, each at most once and
\* in the order the controller sent them, whatever reads time out, are cancelled or are
\* abandoned (bluetooth_manager.cpp:232-266, controller_proxy.cpp:47-55).
DeliveredInOrder ==
    /\ \A i, j \in 1 .. Len(delivered) : i < j => delivered[i].n < delivered[j].n
    /\ \A i \in 1 .. Len(delivered) : delivered[i].valid

\* The controller gets each rumble at most once and in the order pushed, although a
\* write that timed out is left to the driver and may still arrive
\* (driver_bridge_client.cpp:188-207, bluetooth_manager.cpp:126-133).
WrittenInOrder == \A i, j \in 1 .. Len(written) : i < j => written[i] < written[j]

\* A status of the input stream always says Connected: the thread that sends it runs
\* before the connected callback, but its callback is installed after
\* (bluetooth_manager.cpp:59-69, main.cpp:89-96).
StreamSaysConnected ==
    /\ shown.connection \in {"none", "Connected"}
    /\ reader \in {"submit", "ioctl", "publish", "status"} => connection_state = "Connected"

\* The input thread never submits to a driver handle that was closed under it, although
\* it uses its copy outside the lock: StopRuntime joins it before the driver client is
\* stopped (main.cpp:325-326, driver_bridge_client.cpp:54-77).
SubmitsToOpenDriver ==
    bridge_mode = "driver" /\ reader \in {"submit", "ioctl"} => drv_device_

\* From the pipe's stop on, no thread can call into objects main() is about to destroy
\* (main.cpp:228-232, 306-309, 325-328).
ThreadsJoined ==
    /\ main \in {"pipeStop", "drvClose", "drvJoin", "done"} => reader \in {"off", "done"}
    /\ main = "done" => output \in {"off", "done"}

\* The input thread reads only a handle that is open (bluetooth_manager.cpp:73-86).
ReadsOpenHandle ==
    reader \notin {"off", "done"} => device_handle_ # "invalid"

\* While the service runs, no output report that left the driver's ring is dropped
\* before its write is attempted; it can be lost only around start and stop
\* (controller_proxy.cpp:17-35, 68-76).
Drops == output \in {"handler", "check"} /\ output' = "loop"
DropsOnlyAroundStartAndStop == [][Drops => main # "run"]_vars

-----------------------------------------------------------------------------
(* Refinement: each direction is a channel that may lose reports, but      *)
(* neither repeats, reorders nor invents them.                             *)

Undelivered == {"woken", "emit", "submit", "ioctl"}

InputUnderway ==
    {inbox[i].n : i \in 1 .. Len(inbox)} \cup (IF reader \in Undelivered THEN {packet.n} ELSE {})
InputArrived == [i \in 1 .. Len(delivered) |-> delivered[i].n]

\* With the fallback the ring is not read.
RingUnderway == IF bridge_mode = "fallback" THEN {} ELSE {ring[i] : i \in 1 .. Len(ring)}
OutputUnderway == RingUnderway \cup (IF output \in Unwritten THEN {report} ELSE {})

InputChannel == INSTANCE Channel WITH
    sent <- sent, underway <- InputUnderway, arrived <- InputArrived
OutputChannel == INSTANCE Channel WITH
    sent <- rumbles, underway <- OutputUnderway, arrived <- written

\* From the controller to the virtual one: a report that was dropped, overwritten in the
\* buffer or taken by an abandoned read never comes back, and no other arrives twice
\* (bluetooth_manager.cpp:232-266, controller_proxy.cpp:47-55,
\* driver_bridge_client.cpp:49-77).
ImplementsInputChannel == InputChannel!Spec

\* From the virtual controller, or the console's rumble in fallback mode, to the
\* controller: a report refused by the ring, dropped around start and stop, or whose write
\* was given up, never comes back (driver_bridge_client.cpp:153-207,
\* controller_proxy.cpp:68-76, bluetooth_manager.cpp:102-134).
ImplementsOutputChannel == OutputChannel!Spec

-----------------------------------------------------------------------------
(* Liveness.                                                               *)

\* main() is in a call on the pipe, or joins an input thread that is: the first status and
\* the connected callback, the status of a report, the flush of the stop sequence.
InPipeCall ==
    \/ main \in {"btStart", "connected", "pipeStop"}
    \/ main = "btJoin" /\ reader = "status"

\* A shutdown the UI asked for in background mode ends the process, if only by the crash
\* below, or else the process is from some moment on in one call on a pipe that never
\* takes it: whatever the controller and the driver do, no join and no I/O with them holds
\* up the stop, and neither do messages that get through again and again.  (That a call on
\* the pipe may wait for ever is the code's doing: see LoopCancellable, and
\* StopWaitsOnlyForClient in ServiceProcess; main.cpp:180-182, 228-232, 306-328.)
ShutdownWaitsOnlyForPipe ==
    (shutdown_requested /\ ~args.console)
        ~> (main = "done" \/ crashed \/ [](InPipeCall /\ ~pipeReady))

\* While the service runs with the driver, an output report does not stay in the driver's
\* ring, even if the controller is lost: writes are bounded by their timeout
\* (bluetooth_manager.cpp:126, driver_bridge_client.cpp:188-207).
OutputsLeaveRing ==
    \A k \in Rumble : (main = "run" /\ bridge_mode = "driver" /\ \E i \in 1 .. Len(ring) : ring[i] = k)
                        ~> (main # "run" \/ \A i \in 1 .. Len(ring) : ring[i] # k)

-----------------------------------------------------------------------------
(* What the repository says and the code does not keep.                    *)

\* "if(manager_ == nullptr) return;" (controller_proxy.cpp:69-71): the handler is meant
\* to do nothing once the proxy is stopped.
NullManagerNotUsed == ~crashed

\* The status in the UI includes the connection (docs/quickstart_ru.md:66): it says so
\* when the controller is gone.
LossIsReported ==
    (main = "run" /\ controller = "lost")
        ~> (main # "run" \/ connection_state = "Disconnected" \/ crashed)

\* "Overlapped read keeps the loop cancellable from Stop()"
\* (bluetooth_manager.cpp:243).
LoopCancellable == (main = "btJoin") ~> (main # "btJoin" \/ crashed)
=============================================================================
