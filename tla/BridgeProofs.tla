----------------------------- MODULE BridgeProofs -----------------------------
(***************************************************************************)
(* The safety of the bridge's start and stop sequences, and the order of   *)
(* what it forwards, for every number of reports and every size of the     *)
(* buffers in between.                                                     *)
(***************************************************************************)
EXTENDS Bridge, SequenceTheorems, TLAPS

\* The stretches of main() between which the input thread can exist.
BeforeBluetooth == {"driverStart", "wire", "btStart"}
AfterBluetooth  == {"pipeStop", "drvClose", "drvJoin", "done"}

-----------------------------------------------------------------------------
\* What the order of main()'s statements guarantees to the two threads.
ReaderPhase ==
    /\ main \in BeforeBluetooth => reader = "off"
    /\ main \in AfterBluetooth => reader \in {"off", "done"}
    /\ main \notin BeforeBluetooth \cup AfterBluetooth => device_handle_ # "invalid"

ConnectedPhase ==
    /\ main \notin BeforeBluetooth \cup AfterBluetooth \cup {"connected"}
            => connection_state = "Connected"
    /\ on_report_ => connection_state = "Connected"
    /\ StreamSaysConnected

DriverPhase ==
    /\ main = "driverStart" => bridge_mode = "unknown"
    /\ main \notin {"driverStart", "done"} => bridge_mode # "unknown"
    /\ bridge_mode = "driver" /\ main \notin {"driverStart", "drvJoin", "done"} => drv_device_
    /\ bridge_mode # "driver" => output = "off"
    /\ main = "done" => output \in {"off", "done"}

ProxyPhase ==
    /\ main \in {"proxyReport", "proxyOutput", "run"} => manager_
    /\ main = "run" => output_handler_

Control == ReaderPhase /\ ConnectedPhase /\ DriverPhase /\ ProxyPhase

\* What has been delivered lies before the packet in hand, which lies before what is
\* buffered, which the controller has sent.
InputOrder ==
    /\ DeliveredInOrder
    /\ \A i, j \in 1 .. Len(inbox) : i < j => inbox[i].n < inbox[j].n
    /\ \A i \in 1 .. Len(inbox) : inbox[i].n <= sent
    /\ packet.n <= sent
    /\ \A i \in 1 .. Len(inbox) : packet.n < inbox[i].n
    /\ \A i \in 1 .. Len(delivered) :
          /\ delivered[i].n <= sent
          /\ \A j \in 1 .. Len(inbox) : delivered[i].n < inbox[j].n
          /\ reader \in Undelivered => delivered[i].n < packet.n
    /\ reader \in {"submit", "ioctl"} => packet.valid

\* The same for output reports: written, in hand, in the ring, pushed.
OutputOrder ==
    /\ WrittenInOrder
    /\ \A i, j \in 1 .. Len(ring) : i < j => ring[i] < ring[j]
    /\ \A i \in 1 .. Len(ring) : ring[i] <= rumbles
    /\ report <= rumbles
    /\ \A i \in 1 .. Len(ring) : report < ring[i]
    /\ \A i \in 1 .. Len(written) :
          /\ written[i] <= rumbles
          /\ bridge_mode = "driver" => \A j \in 1 .. Len(ring) : written[i] < ring[j]
          /\ output \in Unwritten => written[i] < report
    /\ Len(ring) <= RingSize
    /\ main = "driverStart" => written = <<>>

-----------------------------------------------------------------------------
\* The variables have their types at first.
LEMMA TypeInit == Init => TypeOK
<1> SUFFICES ASSUME Init PROVE TypeOK
    OBVIOUS
<1>1. EnvTypeOK
    BY BridgeAssumption DEF Init, EnvTypeOK
<1>2. RingTypeOK
    <2>1. <<>> \in Seq(Rumble) /\ <<0>> \in Seq(Rumble)
        BY BridgeAssumption DEF Rumble
    <2>2. ring \in {<<>>, <<0>>} /\ rumbles = 0 /\ answer = Ring!Other
        BY DEF Init
    <2> QED
        <3>1. answer \in Ring!Answer
            BY <2>2, Zenon DEF Ring!Answer
        <3>2. ring \in Seq(Rumble)
            BY <2>1, <2>2, Zenon
        <3>3. rumbles \in 0 .. MaxRumbles
            BY <2>2, BridgeAssumption
        <3> QED
            BY <3>1, <3>2, <3>3 DEF RingTypeOK
<1>3. MainTypeOK /\ BtTypeOK
    BY DEF Init, MainTypeOK, BtTypeOK, MainPc
<1>4. ProxyTypeOK /\ DrvTypeOK
    BY DEF Init, ProxyTypeOK, DrvTypeOK
<1>5. ReadTypeOK
    BY BridgeAssumption DEF Init, ReadTypeOK, NoPacket, ReaderPc, Holding
<1>6. OutTypeOK
    <2>1. <<>> \in Seq(Rumble)
        OBVIOUS
    <2>2. output = "off" /\ report = NoRumble /\ written = <<>> /\ crashed = FALSE
        BY DEF Init
    <2> QED
        BY <2>1, <2>2 DEF OutTypeOK, OutputPc, Unwritten
<1> QED
    BY <1>1, <1>2, <1>3, <1>4, <1>5, <1>6 DEF TypeOK

\* Sequences keep the type of their elements.
LEMMA SeqTypes ==
    ASSUME NEW S, NEW s \in Seq(S)
    PROVE  /\ Len(s) \in Nat
           /\ \A e \in S : /\ Append(s, e) \in Seq(S)
                          /\ Append(s, e) # <<>>
                          /\ Len(Append(s, e)) = Len(s) + 1
           /\ s # <<>> => /\ Head(s) \in S
                          /\ Tail(s) \in Seq(S)
                          /\ Len(Tail(s)) = Len(s) - 1
BY HeadTailProperties, AppendProperties

\* What a step leaves alone keeps its type.
LEMMA SameTypes ==
    ASSUME TypeOK
    PROVE  /\ EnvTypeOK /\ RingTypeOK /\ MainTypeOK /\ BtTypeOK
           /\ ProxyTypeOK /\ DrvTypeOK /\ ReadTypeOK /\ OutTypeOK
           /\ UNCHANGED envVars => EnvTypeOK'
           /\ UNCHANGED ringVars => RingTypeOK'
           /\ UNCHANGED mainVars => MainTypeOK'
           /\ UNCHANGED btVars => BtTypeOK'
           /\ UNCHANGED proxyVars => ProxyTypeOK'
           /\ UNCHANGED drvVars => DrvTypeOK'
           /\ UNCHANGED readVars => ReadTypeOK'
           /\ UNCHANGED outVars => OutTypeOK'
           /\ (EnvTypeOK /\ RingTypeOK /\ MainTypeOK /\ BtTypeOK
                /\ ProxyTypeOK /\ DrvTypeOK /\ ReadTypeOK /\ OutTypeOK)' => TypeOK'
BY DEF TypeOK, EnvTypeOK, RingTypeOK, MainTypeOK, BtTypeOK, ProxyTypeOK, DrvTypeOK,
       ReadTypeOK, OutTypeOK, envVars, ringVars, mainVars, btVars, proxyVars, drvVars,
       readVars, outVars

\* Every step keeps the types: one case per action.
LEMMA TypeStep ==
    ASSUME TypeOK, [Next]_vars
    PROVE  TypeOK'
<1> USE BridgeAssumption DEF TypeOK
<1>1. CASE DriverStartSucceeds
    <2>1. MainTypeOK'
        BY <1>1 DEF DriverStartSucceeds, MainTypeOK, MainPc, MainStep
    <2>2. DrvTypeOK'
        BY <1>1 DEF DriverStartSucceeds, DrvTypeOK
    <2>3. OutTypeOK'
        BY <1>1 DEF DriverStartSucceeds, OutTypeOK, OutputPc, Rumble, NoRumble, Unwritten, OutputStep
    <2> QED
        BY <1>1, <2>1, <2>2, <2>3, SameTypes DEF DriverStartSucceeds
<1>2. CASE DriverStartFails
    <2>1. MainTypeOK'
        BY <1>2 DEF DriverStartFails, MainTypeOK, MainPc, MainStep
    <2> QED
        BY <1>2, <2>1, SameTypes DEF DriverStartFails
<1>3. CASE NoDriverNoFallback
    <2>1. MainTypeOK'
        BY <1>3 DEF NoDriverNoFallback, MainTypeOK, MainPc, MainStep
    <2> QED
        BY <1>3, <2>1, SameTypes DEF NoDriverNoFallback
<1>4. CASE WireServiceCallbacks
    <2>1. MainTypeOK'
        BY <1>4 DEF WireServiceCallbacks, MainTypeOK, MainPc, MainStep
    <2> QED
        BY <1>4, <2>1, SameTypes DEF WireServiceCallbacks
<1>5. CASE BluetoothStarts
    <2>1. MainTypeOK'
        BY <1>5 DEF BluetoothStarts, MainTypeOK, MainPc, MainStep
    <2>2. BtTypeOK'
        BY <1>5 DEF BluetoothStarts, BtTypeOK, FoundDevices
    <2>3. ReadTypeOK'
        BY <1>5 DEF BluetoothStarts, ReadTypeOK, ReaderPc, Packet, NoPacket, Holding, ReaderStep
    <2> QED
        BY <1>5, <2>1, <2>2, <2>3, SameTypes DEF BluetoothStarts
<1>6. CASE BluetoothFails
    <2>1. MainTypeOK'
        BY <1>6 DEF BluetoothFails, MainTypeOK, MainPc, MainStep
    <2> QED
        BY <1>6, <2>1, SameTypes DEF BluetoothFails
<1>7. CASE OnControllerConnected
    <2>1. MainTypeOK'
        BY <1>7 DEF OnControllerConnected, MainTypeOK, MainPc, MainStep
    <2> QED
        BY <1>7, <2>1, SameTypes DEF OnControllerConnected
<1>8. CASE ProxyStart
    <2>1. MainTypeOK'
        BY <1>8 DEF ProxyStart, MainTypeOK, MainPc, MainStep
    <2>2. ProxyTypeOK'
        BY <1>8 DEF ProxyStart, ProxyTypeOK
    <2> QED
        BY <1>8, <2>1, <2>2, SameTypes DEF ProxyStart
<1>9. CASE RunBackgroundLoopEnds
    <2>1. MainTypeOK'
        BY <1>9 DEF RunBackgroundLoopEnds, MainTypeOK, MainPc, MainStep
    <2> QED
        BY <1>9, <2>1, SameTypes DEF RunBackgroundLoopEnds
<1>10. CASE ProxyStop
    <2>1. MainTypeOK'
        BY <1>10 DEF ProxyStop, MainTypeOK, MainPc, MainStep
    <2>2. ProxyTypeOK'
        BY <1>10 DEF ProxyStop, ProxyTypeOK
    <2> QED
        BY <1>10, <2>1, <2>2, SameTypes DEF ProxyStop
<1>11. CASE BluetoothStop
    <2>1. MainTypeOK'
        BY <1>11 DEF BluetoothStop, MainTypeOK, MainPc, MainStep
    <2>2. BtTypeOK'
        BY <1>11 DEF BluetoothStop, BtTypeOK
    <2> QED
        BY <1>11, <2>1, <2>2, SameTypes DEF BluetoothStop
<1>12. CASE BluetoothJoined
    <2>1. EnvTypeOK'
        BY <1>12 DEF BluetoothJoined, EnvTypeOK, Packet
    <2>2. MainTypeOK'
        BY <1>12 DEF BluetoothJoined, MainTypeOK, MainPc, MainStep
    <2>3. BtTypeOK'
        BY <1>12 DEF BluetoothJoined, BtTypeOK
    <2> QED
        BY <1>12, <2>1, <2>2, <2>3, SameTypes DEF BluetoothJoined
<1>13. CASE PipeStop
    <2>1. MainTypeOK'
        BY <1>13 DEF PipeStop, MainTypeOK, MainPc, MainStep
    <2> QED
        BY <1>13, <2>1, SameTypes DEF PipeStop
<1>14. CASE DriverClose
    <2>1. MainTypeOK'
        BY <1>14 DEF DriverClose, MainTypeOK, MainPc, MainStep
    <2>2. DrvTypeOK'
        BY <1>14 DEF DriverClose, DrvTypeOK
    <2> QED
        BY <1>14, <2>1, <2>2, SameTypes DEF DriverClose
<1>15. CASE DriverJoined
    <2>1. MainTypeOK'
        BY <1>15 DEF DriverJoined, MainTypeOK, MainPc, MainStep
    <2> QED
        BY <1>15, <2>1, SameTypes DEF DriverJoined
<1>16. CASE ReadLoopEnds
    <2>1. ReadTypeOK'
        BY <1>16 DEF ReadLoopEnds, ReadTypeOK, ReaderPc, Packet, NoPacket, Holding, ReaderStep
    <2> QED
        BY <1>16, <2>1, SameTypes DEF ReadLoopEnds, ReaderOnly
<1>17. CASE ReadStarts
    <2>1. ReadTypeOK'
        BY <1>17 DEF ReadStarts, ReadTypeOK, ReaderPc, Packet, NoPacket, Holding, ReaderStep
    <2> QED
        BY <1>17, <2>1, SameTypes DEF ReadStarts, ReaderOnly
<1>18. CASE ReadCompletes
    <2>1. EnvTypeOK'
        BY <1>18, SeqTypes DEF ReadCompletes, EnvTypeOK
    <2>2. ReadTypeOK'
        <3>1. packet' \in Packet
            BY <1>18, SeqTypes DEF ReadCompletes, EnvTypeOK
        <3> QED
            BY <1>18, <3>1 DEF ReadCompletes, ReadTypeOK, ReaderPc, ReaderStep
    <2> QED
        BY <1>18, <2>1, <2>2, SameTypes DEF ReadCompletes, ReaderOnly
<1>19. CASE ReadAbandoned
    <2>1. EnvTypeOK'
        <3>1. inbox' = inbox \/ (inbox # <<>> /\ inbox' = Tail(inbox))
            BY <1>19 DEF ReadAbandoned
        <3> QED
            BY <1>19, <3>1, SeqTypes DEF ReadAbandoned, EnvTypeOK
    <2>2. ReadTypeOK'
        BY <1>19 DEF ReadAbandoned, ReadTypeOK, ReaderPc, Packet, NoPacket, Holding, ReaderStep
    <2> QED
        BY <1>19, <2>1, <2>2, SameTypes DEF ReadAbandoned, ReaderOnly
<1>20. CASE CheckStillRunning
    <2>1. ReadTypeOK'
        BY <1>20 DEF CheckStillRunning, ReadTypeOK, ReaderPc, Packet, NoPacket, Holding, ReaderStep
    <2> QED
        BY <1>20, <2>1, SameTypes DEF CheckStillRunning, ReaderOnly
<1>21. CASE EmitInputReport
    <2>1. ReadTypeOK'
        BY <1>21 DEF EmitInputReport, ReadTypeOK, ReaderPc, Packet, NoPacket, Holding, ReaderStep
    <2> QED
        BY <1>21, <2>1, SameTypes DEF EmitInputReport, ReaderOnly
<1>22. CASE SendInputReport
    <2>1. ReadTypeOK'
        <3>1. packet \in Packet /\ packet' = packet /\ reader' \in {"ioctl", "publish"}
            BY <1>22 DEF SendInputReport, ReadTypeOK, Holding, ReaderStep
        <3>2. delivered' \in Seq(Packet)
            BY <1>22, <3>1, SeqTypes DEF SendInputReport, ReadTypeOK
        <3> QED
            BY <1>22, <3>1, <3>2 DEF SendInputReport, ReadTypeOK, ReaderPc
    <2> QED
        BY <1>22, <2>1, SameTypes DEF SendInputReport, ReaderOnly
<1>23. CASE SubmitIoctl
    <2>1. ReadTypeOK'
        <3>1. packet \in Packet /\ packet' = packet /\ reader' = "publish"
            BY <1>23 DEF SubmitIoctl, ReadTypeOK, Holding, ReaderStep
        <3>2. delivered' \in Seq(Packet)
            BY <1>23, <3>1, SeqTypes DEF SubmitIoctl, ReadTypeOK
        <3> QED
            BY <1>23, <3>1, <3>2 DEF SubmitIoctl, ReadTypeOK, ReaderPc
    <2> QED
        BY <1>23, <2>1, SameTypes DEF SubmitIoctl, ReaderOnly
<1>24. CASE PublishState
    <2>1. ReadTypeOK'
        <3>1. packet \in Packet
            BY <1>24 DEF PublishState, ReadTypeOK, Holding, ReaderStep
        <3> QED
            BY <1>24, <3>1 DEF PublishState, ReadTypeOK, ReaderPc, Packet, ReaderStep
    <2> QED
        BY <1>24, <2>1, SameTypes DEF PublishState, ReaderOnly
<1>25. CASE SendStatus
    <2>1. ReadTypeOK'
        <3>1. packet.n \in 0 .. MaxReports /\ reader' = "loop" /\ packet' = NoPacket
            BY <1>25 DEF SendStatus, ReadTypeOK, Holding, Packet, ReaderStep
        <3>2. shown' \in [state : 0 .. MaxReports, connection : {"none", "Disconnected", "Connected"}]
            BY <1>25, <3>1 DEF SendStatus, MainTypeOK
        <3> QED
            BY <1>25, <3>1, <3>2 DEF SendStatus, ReadTypeOK, ReaderPc, Holding
    <2> QED
        BY <1>25, <2>1, SameTypes DEF SendStatus, ReaderOnly
<1>26. CASE ReadOutputLoopEnds
    <2>1. OutTypeOK'
        BY <1>26 DEF ReadOutputLoopEnds, OutTypeOK, OutputPc, Rumble, NoRumble, Unwritten, OutputStep
    <2> QED
        BY <1>26, <2>1, SameTypes DEF ReadOutputLoopEnds, OutputOnly
<1>27. CASE CopyDeviceHandle
    <2>1. OutTypeOK'
        BY <1>27 DEF CopyDeviceHandle, OutTypeOK, OutputPc, Rumble, NoRumble, Unwritten, OutputStep
    <2> QED
        BY <1>27, <2>1, SameTypes DEF CopyDeviceHandle, OutputOnly
<1>28. CASE ReadOutputReport
    <2>1. RingTypeOK'
        <3>1. ring' \in Seq(Rumble)
            BY <1>28, SeqTypes DEF ReadOutputReport, Ring!Pop, RingTypeOK
        <3>2. answer' \in Ring!Answer
            BY <1>28, SeqTypes
               DEF ReadOutputReport, Ring!Pop, RingTypeOK, Ring!Answer, Rumble
        <3> QED
            BY <1>28, <3>1, <3>2 DEF ReadOutputReport, RingTypeOK
    <2>2. OutTypeOK'
        <3>1. ring # <<>> => Head(ring) \in Rumble
            BY SeqTypes DEF RingTypeOK
        <3>2. ring # <<>> => report' = Head(ring) /\ output' = "handler"
            BY <1>28 DEF ReadOutputReport, Ring!Pop, Ring!Handed, OutputStep
        <3>3. ring = <<>> => report' = report /\ output' = "loop"
            BY <1>28 DEF ReadOutputReport, OutputStep
        <3> QED
            BY <1>28, <3>1, <3>2, <3>3 DEF ReadOutputReport, OutTypeOK, OutputPc, Unwritten
    <2> QED
        BY <1>28, <2>1, <2>2, SameTypes DEF ReadOutputReport, OutputOnly
<1>29. CASE ReadOutputFails
    <2>1. OutTypeOK'
        BY <1>29 DEF ReadOutputFails, OutTypeOK, OutputPc, Rumble, NoRumble, Unwritten, OutputStep
    <2> QED
        BY <1>29, <2>1, SameTypes DEF ReadOutputFails, OutputOnly
<1>30. CASE CopyOutputHandler
    <2>1. OutTypeOK'
        BY <1>30 DEF CopyOutputHandler, OutTypeOK, OutputPc, Rumble, NoRumble, Unwritten, OutputStep
    <2> QED
        BY <1>30, <2>1, SameTypes DEF CopyOutputHandler, OutputOnly
<1>31. CASE CheckManager
    <2>1. OutTypeOK'
        BY <1>31 DEF CheckManager, OutTypeOK, OutputPc, Rumble, NoRumble, Unwritten, OutputStep
    <2> QED
        BY <1>31, <2>1, SameTypes DEF CheckManager, OutputOnly
<1>32. CASE UseManager
    <2>1. OutTypeOK'
        BY <1>32 DEF UseManager, OutTypeOK, OutputPc, Rumble, NoRumble, Unwritten, OutputStep
    <2> QED
        BY <1>32, <2>1, SameTypes DEF UseManager, OutputOnly
<1>33. CASE WriteStarts
    <2>1. OutTypeOK'
        BY <1>33 DEF WriteStarts, OutTypeOK, OutputPc, Rumble, NoRumble, Unwritten, OutputStep
    <2> QED
        BY <1>33, <2>1, SameTypes DEF WriteStarts, OutputOnly
<1>34. CASE WriteReturns
    <2>1. OutTypeOK'
        <3>1. report \in Rumble
            BY <1>34 DEF WriteReturns, OutTypeOK, Unwritten, OutputStep
        <3>2. written' \in Seq(Rumble)
            BY <1>34, <3>1, SeqTypes DEF WriteReturns, OutTypeOK
        <3> QED
            BY <1>34, <3>2 DEF WriteReturns, OutTypeOK, OutputPc, Unwritten, OutputStep
    <2> QED
        BY <1>34, <2>1, SameTypes DEF WriteReturns, OutputOnly
<1>35. CASE ControllerSends
    <2>1. EnvTypeOK'
        <3> DEFINE all(ok) == Append(inbox, [n |-> sent + 1, valid |-> ok])
        <3>1. PICK ok \in BOOLEAN :
                 inbox' = IF source # "controller" THEN inbox
                          ELSE IF Len(all(ok)) > InboxSize THEN Tail(all(ok)) ELSE all(ok)
            BY <1>35 DEF ControllerSends
        <3>2. [n |-> sent + 1, valid |-> ok] \in Packet
            BY <1>35 DEF ControllerSends, EnvTypeOK, Packet
        <3>3. /\ all(ok) \in Seq(Packet) /\ all(ok) # <<>>
              /\ Len(all(ok)) = Len(inbox) + 1
              /\ Len(inbox) \in Nat
            BY <3>2, SeqTypes DEF EnvTypeOK
        <3>4. Tail(all(ok)) \in Seq(Packet) /\ Len(Tail(all(ok))) = Len(inbox)
            BY <3>3, SeqTypes
        <3> HIDE DEF all
        <3>5. inbox' \in Seq(Packet) /\ Len(inbox') <= InboxSize
            BY <3>1, <3>3, <3>4 DEF EnvTypeOK
        <3> QED
            BY <1>35, <3>5 DEF ControllerSends, EnvTypeOK
    <2> QED
        BY <1>35, <2>1, SameTypes DEF ControllerSends
<1>36. CASE ControllerLost
    <2>1. EnvTypeOK'
        BY <1>36 DEF ControllerLost, EnvTypeOK, Packet
    <2> QED
        BY <1>36, <2>1, SameTypes DEF ControllerLost
<1>37. CASE PipeStalls
    <2>1. EnvTypeOK'
        BY <1>37 DEF PipeStalls, EnvTypeOK, Packet
    <2> QED
        BY <1>37, <2>1, SameTypes DEF PipeStalls
<1>38. CASE PipeResumes
    <2>1. EnvTypeOK'
        BY <1>38 DEF PipeResumes, EnvTypeOK, Packet
    <2> QED
        BY <1>38, <2>1, SameTypes DEF PipeResumes
<1>39. CASE HandleUiShutdownCommand
    <2>1. MainTypeOK'
        BY <1>39 DEF HandleUiShutdownCommand, MainTypeOK, MainPc, MainStep
    <2> QED
        BY <1>39, <2>1, SameTypes DEF HandleUiShutdownCommand
<1>40. CASE RunConsoleLoopEnds
    <2>1. MainTypeOK'
        BY <1>40 DEF RunConsoleLoopEnds, MainTypeOK, MainPc, MainStep
    <2> QED
        BY <1>40, <2>1, SameTypes DEF RunConsoleLoopEnds
<1>41. CASE EmitTestOutputReport
    <2>1. RingTypeOK'
        <3>1. rumbles + 1 \in Rumble /\ rumbles' \in 0 .. MaxRumbles
            BY <1>41 DEF EmitTestOutputReport, RingTypeOK, Rumble
        <3>2. ring' \in Seq(Rumble) /\ answer' \in Ring!Answer
            BY <1>41, <3>1, SeqTypes
               DEF EmitTestOutputReport, Ring!Push, RingTypeOK, Ring!Answer
        <3> QED
            BY <3>1, <3>2 DEF RingTypeOK
    <2>2. MainTypeOK'
        BY <1>41 DEF EmitTestOutputReport, ConsoleLine, Ring!Push, Ring!Accepted, Ring!Overflow, MainTypeOK, MainPc, MainStep
    <2> QED
        BY <1>41, <2>1, <2>2, SameTypes DEF EmitTestOutputReport
<1>42. CASE EmitTestRumbleCommand
    <2>1. RingTypeOK'
        BY <1>42 DEF EmitTestRumbleCommand, ConsoleLine, WriteOutcomes, RingTypeOK, Rumble, Ring!Answer
    <2>2. MainTypeOK'
        BY <1>42 DEF EmitTestRumbleCommand, ConsoleLine, WriteOutcomes, MainTypeOK, MainPc, MainStep
    <2>3. OutTypeOK'
        <3>1. rumbles + 1 \in Rumble
            BY <1>42 DEF EmitTestRumbleCommand, RingTypeOK, Rumble
        <3>2. written' = written \/ written' = Append(written, rumbles + 1)
            BY <1>42 DEF EmitTestRumbleCommand, WriteOutcomes
        <3>3. written' \in Seq(Rumble)
            BY <3>1, <3>2, SeqTypes DEF OutTypeOK
        <3> QED
            BY <1>42, <3>3 DEF EmitTestRumbleCommand, OutTypeOK
    <2> QED
        BY <1>42, <2>1, <2>2, <2>3, SameTypes DEF EmitTestRumbleCommand
<1>43. CASE ReadEventFails
    <2>1. ReadTypeOK'
        BY <1>43 DEF ReadEventFails, ReadTypeOK, ReaderPc, Packet, NoPacket, Holding, ReaderStep
    <2> QED
        BY <1>43, <2>1, SameTypes DEF ReadEventFails, ReaderOnly
<1>44. CASE UNCHANGED vars
    BY <1>44, SameTypes DEF vars
<1> QED
    BY <1>1, <1>2, <1>3, <1>4, <1>5, <1>6, <1>7, <1>8, <1>9, <1>10, <1>11, <1>12, <1>13, <1>14, <1>15, <1>16, <1>17, <1>18, <1>19, <1>20, <1>21, <1>22, <1>23, <1>24, <1>25, <1>26, <1>27, <1>28, <1>29, <1>30, <1>31, <1>32, <1>33, <1>34, <1>35, <1>36, <1>37, <1>38, <1>39, <1>40, <1>41, <1>42, <1>43, <1>44
       DEF Next, MainNext, ReaderNext, OutputNext, EnvironmentNext

-----------------------------------------------------------------------------
\* Control holds at first: nothing has been started.
LEMMA ControlInit == Init => Control
BY DEF Init, Control, ReaderPhase, ConnectedPhase, DriverPhase, ProxyPhase, StreamSaysConnected,
       BeforeBluetooth, AfterBluetooth

\* Every step keeps Control: main() changes phase only as its threads let it.
LEMMA ControlStep ==
    ASSUME TypeOK, Control, [Next]_vars
    PROVE  Control'
<1> USE DEF Control, ReaderPhase, ConnectedPhase, DriverPhase, ProxyPhase, StreamSaysConnected,
            BeforeBluetooth, AfterBluetooth, TypeOK, MainTypeOK, BtTypeOK, MainPc,
            envVars, ringVars, mainVars, btVars, proxyVars, drvVars, readVars, outVars,
            MainStep, ReaderStep, ReaderOnly, OutputStep, OutputOnly
<1>1. CASE DriverStartSucceeds
    BY <1>1 DEF DriverStartSucceeds
<1>2. CASE DriverStartFails
    BY <1>2 DEF DriverStartFails
<1>3. CASE NoDriverNoFallback
    BY <1>3 DEF NoDriverNoFallback
<1>4. CASE WireServiceCallbacks
    BY <1>4 DEF WireServiceCallbacks
<1>5. CASE BluetoothStarts
    BY <1>5 DEF BluetoothStarts
<1>6. CASE BluetoothFails
    BY <1>6 DEF BluetoothFails
<1>7. CASE OnControllerConnected
    BY <1>7 DEF OnControllerConnected
<1>8. CASE ProxyStart
    BY <1>8 DEF ProxyStart
<1>9. CASE RunBackgroundLoopEnds
    BY <1>9 DEF RunBackgroundLoopEnds
<1>10. CASE ProxyStop
    BY <1>10 DEF ProxyStop
<1>11. CASE BluetoothStop
    BY <1>11 DEF BluetoothStop
<1>12. CASE BluetoothJoined
    BY <1>12 DEF BluetoothJoined, ReaderJoined
<1>13. CASE PipeStop
    BY <1>13 DEF PipeStop
<1>14. CASE DriverClose
    BY <1>14 DEF DriverClose
<1>15. CASE DriverJoined
    BY <1>15 DEF DriverJoined
<1>16. CASE ReadLoopEnds
    BY <1>16 DEF ReadLoopEnds
<1>17. CASE ReadStarts
    BY <1>17 DEF ReadStarts
<1>18. CASE ReadCompletes
    BY <1>18 DEF ReadCompletes
<1>19. CASE ReadAbandoned
    BY <1>19 DEF ReadAbandoned
<1>20. CASE CheckStillRunning
    BY <1>20 DEF CheckStillRunning
<1>21. CASE EmitInputReport
    BY <1>21 DEF EmitInputReport, HandlerTakes
<1>22. CASE SendInputReport
    BY <1>22 DEF SendInputReport
<1>23. CASE SubmitIoctl
    BY <1>23 DEF SubmitIoctl
<1>24. CASE PublishState
    BY <1>24 DEF PublishState
<1>25. CASE SendStatus
    BY <1>25 DEF SendStatus
<1>26. CASE ReadOutputLoopEnds
    BY <1>26 DEF ReadOutputLoopEnds
<1>27. CASE CopyDeviceHandle
    BY <1>27 DEF CopyDeviceHandle
<1>28. CASE ReadOutputReport
    BY <1>28 DEF ReadOutputReport
<1>29. CASE ReadOutputFails
    BY <1>29 DEF ReadOutputFails
<1>30. CASE CopyOutputHandler
    BY <1>30 DEF CopyOutputHandler
<1>31. CASE CheckManager
    BY <1>31 DEF CheckManager
<1>32. CASE UseManager
    BY <1>32 DEF UseManager
<1>33. CASE WriteStarts
    BY <1>33 DEF WriteStarts
<1>34. CASE WriteReturns
    BY <1>34 DEF WriteReturns
<1>35. CASE ControllerSends
    BY <1>35 DEF ControllerSends
<1>36. CASE ControllerLost
    BY <1>36 DEF ControllerLost
<1>37. CASE PipeStalls
    BY <1>37 DEF PipeStalls
<1>38. CASE PipeResumes
    BY <1>38 DEF PipeResumes
<1>39. CASE HandleUiShutdownCommand
    BY <1>39 DEF HandleUiShutdownCommand
<1>40. CASE RunConsoleLoopEnds
    BY <1>40 DEF RunConsoleLoopEnds
<1>41. CASE EmitTestOutputReport
    BY <1>41 DEF EmitTestOutputReport, ConsoleLine
<1>42. CASE EmitTestRumbleCommand
    BY <1>42 DEF EmitTestRumbleCommand, ConsoleLine
<1>43. CASE ReadEventFails
    BY <1>43 DEF ReadEventFails
<1>44. CASE UNCHANGED vars
    BY <1>44 DEF vars
<1> QED
    BY <1>1, <1>2, <1>3, <1>4, <1>5, <1>6, <1>7, <1>8, <1>9, <1>10, <1>11, <1>12, <1>13, <1>14, <1>15, <1>16, <1>17, <1>18, <1>19, <1>20, <1>21, <1>22, <1>23, <1>24, <1>25, <1>26, <1>27, <1>28, <1>29, <1>30, <1>31, <1>32, <1>33, <1>34, <1>35, <1>36, <1>37, <1>38, <1>39, <1>40, <1>41, <1>42, <1>43, <1>44
       DEF Next, MainNext, ReaderNext, OutputNext, EnvironmentNext
-----------------------------------------------------------------------------
(* The control of the three threads.                                       *)

\* Every variable keeps its type, whatever main() and its two threads do and however the
\* environment comes in between (main.cpp:236-329).
THEOREM TypeCorrect == Spec => []TypeOK
<1>1. TypeOK /\ [Next]_vars => TypeOK'
    BY TypeStep
<1> QED
    BY TypeInit, <1>1, PTL DEF Spec

\* The phases of main() confine the two threads, their handles and the callbacks as Control
\* says: the inductive invariant (main.cpp:261-328, bluetooth_manager.cpp:49-86,
\* controller_proxy.cpp:17-35, driver_bridge_client.cpp:19-42).
THEOREM ControlHolds == Spec => []Control
<1>1. TypeOK /\ Control /\ [Next]_vars => Control'
    BY ControlStep
<1> QED
    BY ControlInit, <1>1, TypeCorrect, PTL DEF Spec

\* No status of the input stream says anything but Connected, although its thread runs
\* before main() sets the state (bluetooth_manager.cpp:59-69, main.cpp:89-96, 196-197).
THEOREM StreamConnected == Spec => []StreamSaysConnected
<1>1. Control => StreamSaysConnected
    BY DEF Control, ConnectedPhase
<1> QED
    BY <1>1, ControlHolds, PTL

\* The input thread never submits to a driver handle that main() has closed: it is joined
\* first (main.cpp:325-326, driver_bridge_client.cpp:54-77).
THEOREM DriverOpen == Spec => []SubmitsToOpenDriver
<1>1. TypeOK /\ Control => SubmitsToOpenDriver
    BY DEF TypeOK, MainTypeOK, MainPc, Control, ReaderPhase, DriverPhase, SubmitsToOpenDriver,
           BeforeBluetooth, AfterBluetooth
<1> QED
    BY <1>1, TypeCorrect, ControlHolds, PTL

\* No thread is left when main() destroys what it calls, on every way out of main()
\* (main.cpp:228-232, 306-309, 325-328).
THEOREM AllJoined == Spec => []ThreadsJoined
<1>1. Control => ThreadsJoined
    BY DEF Control, ReaderPhase, DriverPhase, ThreadsJoined, AfterBluetooth
<1> QED
    BY <1>1, ControlHolds, PTL

\* The input thread reads only an open handle: it is joined before the handle is closed
\* (bluetooth_manager.cpp:73-86).
THEOREM HandleOpen == Spec => []ReadsOpenHandle
<1>1. Control => ReadsOpenHandle
    BY DEF Control, ReaderPhase, ReadsOpenHandle, BeforeBluetooth, AfterBluetooth
<1> QED
    BY <1>1, ControlHolds, PTL

\* No output report is dropped by the proxy while the service runs: its handler and its
\* manager are set before and cleared after (controller_proxy.cpp:17-35, 68-76).
THEOREM NoDropWhileRunning == Spec => DropsOnlyAroundStartAndStop
<1>1. Control /\ [Next]_vars => [Drops => main # "run"]_vars
    <2> SUFFICES ASSUME Control, Next, Drops PROVE main # "run"
        BY DEF vars
    <2>1. ~DriverStartSucceeds
        BY DEF Drops, Control, DriverPhase, DriverStartSucceeds, MainStep
    <2>2. ~MainNext
        BY <2>1 DEF Drops, MainNext, DriverStartFails, NoDriverNoFallback,
               WireServiceCallbacks, BluetoothStarts, BluetoothFails, OnControllerConnected,
               ProxyStart, RunBackgroundLoopEnds, ProxyStop, BluetoothStop, BluetoothJoined,
               PipeStop, DriverClose, DriverJoined, outVars
    <2>3. ~ReaderNext
        BY DEF Drops, ReaderNext, ReadLoopEnds, ReadStarts, ReadCompletes, ReadAbandoned,
               CheckStillRunning, EmitInputReport, SendInputReport, SubmitIoctl, PublishState,
               SendStatus, ReaderOnly, outVars
    <2>4. ~EnvironmentNext
        BY DEF Drops, EnvironmentNext, ControllerSends, ControllerLost, PipeStalls, PipeResumes,
               HandleUiShutdownCommand, ReadEventFails, RunConsoleLoopEnds,
               EmitTestOutputReport, EmitTestRumbleCommand, ReaderOnly, outVars
    <2>5. CopyOutputHandler \/ CheckManager
        BY <2>2, <2>3, <2>4
           DEF Drops, Next, OutputNext, ReadOutputLoopEnds, CopyDeviceHandle, ReadOutputReport,
               ReadOutputFails, UseManager, WriteStarts, WriteReturns, OutputStep
    <2> QED
        BY <2>5 DEF Drops, Control, ProxyPhase, CopyOutputHandler, CheckManager, OutputStep
<1> QED
    BY <1>1, ControlHolds, PTL DEF Spec, DropsOnlyAroundStartAndStop
-----------------------------------------------------------------------------
(* The order of what is forwarded.                                         *)

\* Where the elements of a shortened or lengthened sequence come from.
LEMMA Elements ==
    ASSUME NEW S, NEW s \in Seq(S)
    PROVE  /\ Len(s) \in Nat
           /\ \A i \in 1 .. Len(s) : s[i] \in S
           /\ s # <<>> => /\ Len(s) > 0
                          /\ Head(s) = s[1]
                          /\ Len(Tail(s)) = Len(s) - 1
                          /\ \A i \in 1 .. Len(Tail(s)) : Tail(s)[i] = s[i + 1]
           /\ \A e \in S : /\ Len(Append(s, e)) = Len(s) + 1
                          /\ \A i \in 1 .. Len(s) : Append(s, e)[i] = s[i]
                          /\ Append(s, e)[Len(s) + 1] = e
BY HeadTailProperties, AppendProperties

\* Packets are numbered.
LEMMA PacketNumbers ==
    ASSUME TypeOK
    PROVE  /\ \A p \in Packet : p.n \in Nat /\ p.n >= 1
           /\ packet.n \in Nat
           /\ sent \in Nat
           /\ inbox \in Seq(Packet) /\ delivered \in Seq(Packet)
           /\ reader \in Holding => packet \in Packet
BY BridgeAssumption DEF TypeOK, ReadTypeOK, EnvTypeOK, Packet, NoPacket

\* InputOrder holds at first.
LEMMA InputOrderInit == Init => InputOrder
BY DEF Init, InputOrder, DeliveredInOrder, NoPacket

\* A step that only moves the input thread on, with what it holds, keeps InputOrder.
LEMMA InputQuiet ==
    ASSUME InputOrder, UNCHANGED <<inbox, sent, packet, delivered>>,
           reader' \in Undelivered => reader \in Undelivered,
           reader' \in {"submit", "ioctl"} => packet.valid
    PROVE  InputOrder'
BY DEF InputOrder, DeliveredInOrder

\* A packet is handed on, or let go of.
LEMMA InputPacketGone ==
    ASSUME TypeOK, InputOrder, UNCHANGED <<inbox, sent, delivered>>,
           packet' = NoPacket, reader' = "loop"
    PROVE  InputOrder'
BY PacketNumbers, Elements DEF InputOrder, DeliveredInOrder, NoPacket, Undelivered

\* The packet in hand is accepted by the virtual controller.
LEMMA InputDelivered ==
    ASSUME TypeOK, InputOrder, UNCHANGED <<inbox, sent, packet>>,
           reader \in {"submit", "ioctl"}, reader' = "publish",
           delivered' = Append(delivered, packet)
    PROVE  InputOrder'
<1>1. packet \in Packet /\ packet.valid /\ packet.n \in Nat /\ Len(delivered) \in Nat
    BY PacketNumbers, Elements DEF InputOrder, Holding
<1>2. /\ Len(delivered') = Len(delivered) + 1
      /\ \A i \in 1 .. Len(delivered) : delivered'[i] = delivered[i]
      /\ delivered'[Len(delivered) + 1] = packet
    BY <1>1, PacketNumbers, Elements
<1>3. \A i \in 1 .. Len(delivered) : delivered[i].n < packet.n
    BY DEF InputOrder, Undelivered
<1>4. DeliveredInOrder'
    BY <1>1, <1>2, <1>3 DEF InputOrder, DeliveredInOrder
<1> QED
    BY <1>1, <1>2, <1>3, <1>4 DEF InputOrder, Undelivered

\* The buffer goes with the device.
LEMMA InputForgotten ==
    ASSUME InputOrder, UNCHANGED <<sent, packet, delivered, reader>>, inbox' = <<>>
    PROVE  InputOrder'
BY DEF InputOrder, DeliveredInOrder, Undelivered

\* The oldest buffered report is lost to an abandoned read.
LEMMA InputDropped ==
    ASSUME TypeOK, InputOrder, UNCHANGED <<sent, packet, delivered>>,
           reader' \notin Undelivered, inbox # <<>>, inbox' = Tail(inbox)
    PROVE  InputOrder'
<1>1. /\ Len(inbox) \in Nat /\ Len(inbox') = Len(inbox) - 1
      /\ \A i \in 1 .. Len(inbox') : inbox'[i] = inbox[i + 1]
    BY PacketNumbers, Elements
<1> QED
    BY <1>1 DEF InputOrder, DeliveredInOrder, Undelivered

\* The oldest buffered report is taken in hand.
LEMMA InputRead ==
    ASSUME TypeOK, InputOrder, UNCHANGED <<sent, delivered>>, reader' = "woken",
           inbox # <<>>, packet' = Head(inbox), inbox' = Tail(inbox)
    PROVE  InputOrder'
<1>1. /\ Len(inbox) \in Nat /\ Len(inbox) > 0 /\ Len(inbox') = Len(inbox) - 1
      /\ \A i \in 1 .. Len(inbox') : inbox'[i] = inbox[i + 1]
      /\ packet' = inbox[1]
    BY PacketNumbers, Elements
<1>2. 1 \in 1 .. Len(inbox) /\ \A i \in 1 .. Len(inbox') : i + 1 \in 1 .. Len(inbox) /\ 1 < i + 1
    BY <1>1
<1> QED
    BY <1>1, <1>2 DEF InputOrder, DeliveredInOrder

\* A report arrives behind all that went before; the oldest may have to make room.
LEMMA InputSent ==
    ASSUME TypeOK, InputOrder, UNCHANGED <<packet, delivered, reader>>, sent' = sent + 1,
           NEW p \in Packet, p.n = sent + 1,
           inbox' = inbox \/ inbox' = Append(inbox, p) \/ inbox' = Tail(Append(inbox, p))
    PROVE  InputOrder'
<1> DEFINE all == Append(inbox, p)
<1>1. /\ sent \in Nat /\ Len(inbox) \in Nat
      /\ Len(all) = Len(inbox) + 1
      /\ \A i \in 1 .. Len(inbox) : all[i] = inbox[i]
      /\ all[Len(inbox) + 1] = p
      /\ all \in Seq(Packet) /\ all # <<>>
      /\ packet.n \in Nat
      /\ \A i \in 1 .. Len(inbox) : inbox[i].n \in Nat
      /\ \A i \in 1 .. Len(delivered) : delivered[i].n \in Nat
    <2>1. inbox \in Seq(Packet) /\ delivered \in Seq(Packet) /\ sent \in Nat /\ packet.n \in Nat
        BY PacketNumbers
    <2>2. /\ Len(inbox) \in Nat
          /\ Len(all) = Len(inbox) + 1
          /\ \A i \in 1 .. Len(inbox) : all[i] = inbox[i]
          /\ all[Len(inbox) + 1] = p
        BY <2>1, Elements
    <2>3. all \in Seq(Packet) /\ all # <<>>
        BY <2>1, <2>2, SeqTypes
    <2>4. /\ \A i \in 1 .. Len(inbox) : inbox[i].n \in Nat
          /\ \A i \in 1 .. Len(delivered) : delivered[i].n \in Nat
        BY <2>1, PacketNumbers, Elements
    <2> QED
        BY <2>1, <2>2, <2>3, <2>4
<1> HIDE DEF all
<1>2. /\ Len(Tail(all)) = Len(inbox)
      /\ \A i \in 1 .. Len(Tail(all)) : Tail(all)[i] = all[i + 1]
    BY <1>1, Elements
<1>3. CASE inbox' = inbox
    BY <1>1, <1>3 DEF InputOrder, DeliveredInOrder
<1>4. /\ \A i, j \in 1 .. Len(all) : i < j => all[i].n < all[j].n
      /\ \A i \in 1 .. Len(all) : all[i].n <= sent + 1 /\ packet.n < all[i].n
      /\ \A i \in 1 .. Len(delivered), j \in 1 .. Len(all) : delivered[i].n < all[j].n
    <2>1. \A i \in 1 .. Len(all) : \/ i \in 1 .. Len(inbox) /\ all[i] = inbox[i]
                                   \/ i = Len(inbox) + 1 /\ all[i].n = sent + 1
        BY <1>1
    <2>2. \A i, j \in 1 .. Len(all) : i < j => all[i].n < all[j].n
        BY <1>1, <2>1 DEF InputOrder
    <2>3. \A i \in 1 .. Len(all) : all[i].n <= sent + 1 /\ packet.n < all[i].n
        BY <1>1, <2>1 DEF InputOrder
    <2>4. \A i \in 1 .. Len(delivered), j \in 1 .. Len(all) : delivered[i].n < all[j].n
        BY <1>1, <2>1 DEF InputOrder
    <2> QED
        BY <2>2, <2>3, <2>4
<1>5. /\ DeliveredInOrder'
      /\ packet'.n <= sent'
      /\ \A i \in 1 .. Len(delivered') :
            /\ delivered'[i].n <= sent'
            /\ reader' \in Undelivered => delivered'[i].n < packet'.n
      /\ reader' \in {"submit", "ioctl"} => packet'.valid
    BY <1>1 DEF InputOrder, DeliveredInOrder
<1>6. CASE inbox' = all
    BY <1>4, <1>5, <1>6 DEF InputOrder
<1>7. CASE inbox' = Tail(all)
    <2>1. \A i \in 1 .. Len(inbox') : inbox'[i] = all[i + 1] /\ i + 1 \in 1 .. Len(all)
        BY <1>1, <1>2, <1>7
    <2>2. \A i, j \in 1 .. Len(inbox') : i < j => inbox'[i].n < inbox'[j].n
        <3>1. \A i, j \in 1 .. Len(inbox') : i < j => i + 1 < j + 1
            BY <1>1, <1>2, <1>7
        <3> QED
            BY <1>4, <2>1, <3>1
    <2>3. \A i \in 1 .. Len(inbox') : inbox'[i].n <= sent + 1 /\ packet.n < inbox'[i].n
        BY <1>4, <2>1
    <2>4. \A i \in 1 .. Len(delivered), j \in 1 .. Len(inbox') : delivered[i].n < inbox'[j].n
        BY <1>4, <2>1
    <2> QED
        BY <1>5, <2>2, <2>3, <2>4 DEF InputOrder
<1> QED
    BY <1>3, <1>6, <1>7 DEF all

\* Every step keeps InputOrder: each is one of the cases above.
LEMMA InputOrderStep ==
    ASSUME TypeOK, Control, InputOrder, [Next]_vars
    PROVE  InputOrder'
<1>1. CASE MainNext
    <2>1. CASE BluetoothStarts
        BY <2>1, InputQuiet DEF BluetoothStarts, envVars, Undelivered
    <2>2. CASE BluetoothJoined
        <3>1. UNCHANGED <<sent, packet, delivered, reader>> /\ inbox' = <<>>
            BY <2>2 DEF BluetoothJoined, readVars
        <3> QED
            BY <3>1, InputForgotten
    <2>3. CASE ~BluetoothStarts /\ ~BluetoothJoined
        <3>1. UNCHANGED <<inbox, sent, packet, delivered, reader>>
            BY <1>1, <2>3
               DEF MainNext, DriverStartSucceeds, DriverStartFails, NoDriverNoFallback,
                   WireServiceCallbacks, BluetoothFails, OnControllerConnected, ProxyStart,
                   RunBackgroundLoopEnds, ProxyStop, BluetoothStop, PipeStop, DriverClose,
                   DriverJoined, envVars, readVars
        <3> QED
            BY <3>1, InputQuiet DEF InputOrder
    <2> QED
        BY <2>1, <2>2, <2>3
<1>2. CASE ReadLoopEnds \/ ReadEventFails \/ ReadStarts \/ PublishState
    <2>1. UNCHANGED <<inbox, sent, packet, delivered>> /\ reader' \in {"done", "wait", "status"}
        BY <1>2 DEF ReadLoopEnds, ReadEventFails, ReadStarts, PublishState, ReaderStep,
                    ReaderOnly, envVars
    <2> QED
        BY <2>1, InputQuiet DEF Undelivered
<1>3. CASE ReadCompletes
    BY <1>3, InputRead DEF ReadCompletes, ReaderStep
<1>4. CASE ReadAbandoned
    <2>1. UNCHANGED <<sent, packet, delivered>> /\ reader' = "loop"
        BY <1>4 DEF ReadAbandoned, ReaderStep
    <2>2. CASE inbox' = inbox
        BY <2>1, <2>2, InputQuiet DEF Undelivered
    <2>3. CASE inbox # <<>> /\ inbox' = Tail(inbox)
        BY <2>1, <2>3, InputDropped DEF Undelivered
    <2> QED
        BY <1>4, <2>2, <2>3 DEF ReadAbandoned
<1>5. CASE CheckStillRunning \/ EmitInputReport \/ SendStatus
    <2>1. UNCHANGED <<inbox, sent, delivered>>
        BY <1>5 DEF CheckStillRunning, EmitInputReport, SendStatus, ReaderOnly, envVars
    <2>2. CASE reader' = "loop"
        BY <1>5, <2>1, <2>2, InputPacketGone DEF CheckStillRunning, EmitInputReport, SendStatus
    <2>3. CASE reader' # "loop"
        <3>1. /\ packet' = packet /\ reader \in Undelivered
              /\ reader' \in {"submit", "ioctl"} => packet.valid
            BY <1>5, <2>3
               DEF CheckStillRunning, EmitInputReport, HandlerTakes, SendStatus, ReaderStep,
                   Undelivered
        <3> QED
            BY <2>1, <3>1, InputQuiet
    <2> QED
        BY <2>2, <2>3
<1>6. CASE SendInputReport \/ SubmitIoctl
    <2>1. UNCHANGED <<inbox, sent, packet>> /\ reader \in {"submit", "ioctl"}
        BY <1>6 DEF SendInputReport, SubmitIoctl, ReaderStep, ReaderOnly, envVars
    <2>2. \/ delivered' = delivered
          \/ delivered' = Append(delivered, packet) /\ reader' = "publish"
        BY <1>6 DEF SendInputReport, SubmitIoctl, ReaderStep
    <2>3. packet.valid
        BY <2>1 DEF InputOrder
    <2>4. CASE delivered' = delivered
        BY <2>1, <2>3, <2>4, InputQuiet DEF Undelivered
    <2>5. CASE delivered' = Append(delivered, packet) /\ reader' = "publish"
        BY <2>1, <2>5, InputDelivered
    <2> QED
        BY <2>2, <2>4, <2>5
<1>7. CASE ControllerSends
    <2>1. PICK ok \in BOOLEAN :
             \/ inbox' = inbox
             \/ inbox' = Append(inbox, [n |-> sent + 1, valid |-> ok])
             \/ inbox' = Tail(Append(inbox, [n |-> sent + 1, valid |-> ok]))
        BY <1>7 DEF ControllerSends
    <2>2. [n |-> sent + 1, valid |-> ok] \in Packet /\ [n |-> sent + 1, valid |-> ok].n = sent + 1
        BY <1>7, BridgeAssumption DEF ControllerSends, Packet, TypeOK, EnvTypeOK
    <2> QED
        BY <1>7, <2>1, <2>2, InputSent DEF ControllerSends, readVars
<1>8. CASE ControllerLost
    <2>1. UNCHANGED <<sent, packet, delivered, reader>> /\ inbox' = <<>>
        BY <1>8 DEF ControllerLost, readVars
    <2> QED
        BY <2>1, InputForgotten
<1>9. CASE \/ OutputNext \/ PipeStalls \/ PipeResumes \/ HandleUiShutdownCommand
           \/ RunConsoleLoopEnds \/ EmitTestOutputReport \/ EmitTestRumbleCommand
           \/ UNCHANGED vars
    <2>1. UNCHANGED <<inbox, sent, packet, delivered, reader>>
        BY <1>9
           DEF OutputNext, ReadOutputLoopEnds, CopyDeviceHandle, ReadOutputReport,
               ReadOutputFails, CopyOutputHandler, CheckManager, UseManager, WriteStarts,
               WriteReturns, OutputOnly, PipeStalls, PipeResumes, HandleUiShutdownCommand,
               RunConsoleLoopEnds, EmitTestOutputReport, EmitTestRumbleCommand, envVars,
               readVars, vars
    <2> QED
        BY <2>1, InputQuiet DEF InputOrder
<1> QED
    BY <1>1, <1>2, <1>3, <1>4, <1>5, <1>6, <1>7, <1>8, <1>9
       DEF Next, ReaderNext, EnvironmentNext

\* The virtual controller gets valid packets only, each at most once and in order, however
\* many there are and whatever reads are abandoned (bluetooth_manager.cpp:232-266).
THEOREM InputInOrder == Spec => []DeliveredInOrder
<1>1. TypeOK /\ Control /\ InputOrder /\ [Next]_vars => InputOrder'
    BY InputOrderStep
<1>2. InputOrder => DeliveredInOrder
    BY DEF InputOrder
<1> QED
    BY InputOrderInit, <1>1, <1>2, TypeCorrect, ControlHolds, PTL DEF Spec


\* Output reports are numbered.
LEMMA RumbleNumbers ==
    ASSUME TypeOK
    PROVE  /\ \A r \in Rumble : r \in Int /\ r >= 0
           /\ report \in Int /\ rumbles \in Int /\ rumbles >= 0
           /\ ring \in Seq(Rumble) /\ written \in Seq(Rumble)
           /\ output \in Unwritten => report \in Rumble
BY BridgeAssumption DEF TypeOK, RingTypeOK, OutTypeOK, Rumble, NoRumble

\* OutputOrder holds at first.
LEMMA OutputOrderInit == Init => OutputOrder
<1> SUFFICES ASSUME Init PROVE OutputOrder
    OBVIOUS
<1>1. /\ ring \in {<<>>, <<0>>} /\ rumbles = 0 /\ report = NoRumble /\ written = <<>>
      /\ output = "off"
    BY DEF Init
<1>2. CASE ring = <<>>
    BY <1>1, <1>2, BridgeAssumption DEF OutputOrder, WrittenInOrder, NoRumble
<1>3. CASE ring = <<0>>
    BY <1>1, <1>3, BridgeAssumption DEF OutputOrder, WrittenInOrder, NoRumble
<1> QED
    BY <1>1, <1>2, <1>3

\* A step that only moves the output thread on, with what it holds, keeps OutputOrder.
LEMMA OutputQuiet ==
    ASSUME OutputOrder, UNCHANGED <<ring, rumbles, report, written>>,
           output' \in Unwritten => output \in Unwritten,
           bridge_mode' = "driver" => bridge_mode = "driver" \/ written = <<>>,
           main' # "driverStart"
    PROVE  OutputOrder'
BY DEF OutputOrder, WrittenInOrder

\* A report is handed on, or let go of.
LEMMA OutputGone ==
    ASSUME TypeOK, OutputOrder, UNCHANGED <<ring, rumbles, written, bridge_mode, main>>,
           report' = NoRumble, output' = "loop"
    PROVE  OutputOrder'
BY RumbleNumbers, Elements DEF OutputOrder, WrittenInOrder, NoRumble, Unwritten

\* The report in hand reaches the controller.
LEMMA OutputWritten ==
    ASSUME TypeOK, Control, OutputOrder, UNCHANGED <<ring, rumbles, bridge_mode, main>>,
           output = "writing", output' = "loop", report' = NoRumble,
           written' = Append(written, report)
    PROVE  OutputOrder'
<1>1. report \in Rumble /\ report \in Int /\ Len(written) \in Nat
    BY RumbleNumbers, Elements DEF Unwritten
<1>2. /\ Len(written') = Len(written) + 1
      /\ written'[Len(written) + 1] = report
      /\ \A i \in 1 .. Len(written) : written'[i] = written[i]
    BY <1>1, RumbleNumbers, Elements
<1>3. \A i \in 1 .. Len(written) : written[i] < report
    BY DEF OutputOrder, Unwritten
<1>4. WrittenInOrder'
    BY <1>1, <1>2, <1>3 DEF OutputOrder, WrittenInOrder
<1>5. \A i \in 1 .. Len(written') :
         written'[i] <= rumbles /\ \A j \in 1 .. Len(ring) :
                                      bridge_mode = "driver" => written'[i] < ring[j]
    BY <1>1, <1>2 DEF OutputOrder
<1>6. main # "driverStart"
    BY DEF Control, DriverPhase
<1>7. \A i \in 1 .. Len(ring) : ring[i] \in Int /\ ring[i] >= 0
    BY RumbleNumbers, Elements
<1> QED
    BY <1>1, <1>4, <1>5, <1>6, <1>7, RumbleNumbers DEF OutputOrder, Unwritten, NoRumble

\* The oldest report of the ring is taken in hand.
LEMMA OutputPopped ==
    ASSUME TypeOK, Control, OutputOrder, UNCHANGED <<rumbles, written, bridge_mode, main>>,
           output = "ioctl", ring # <<>>, ring' = Tail(ring), report' = Head(ring)
    PROVE  OutputOrder'
<1>1. /\ Len(ring) \in Nat /\ Len(ring) > 0 /\ Len(ring') = Len(ring) - 1
      /\ \A i \in 1 .. Len(ring') : ring'[i] = ring[i + 1]
      /\ report' = ring[1]
    BY RumbleNumbers, Elements
<1>2. 1 \in 1 .. Len(ring) /\ \A i \in 1 .. Len(ring') : i + 1 \in 1 .. Len(ring) /\ 1 < i + 1
    BY <1>1
<1>3. bridge_mode = "driver" /\ main # "driverStart"
    BY DEF Control, DriverPhase
<1>4. RingSize \in Nat
    BY BridgeAssumption
<1> QED
    BY <1>1, <1>2, <1>3, <1>4 DEF OutputOrder, WrittenInOrder

\* A report is pushed behind all that went before, unless the ring is full.
LEMMA OutputPushed ==
    ASSUME TypeOK, OutputOrder, UNCHANGED <<report, written, output, bridge_mode>>,
           main' # "driverStart", rumbles' = rumbles + 1, rumbles + 1 \in Rumble,
           Ring!Push(rumbles + 1)
    PROVE  OutputOrder'
<1>1. /\ rumbles \in Int /\ report \in Int /\ Len(ring) \in Nat
      /\ \A i \in 1 .. Len(ring) : ring[i] \in Int
      /\ \A i \in 1 .. Len(written) : written[i] \in Int
    BY RumbleNumbers, Elements
<1>2. /\ \A i, j \in 1 .. Len(ring) : i < j => ring[i] < ring[j]
      /\ \A i \in 1 .. Len(ring) : ring[i] <= rumbles /\ report < ring[i]
      /\ report <= rumbles
      /\ \A i \in 1 .. Len(written) :
            /\ written[i] <= rumbles
            /\ bridge_mode = "driver" => \A j \in 1 .. Len(ring) : written[i] < ring[j]
    BY DEF OutputOrder
<1>3. CASE Len(ring) < RingSize /\ ring' = Append(ring, rumbles + 1)
    <2>1. /\ Len(ring') = Len(ring) + 1
          /\ ring'[Len(ring) + 1] = rumbles + 1
          /\ \A i \in 1 .. Len(ring) : ring'[i] = ring[i]
        BY <1>3, RumbleNumbers, Elements
    <2>2. \A i \in 1 .. Len(ring') : \/ i \in 1 .. Len(ring) /\ ring'[i] = ring[i]
                                     \/ i = Len(ring) + 1 /\ ring'[i] = rumbles + 1
        BY <1>1, <2>1
    <2>3. \A i, j \in 1 .. Len(ring') : i < j => ring'[i] < ring'[j]
        BY <1>1, <1>2, <2>2
    <2>4. \A i \in 1 .. Len(ring') : ring'[i] <= rumbles' /\ report' < ring'[i]
        BY <1>1, <1>2, <2>2
    <2>5. \A i \in 1 .. Len(written), j \in 1 .. Len(ring') :
             bridge_mode = "driver" => written[i] < ring'[j]
        BY <1>1, <1>2, <2>2
    <2>6. Len(ring') <= RingSize
        BY <1>1, <1>3, <2>1, BridgeAssumption
    <2> QED
        BY <1>1, <2>3, <2>4, <2>5, <2>6 DEF OutputOrder, WrittenInOrder
<1>4. CASE ring' = ring
    BY <1>1, <1>4 DEF OutputOrder, WrittenInOrder
<1> QED
    BY <1>3, <1>4 DEF Ring!Push

\* With the fallback, the newest report may be written at once.
LEMMA OutputDirect ==
    ASSUME TypeOK, Control, OutputOrder, UNCHANGED <<report, ring, output, bridge_mode>>,
           main' # "driverStart", rumbles' = rumbles + 1, rumbles + 1 \in Rumble,
           bridge_mode = "fallback",
           written' = written \/ written' = Append(written, rumbles + 1)
    PROVE  OutputOrder'
<1>1. /\ rumbles \in Int /\ report \in Int /\ Len(written) \in Nat
      /\ \A i \in 1 .. Len(ring) : ring[i] \in Int
      /\ \A i \in 1 .. Len(written) : written[i] \in Int
    BY RumbleNumbers, Elements
<1>2. output \notin Unwritten
    BY DEF Control, DriverPhase, Unwritten
<1>3. CASE written' = written
    BY <1>1, <1>2, <1>3 DEF OutputOrder, WrittenInOrder
<1>4. CASE written' = Append(written, rumbles + 1)
    <2>1. /\ Len(written') = Len(written) + 1
          /\ written'[Len(written) + 1] = rumbles + 1
          /\ \A i \in 1 .. Len(written) : written'[i] = written[i]
        BY <1>4, RumbleNumbers, Elements
    <2>2. \A i \in 1 .. Len(written') :
             \/ i \in 1 .. Len(written) /\ written'[i] = written[i] /\ written'[i] <= rumbles
             \/ i = Len(written) + 1 /\ written'[i] = rumbles + 1
        BY <1>1, <2>1 DEF OutputOrder
    <2>3. \A i \in 1 .. Len(written') : written'[i] <= rumbles'
        BY <1>1, <2>2
    <2>4. \A i, j \in 1 .. Len(written) : i < j => written[i] < written[j]
        BY DEF OutputOrder, WrittenInOrder
    <2>5. WrittenInOrder'
        BY <1>1, <2>2, <2>4 DEF WrittenInOrder
    <2> QED
        BY <1>1, <1>2, <2>3, <2>5 DEF OutputOrder
<1> QED
    BY <1>3, <1>4

\* Every step keeps OutputOrder: each is one of the cases above.
LEMMA OutputOrderStep ==
    ASSUME TypeOK, Control, OutputOrder, [Next]_vars
    PROVE  OutputOrder'
<1>1. CASE MainNext
    <2>1. UNCHANGED <<ring, rumbles, report, written>> /\ main' # "driverStart"
        BY <1>1
           DEF MainNext, DriverStartSucceeds, DriverStartFails, NoDriverNoFallback,
               WireServiceCallbacks, BluetoothStarts, BluetoothFails, OnControllerConnected,
               ProxyStart, RunBackgroundLoopEnds, ProxyStop, BluetoothStop, BluetoothJoined,
               PipeStop, DriverClose, DriverJoined, MainStep, ringVars, outVars
    <2>2. output' = output \/ output' = "loop"
        BY <1>1
           DEF MainNext, DriverStartSucceeds, DriverStartFails, NoDriverNoFallback,
               WireServiceCallbacks, BluetoothStarts, BluetoothFails, OnControllerConnected,
               ProxyStart, RunBackgroundLoopEnds, ProxyStop, BluetoothStop, BluetoothJoined,
               PipeStop, DriverClose, DriverJoined, outVars
    <2>3. bridge_mode' = "driver" => bridge_mode = "driver" \/ main = "driverStart"
        BY <1>1
           DEF MainNext, DriverStartSucceeds, DriverStartFails, NoDriverNoFallback,
               WireServiceCallbacks, BluetoothStarts, BluetoothFails, OnControllerConnected,
               ProxyStart, RunBackgroundLoopEnds, ProxyStop, BluetoothStop, BluetoothJoined,
               PipeStop, DriverClose, DriverJoined, MainStep
    <2>4. main = "driverStart" => written = <<>>
        BY DEF OutputOrder
    <2> QED
        BY <2>1, <2>2, <2>3, <2>4, OutputQuiet DEF Unwritten
<1>2. CASE ReadOutputLoopEnds \/ CopyDeviceHandle \/ ReadOutputFails \/ UseManager
    <2>1. UNCHANGED <<ring, rumbles, report, written, bridge_mode, main>>
        BY <1>2 DEF ReadOutputLoopEnds, CopyDeviceHandle, ReadOutputFails, UseManager,
                    OutputOnly, ringVars, mainVars
    <2>2. (output' \in Unwritten => output \in Unwritten) /\ output \in OutputPc \ {"off"}
        BY <1>2 DEF ReadOutputLoopEnds, CopyDeviceHandle, ReadOutputFails, UseManager,
                    OutputStep, Unwritten, OutputPc
    <2>3. main # "driverStart"
        BY <2>2 DEF Control, DriverPhase
    <2> QED
        BY <2>1, <2>2, <2>3, OutputQuiet
<1>3. CASE ReadOutputReport
    <2>1. UNCHANGED <<rumbles, written, bridge_mode, main>> /\ output = "ioctl"
        BY <1>3 DEF ReadOutputReport, OutputOnly, OutputStep, mainVars
    <2>2. CASE ring # <<>>
        BY <1>3, <2>1, <2>2, OutputPopped DEF ReadOutputReport, Ring!Pop, Ring!Handed
    <2>3. CASE ring = <<>>
        <3>1. ring' = ring /\ report' = report /\ output' = "loop"
            BY <1>3, <2>3 DEF ReadOutputReport, Ring!Pop, OutputStep
        <3>2. main # "driverStart"
            BY <2>1 DEF Control, DriverPhase
        <3> QED
            BY <2>1, <3>1, <3>2, OutputQuiet DEF Unwritten
    <2> QED
        BY <2>2, <2>3
<1>4. CASE CopyOutputHandler \/ CheckManager \/ WriteStarts
    <2>1. UNCHANGED <<ring, rumbles, written, bridge_mode, main>> /\ output \in Unwritten
        BY <1>4 DEF CopyOutputHandler, CheckManager, WriteStarts, OutputOnly, OutputStep,
                    ringVars, mainVars, Unwritten
    <2>2. CASE output' = "loop"
        BY <1>4, <2>1, <2>2, OutputGone DEF CopyOutputHandler, CheckManager, WriteStarts
    <2>3. CASE output' # "loop"
        <3>1. report' = report
            BY <1>4, <2>3 DEF CopyOutputHandler, CheckManager, WriteStarts
        <3>2. main # "driverStart"
            BY <2>1 DEF Control, DriverPhase, Unwritten
        <3> QED
            BY <2>1, <3>1, <3>2, OutputQuiet
    <2> QED
        BY <2>2, <2>3
<1>5. CASE WriteReturns
    <2>1. /\ UNCHANGED <<ring, rumbles, bridge_mode, main>>
          /\ output = "writing" /\ output' = "loop" /\ report' = NoRumble
        BY <1>5 DEF WriteReturns, OutputOnly, OutputStep, ringVars, mainVars
    <2>2. written' = written \/ written' = Append(written, report)
        BY <1>5 DEF WriteReturns
    <2> QED
        BY <2>1, <2>2, OutputGone, OutputWritten
<1>6. CASE EmitTestOutputReport
    <2>1. rumbles + 1 \in Rumble
        BY <1>6, BridgeAssumption DEF EmitTestOutputReport, Rumble, TypeOK, RingTypeOK
    <2>2. /\ UNCHANGED <<report, written, output, bridge_mode>>
          /\ main' # "driverStart" /\ rumbles' = rumbles + 1 /\ Ring!Push(rumbles + 1)
        BY <1>6 DEF EmitTestOutputReport, ConsoleLine, MainStep, outVars
    <2> QED
        BY <2>1, <2>2, OutputPushed
<1>7. CASE EmitTestRumbleCommand
    <2>1. rumbles + 1 \in Rumble
        BY <1>7, BridgeAssumption DEF EmitTestRumbleCommand, Rumble, TypeOK, RingTypeOK
    <2>2. /\ UNCHANGED <<report, ring, output, bridge_mode>> /\ bridge_mode = "fallback"
          /\ main' # "driverStart" /\ rumbles' = rumbles + 1
        BY <1>7 DEF EmitTestRumbleCommand, ConsoleLine, MainStep
    <2>3. written' = written \/ written' = Append(written, rumbles + 1)
        BY <1>7 DEF EmitTestRumbleCommand, WriteOutcomes
    <2> QED
        BY <2>1, <2>2, <2>3, OutputDirect
<1>8. CASE \/ ReaderNext \/ ReadEventFails \/ ControllerSends \/ ControllerLost \/ PipeStalls
           \/ PipeResumes \/ HandleUiShutdownCommand \/ RunConsoleLoopEnds \/ UNCHANGED vars
    <2>1. UNCHANGED <<ring, rumbles, report, written, output, bridge_mode>>
        BY <1>8
           DEF ReaderNext, ReadLoopEnds, ReadStarts, ReadCompletes, ReadAbandoned,
               CheckStillRunning, EmitInputReport, SendInputReport, SubmitIoctl, PublishState,
               SendStatus, ReadEventFails, ReaderOnly, ControllerSends, ControllerLost,
               PipeStalls, PipeResumes, HandleUiShutdownCommand, RunConsoleLoopEnds, ringVars,
               mainVars, outVars, vars
    <2>2. main' = main \/ main' # "driverStart"
        BY <1>8
           DEF ReaderNext, ReadLoopEnds, ReadStarts, ReadCompletes, ReadAbandoned,
               CheckStillRunning, EmitInputReport, SendInputReport, SubmitIoctl, PublishState,
               SendStatus, ReadEventFails, ReaderOnly, ControllerSends, ControllerLost,
               PipeStalls, PipeResumes, HandleUiShutdownCommand, RunConsoleLoopEnds, MainStep,
               mainVars, vars
    <2> QED
        BY <2>1, <2>2 DEF OutputOrder, WrittenInOrder
<1> QED
    BY <1>1, <1>2, <1>3, <1>4, <1>5, <1>6, <1>7, <1>8
       DEF Next, OutputNext, EnvironmentNext

\* The controller gets each output report at most once and in the order they were pushed,
\* for every ring and any number of reports (driver_bridge_client.cpp:188-207).
THEOREM OutputInOrder == Spec => []WrittenInOrder
<1>1. TypeOK /\ Control /\ OutputOrder /\ [Next]_vars => OutputOrder'
    BY OutputOrderStep
<1>2. OutputOrder => WrittenInOrder
    BY DEF OutputOrder
<1> QED
    BY OutputOrderInit, <1>1, <1>2, TypeCorrect, ControlHolds, PTL DEF Spec
=============================================================================
