------------------------- MODULE BridgeChannelProofs -------------------------
(***************************************************************************)
(* Each direction of the bridge implements Channel, for every number of    *)
(* reports and every size of the buffers in between.  The order invariants *)
(* of BridgeProofs say where a report can be; here every step is shown to  *)
(* be a step of the channel.                                               *)
(***************************************************************************)
EXTENDS BridgeProofs

-----------------------------------------------------------------------------
\* The numbers of a sequence of packets grow with the sequence.
LEMMA NumbersAppend ==
    ASSUME NEW s \in Seq(Packet), NEW p \in Packet
    PROVE  [i \in 1 .. Len(Append(s, p)) |-> Append(s, p)[i].n]
             = Append([i \in 1 .. Len(s) |-> s[i].n], p.n)
<1> DEFINE a == [i \in 1 .. Len(s) |-> s[i].n]
           b == [i \in 1 .. Len(Append(s, p)) |-> Append(s, p)[i].n]
<1>1. /\ Len(s) \in Nat /\ Len(Append(s, p)) = Len(s) + 1
      /\ \A i \in 1 .. Len(s) : Append(s, p)[i] = s[i] /\ s[i] \in Packet
      /\ Append(s, p)[Len(s) + 1] = p
    BY Elements
<1>2. p.n \in Nat /\ \A i \in 1 .. Len(s) : s[i].n \in Nat
    BY <1>1, BridgeAssumption DEF Packet
<1>3. a \in Seq(Nat) /\ Len(a) = Len(s)
    <2>1. a \in [1 .. Len(s) -> Nat] /\ DOMAIN a = 1 .. Len(s)
        BY <1>2
    <2>2. a \in Seq(Nat)
        BY <1>1, <2>1
    <2> QED
        BY <1>1, <2>1, <2>2, LenProperties
<1>4. /\ Append(a, p.n) \in Seq(Nat) /\ Len(Append(a, p.n)) = Len(s) + 1
      /\ \A i \in 1 .. Len(s) : Append(a, p.n)[i] = a[i]
      /\ Append(a, p.n)[Len(s) + 1] = p.n
    BY <1>1, <1>2, <1>3, AppendProperties
<1>5. Append(a, p.n) \in [1 .. Len(s) + 1 -> Nat]
    BY <1>4, LenProperties
<1>6. b = [i \in 1 .. Len(s) + 1 |-> Append(s, p)[i].n]
    BY <1>1
<1>7. \A i \in 1 .. Len(s) + 1 : Append(s, p)[i].n = Append(a, p.n)[i]
    BY <1>1, <1>4
<1> QED
    BY <1>5, <1>6, <1>7

-----------------------------------------------------------------------------
(* Input.                                                                  *)

\* A step after which no more is underway than before, and nothing has arrived.
LEMMA InputLoses ==
    ASSUME UNCHANGED <<sent, delivered>>, InputUnderway' \subseteq InputUnderway
    PROVE  InputChannel!Next
BY DEF InputChannel!Next, InputChannel!Lose, InputArrived

\* A step that only moves the input thread on, with what it holds.
LEMMA InputKeeps ==
    ASSUME UNCHANGED <<inbox, sent, packet, delivered>>,
           reader' \in Undelivered => reader \in Undelivered
    PROVE  InputChannel!Next
BY InputLoses DEF InputUnderway

\* The packet in hand is let go of, or the buffer is.
LEMMA InputLetsGo ==
    ASSUME UNCHANGED <<sent, delivered>>,
           \/ inbox' = inbox /\ reader' \notin Undelivered
           \/ inbox' = <<>> /\ UNCHANGED <<packet, reader>>
    PROVE  InputChannel!Next
BY InputLoses DEF InputUnderway

\* The oldest buffered report is lost, or taken in hand.
LEMMA InputTakes ==
    ASSUME TypeOK, UNCHANGED <<sent, delivered>>, inbox # <<>>, inbox' = Tail(inbox),
           \/ reader' \notin Undelivered
           \/ packet' = Head(inbox)
    PROVE  InputChannel!Next
<1>1. /\ Len(inbox) \in Nat /\ Len(inbox) > 0 /\ Len(inbox') = Len(inbox) - 1
      /\ \A i \in 1 .. Len(inbox') : inbox'[i] = inbox[i + 1]
      /\ Head(inbox) = inbox[1]
    BY PacketNumbers, Elements
<1>2. /\ \A i \in 1 .. Len(inbox') : i + 1 \in 1 .. Len(inbox)
      /\ 1 \in 1 .. Len(inbox)
    BY <1>1
<1>3. InputUnderway' \subseteq {inbox[i].n : i \in 1 .. Len(inbox)}
    BY <1>1, <1>2 DEF InputUnderway
<1> QED
    BY <1>3, InputLoses DEF InputUnderway

\* The virtual controller accepts the packet in hand, which is older than what is buffered.
LEMMA InputArrives ==
    ASSUME TypeOK, InputOrder, UNCHANGED <<inbox, sent, packet>>,
           reader \in {"submit", "ioctl"}, reader' = "publish",
           delivered' = Append(delivered, packet)
    PROVE  InputChannel!Next
<1>1. packet \in Packet /\ delivered \in Seq(Packet)
    BY PacketNumbers DEF Holding
<1>2. InputArrived' = Append(InputArrived, packet.n)
    BY <1>1, NumbersAppend DEF InputArrived
<1>3. packet.n \in InputUnderway
    BY DEF InputUnderway, Undelivered
<1>4. InputUnderway' = {inbox[i].n : i \in 1 .. Len(inbox)}
    BY DEF InputUnderway, Undelivered
<1>5. InputUnderway' \subseteq {j \in InputUnderway : j > packet.n}
    <2>1. \A i \in 1 .. Len(inbox) : inbox[i].n > packet.n
        <3>1. \A i \in 1 .. Len(inbox) : packet.n < inbox[i].n
            BY DEF InputOrder
        <3>2. \A i \in 1 .. Len(inbox) : inbox[i].n \in Nat
            BY PacketNumbers, Elements
        <3> QED
            BY <1>1, <3>1, <3>2, PacketNumbers
    <2> QED
        BY <1>4, <2>1 DEF InputUnderway
<1>6. InputChannel!Deliver(packet.n)
    BY <1>2, <1>5 DEF InputChannel!Deliver
<1> QED
    BY <1>3, <1>6 DEF InputChannel!Next

\* The controller sends a report, which may push the oldest buffered one out.
LEMMA InputSends ==
    ASSUME TypeOK, UNCHANGED <<packet, delivered, reader>>, sent' = sent + 1,
           NEW p \in Packet, p.n = sent + 1,
           inbox' = inbox \/ inbox' = Append(inbox, p) \/ inbox' = Tail(Append(inbox, p))
    PROVE  InputChannel!Next
<1> DEFINE all == Append(inbox, p)
<1>1. /\ Len(inbox) \in Nat
      /\ Len(all) = Len(inbox) + 1
      /\ \A i \in 1 .. Len(inbox) : all[i] = inbox[i]
      /\ all[Len(inbox) + 1] = p
      /\ all \in Seq(Packet) /\ all # <<>>
    BY PacketNumbers, Elements, SeqTypes
<1>2. /\ Len(Tail(all)) = Len(inbox)
      /\ \A i \in 1 .. Len(Tail(all)) : Tail(all)[i] = all[i + 1]
    BY <1>1, Elements
<1> HIDE DEF all
<1>3. \A i \in 1 .. Len(all) : \/ i \in 1 .. Len(inbox) /\ all[i] = inbox[i]
                               \/ all[i] = p
    BY <1>1
<1>4. \A i \in 1 .. Len(inbox') : \/ \E j \in 1 .. Len(inbox) : inbox'[i] = inbox[j]
                                  \/ inbox'[i] = p
    <2>1. CASE inbox' = inbox
        BY <2>1
    <2>2. CASE inbox' = all
        BY <1>3, <2>2
    <2>3. CASE inbox' = Tail(all)
        <3>1. \A i \in 1 .. Len(inbox') : inbox'[i] = all[i + 1] /\ i + 1 \in 1 .. Len(all)
            BY <1>1, <1>2, <2>3
        <3> QED
            BY <1>3, <3>1
    <2> QED
        BY <2>1, <2>2, <2>3 DEF all
<1>5. \A i \in 1 .. Len(inbox') :
         inbox'[i].n \in {inbox[j].n : j \in 1 .. Len(inbox)} \cup {sent + 1}
    BY <1>4
<1>6. InputUnderway' \subseteq InputUnderway \cup {sent + 1}
    BY <1>5 DEF InputUnderway
<1>7. InputChannel!Send
    BY <1>6 DEF InputChannel!Send, InputArrived
<1> QED
    BY <1>7 DEF InputChannel!Next

\* Nothing is underway at first.
LEMMA InputChannelInit == Init => InputChannel!Init
<1> SUFFICES ASSUME Init PROVE InputChannel!Init
    OBVIOUS
<1>1. inbox = <<>> /\ delivered = <<>> /\ reader = "off" /\ sent = 0
    BY DEF Init
<1>2. InputUnderway = {}
    BY <1>1 DEF InputUnderway, Undelivered
<1>3. InputArrived = <<>>
    BY <1>1 DEF InputArrived
<1> QED
    BY <1>1, <1>2, <1>3 DEF InputChannel!Init

\* Every step is one of the channel's, or changes nothing of it.
LEMMA InputChannelStep ==
    ASSUME TypeOK, InputOrder, [Next]_vars
    PROVE  [InputChannel!Next]_(InputChannel!vars)
<1>1. CASE MainNext
    <2>1. CASE BluetoothStarts
        BY <2>1, InputKeeps DEF BluetoothStarts, envVars, Undelivered
    <2>2. CASE BluetoothJoined
        BY <2>2, InputLetsGo DEF BluetoothJoined, readVars
    <2>3. CASE ~BluetoothStarts /\ ~BluetoothJoined
        <3>1. UNCHANGED <<inbox, sent, packet, delivered, reader>>
            BY <1>1, <2>3
               DEF MainNext, DriverStartSucceeds, DriverStartFails, NoDriverNoFallback,
                   WireServiceCallbacks, BluetoothFails, OnControllerConnected, ProxyStart,
                   RunBackgroundLoopEnds, ProxyStop, BluetoothStop, PipeStop, DriverClose,
                   DriverJoined, envVars, readVars
        <3> QED
            BY <3>1, InputKeeps
    <2> QED
        BY <2>1, <2>2, <2>3
<1>2. CASE ReadLoopEnds \/ ReadEventFails \/ ReadStarts \/ PublishState
    <2>1. UNCHANGED <<inbox, sent, packet, delivered>> /\ reader' \in {"done", "wait", "status"}
        BY <1>2 DEF ReadLoopEnds, ReadEventFails, ReadStarts, PublishState, ReaderStep,
                    ReaderOnly, envVars
    <2> QED
        BY <2>1, InputKeeps DEF Undelivered
<1>3. CASE ReadCompletes
    BY <1>3, InputTakes DEF ReadCompletes
<1>4. CASE ReadAbandoned
    <2>1. UNCHANGED <<sent, packet, delivered>> /\ reader' = "loop"
        BY <1>4 DEF ReadAbandoned, ReaderStep
    <2>2. CASE inbox' = inbox
        BY <2>1, <2>2, InputKeeps DEF Undelivered
    <2>3. CASE inbox # <<>> /\ inbox' = Tail(inbox)
        BY <2>1, <2>3, InputTakes DEF Undelivered
    <2> QED
        BY <1>4, <2>2, <2>3 DEF ReadAbandoned
<1>5. CASE CheckStillRunning \/ EmitInputReport \/ SendStatus
    <2>1. UNCHANGED <<inbox, sent, delivered>>
        BY <1>5 DEF CheckStillRunning, EmitInputReport, SendStatus, ReaderOnly, envVars
    <2>2. CASE reader' = "loop"
        BY <2>1, <2>2, InputLetsGo DEF Undelivered
    <2>3. CASE reader' # "loop"
        <3>1. packet' = packet /\ reader \in Undelivered
            BY <1>5, <2>3
               DEF CheckStillRunning, EmitInputReport, SendStatus, ReaderStep, Undelivered
        <3> QED
            BY <2>1, <3>1, InputKeeps
    <2> QED
        BY <2>2, <2>3
<1>6. CASE SendInputReport \/ SubmitIoctl
    <2>1. UNCHANGED <<inbox, sent, packet>> /\ reader \in {"submit", "ioctl"}
        BY <1>6 DEF SendInputReport, SubmitIoctl, ReaderStep, ReaderOnly, envVars
    <2>2. \/ delivered' = delivered
          \/ delivered' = Append(delivered, packet) /\ reader' = "publish"
        BY <1>6 DEF SendInputReport, SubmitIoctl, ReaderStep
    <2>3. CASE delivered' = delivered
        BY <2>1, <2>3, InputKeeps DEF Undelivered
    <2>4. CASE delivered' = Append(delivered, packet) /\ reader' = "publish"
        BY <2>1, <2>4, InputArrives
    <2> QED
        BY <2>2, <2>3, <2>4
<1>7. CASE ControllerSends
    <2>1. PICK ok \in BOOLEAN :
             \/ inbox' = inbox
             \/ inbox' = Append(inbox, [n |-> sent + 1, valid |-> ok])
             \/ inbox' = Tail(Append(inbox, [n |-> sent + 1, valid |-> ok]))
        BY <1>7 DEF ControllerSends
    <2>2. [n |-> sent + 1, valid |-> ok] \in Packet /\ [n |-> sent + 1, valid |-> ok].n = sent + 1
        BY <1>7, BridgeAssumption DEF ControllerSends, Packet, TypeOK, EnvTypeOK
    <2> QED
        BY <1>7, <2>1, <2>2, InputSends DEF ControllerSends, readVars
<1>8. CASE ControllerLost
    BY <1>8, InputLetsGo DEF ControllerLost, readVars
<1>9. CASE \/ OutputNext \/ PipeStalls \/ PipeResumes \/ HandleUiShutdownCommand
           \/ RunConsoleLoopEnds \/ EmitTestOutputReport \/ EmitTestRumbleCommand
           \/ UNCHANGED vars
    <2>1. UNCHANGED <<inbox, sent, packet, delivered, reader>>
        BY <1>9
           DEF OutputNext, ReadOutputLoopEnds, CopyDeviceHandle, ReadOutputReport,
               ReadOutputFails, CopyOutputHandler, CheckManager, UseManager, WriteStarts,
               WriteReturns, OutputOnly, PipeStalls, PipeResumes, HandleUiShutdownCommand,
               RunConsoleLoopEnds, EmitTestOutputReport, EmitTestRumbleCommand, envVars,
               readVars, vars
    <2> QED
        BY <2>1, InputKeeps
<1> QED
    BY <1>1, <1>2, <1>3, <1>4, <1>5, <1>6, <1>7, <1>8, <1>9
       DEF Next, ReaderNext, EnvironmentNext

\* The way from the controller to the virtual one loses reports and does nothing else to
\* them, whatever the buffer's size and however reads end (bluetooth_manager.cpp:232-266,
\* controller_proxy.cpp:47-55, driver_bridge_client.cpp:49-77).
THEOREM InputIsChannel == Spec => ImplementsInputChannel
<1>1. TypeOK /\ Control /\ InputOrder /\ [Next]_vars => InputOrder'
    BY InputOrderStep
<1>2. TypeOK /\ InputOrder /\ [Next]_vars => [InputChannel!Next]_(InputChannel!vars)
    BY InputChannelStep
<1> QED
    BY InputChannelInit, InputOrderInit, <1>1, <1>2, TypeCorrect, ControlHolds, PTL
       DEF Spec, ImplementsInputChannel, InputChannel!Spec

-----------------------------------------------------------------------------
(* Output.                                                                 *)

\* A step after which no more is underway than before, and nothing has arrived.
LEMMA OutputLoses ==
    ASSUME UNCHANGED <<rumbles, written>>, OutputUnderway' \subseteq OutputUnderway
    PROVE  OutputChannel!Next
BY DEF OutputChannel!Next, OutputChannel!Lose

\* A step that leaves the ring and the report in hand alone, or lets go of the latter, or
\* decides that the ring will not be read.
LEMMA OutputKeeps ==
    ASSUME UNCHANGED <<ring, rumbles, written>>,
           output' \in Unwritten => output \in Unwritten /\ report' = report,
           bridge_mode' = bridge_mode \/ bridge_mode # "fallback"
    PROVE  OutputChannel!Next
<1>1. RingUnderway' \subseteq RingUnderway
    BY DEF RingUnderway
<1> QED
    BY <1>1, OutputLoses DEF OutputUnderway

\* The oldest report of the ring is taken in hand.
LEMMA OutputTakes ==
    ASSUME TypeOK, UNCHANGED <<rumbles, written, bridge_mode>>, bridge_mode = "driver",
           ring # <<>>, ring' = Tail(ring), report' = Head(ring)
    PROVE  OutputChannel!Next
<1>1. /\ Len(ring) \in Nat /\ Len(ring) > 0 /\ Len(ring') = Len(ring) - 1
      /\ \A i \in 1 .. Len(ring') : ring'[i] = ring[i + 1]
      /\ report' = ring[1]
    BY RumbleNumbers, Elements
<1>2. 1 \in 1 .. Len(ring) /\ \A i \in 1 .. Len(ring') : i + 1 \in 1 .. Len(ring)
    BY <1>1
<1>3. OutputUnderway' \subseteq RingUnderway
    BY <1>1, <1>2 DEF OutputUnderway, RingUnderway
<1> QED
    BY <1>3, OutputLoses DEF OutputUnderway

\* The report in hand, which is older than what is in the ring, reaches the controller.
LEMMA OutputArrives ==
    ASSUME TypeOK, OutputOrder, UNCHANGED <<ring, rumbles, bridge_mode>>,
           output = "writing", output' = "loop", written' = Append(written, report)
    PROVE  OutputChannel!Next
<1>1. report \in OutputUnderway
    BY DEF OutputUnderway, Unwritten
<1>2. OutputUnderway' = RingUnderway
    BY DEF OutputUnderway, RingUnderway, Unwritten
<1>3. \A k \in RingUnderway : k > report
    <2>1. \A i \in 1 .. Len(ring) : report < ring[i] /\ ring[i] \in Int /\ report \in Int
        BY RumbleNumbers, Elements DEF OutputOrder
    <2>2. \A i \in 1 .. Len(ring) : ring[i] > report
        BY <2>1
    <2> QED
        BY <2>2 DEF RingUnderway
<1>4. OutputChannel!Deliver(report)
    BY <1>2, <1>3 DEF OutputChannel!Deliver, OutputUnderway
<1> QED
    BY <1>1, <1>4 DEF OutputChannel!Next

\* A report is pushed into the ring, or refused.
LEMMA OutputSends ==
    ASSUME TypeOK, UNCHANGED <<report, written, output, bridge_mode>>,
           rumbles' = rumbles + 1, rumbles + 1 \in Rumble, Ring!Push(rumbles + 1)
    PROVE  OutputChannel!Next
<1>1. RingUnderway' \subseteq RingUnderway \cup {rumbles + 1}
    <2>1. CASE ring' = ring
        BY <2>1 DEF RingUnderway
    <2>2. CASE ring' = Append(ring, rumbles + 1)
        <3>1. /\ Len(ring) \in Nat /\ Len(ring') = Len(ring) + 1
              /\ ring'[Len(ring) + 1] = rumbles + 1
              /\ \A i \in 1 .. Len(ring) : ring'[i] = ring[i]
            BY <2>2, RumbleNumbers, Elements
        <3>2. \A i \in 1 .. Len(ring') : \/ i \in 1 .. Len(ring) /\ ring'[i] = ring[i]
                                         \/ ring'[i] = rumbles + 1
            BY <3>1
        <3> QED
            BY <3>2 DEF RingUnderway
    <2> QED
        BY <2>1, <2>2 DEF Ring!Push
<1>2. OutputUnderway' \subseteq OutputUnderway \cup {rumbles + 1}
    BY <1>1 DEF OutputUnderway
<1>3. OutputChannel!Send
    BY <1>2 DEF OutputChannel!Send
<1> QED
    BY <1>3 DEF OutputChannel!Next

\* With the fallback nothing waits: a report is written at once or never.
LEMMA OutputHandsOver ==
    ASSUME Control, UNCHANGED <<output, bridge_mode>>, bridge_mode = "fallback",
           rumbles' = rumbles + 1,
           written' = written \/ written' = Append(written, rumbles + 1)
    PROVE  OutputChannel!Next
<1>1. output = "off"
    BY DEF Control, DriverPhase
<1>2. OutputUnderway' = {}
    BY <1>1 DEF OutputUnderway, RingUnderway, Unwritten
<1>3. CASE written' = written
    BY <1>2, <1>3 DEF OutputChannel!Next, OutputChannel!Send
<1>4. CASE written' = Append(written, rumbles + 1)
    BY <1>2, <1>4 DEF OutputChannel!Next, OutputChannel!HandOver
<1> QED
    BY <1>3, <1>4

\* At first the ring may hold one report of before.
LEMMA OutputChannelInit == Init => OutputChannel!Init
<1> SUFFICES ASSUME Init PROVE OutputChannel!Init
    OBVIOUS
<1>1. /\ ring \in {<<>>, <<0>>} /\ rumbles = 0 /\ written = <<>> /\ output = "off"
    BY DEF Init
<1>2. RingUnderway \subseteq {0}
    BY <1>1 DEF RingUnderway
<1> QED
    BY <1>1, <1>2 DEF OutputChannel!Init, OutputUnderway, Unwritten

\* Every step is one of the channel's, or changes nothing of it.
LEMMA OutputChannelStep ==
    ASSUME TypeOK, Control, OutputOrder, [Next]_vars
    PROVE  [OutputChannel!Next]_(OutputChannel!vars)
<1>1. CASE MainNext
    <2>1. UNCHANGED <<ring, rumbles, report, written>>
        BY <1>1
           DEF MainNext, DriverStartSucceeds, DriverStartFails, NoDriverNoFallback,
               WireServiceCallbacks, BluetoothStarts, BluetoothFails, OnControllerConnected,
               ProxyStart, RunBackgroundLoopEnds, ProxyStop, BluetoothStop, BluetoothJoined,
               PipeStop, DriverClose, DriverJoined, ringVars, outVars
    <2>2. output' = output \/ output' = "loop"
        BY <1>1
           DEF MainNext, DriverStartSucceeds, DriverStartFails, NoDriverNoFallback,
               WireServiceCallbacks, BluetoothStarts, BluetoothFails, OnControllerConnected,
               ProxyStart, RunBackgroundLoopEnds, ProxyStop, BluetoothStop, BluetoothJoined,
               PipeStop, DriverClose, DriverJoined, outVars
    <2>3. bridge_mode' = bridge_mode \/ main = "driverStart"
        BY <1>1
           DEF MainNext, DriverStartSucceeds, DriverStartFails, NoDriverNoFallback,
               WireServiceCallbacks, BluetoothStarts, BluetoothFails, OnControllerConnected,
               ProxyStart, RunBackgroundLoopEnds, ProxyStop, BluetoothStop, BluetoothJoined,
               PipeStop, DriverClose, DriverJoined, MainStep
    <2>4. main = "driverStart" => bridge_mode # "fallback"
        BY DEF Control, DriverPhase
    <2> QED
        BY <2>1, <2>2, <2>3, <2>4, OutputKeeps DEF Unwritten
<1>2. CASE ReadOutputLoopEnds \/ CopyDeviceHandle \/ ReadOutputFails \/ UseManager
    <2>1. UNCHANGED <<ring, rumbles, report, written, bridge_mode>>
        BY <1>2 DEF ReadOutputLoopEnds, CopyDeviceHandle, ReadOutputFails, UseManager,
                    OutputOnly, ringVars, mainVars
    <2>2. output' \in Unwritten => output \in Unwritten
        BY <1>2 DEF ReadOutputLoopEnds, CopyDeviceHandle, ReadOutputFails, UseManager,
                    OutputStep, Unwritten
    <2> QED
        BY <2>1, <2>2, OutputKeeps
<1>3. CASE ReadOutputReport
    <2>1. UNCHANGED <<rumbles, written, bridge_mode>> /\ output = "ioctl"
        BY <1>3 DEF ReadOutputReport, OutputOnly, OutputStep, mainVars
    <2>2. CASE ring # <<>>
        <3>1. bridge_mode = "driver"
            BY <2>1 DEF Control, DriverPhase
        <3> QED
            BY <1>3, <2>1, <2>2, <3>1, OutputTakes DEF ReadOutputReport, Ring!Pop, Ring!Handed
    <2>3. CASE ring = <<>>
        <3>1. ring' = ring /\ report' = report /\ output' = "loop"
            BY <1>3, <2>3 DEF ReadOutputReport, Ring!Pop, OutputStep
        <3> QED
            BY <2>1, <3>1, OutputKeeps DEF Unwritten
    <2> QED
        BY <2>2, <2>3
<1>4. CASE CopyOutputHandler \/ CheckManager \/ WriteStarts
    <2>1. UNCHANGED <<ring, rumbles, written, bridge_mode>> /\ output \in Unwritten
        BY <1>4 DEF CopyOutputHandler, CheckManager, WriteStarts, OutputOnly, OutputStep,
                    ringVars, mainVars, Unwritten
    <2>2. output' # "loop" => report' = report
        BY <1>4 DEF CopyOutputHandler, CheckManager, WriteStarts
    <2> QED
        BY <2>1, <2>2, OutputKeeps DEF Unwritten
<1>5. CASE WriteReturns
    <2>1. UNCHANGED <<ring, rumbles, bridge_mode>> /\ output = "writing" /\ output' = "loop"
        BY <1>5 DEF WriteReturns, OutputOnly, OutputStep, ringVars, mainVars
    <2>2. CASE written' = written
        BY <2>1, <2>2, OutputKeeps DEF Unwritten
    <2>3. CASE written' = Append(written, report)
        BY <2>1, <2>3, OutputArrives
    <2> QED
        BY <1>5, <2>2, <2>3 DEF WriteReturns
<1>6. CASE EmitTestOutputReport
    <2>1. rumbles + 1 \in Rumble
        BY <1>6, BridgeAssumption DEF EmitTestOutputReport, Rumble, TypeOK, RingTypeOK
    <2>2. /\ UNCHANGED <<report, written, output, bridge_mode>>
          /\ rumbles' = rumbles + 1 /\ Ring!Push(rumbles + 1)
        BY <1>6 DEF EmitTestOutputReport, outVars
    <2> QED
        BY <2>1, <2>2, OutputSends
<1>7. CASE EmitTestRumbleCommand
    <2>1. UNCHANGED <<output, bridge_mode>> /\ bridge_mode = "fallback" /\ rumbles' = rumbles + 1
        BY <1>7 DEF EmitTestRumbleCommand
    <2>2. written' = written \/ written' = Append(written, rumbles + 1)
        BY <1>7 DEF EmitTestRumbleCommand, WriteOutcomes
    <2> QED
        BY <2>1, <2>2, OutputHandsOver
<1>8. CASE \/ ReaderNext \/ ReadEventFails \/ ControllerSends \/ ControllerLost \/ PipeStalls
           \/ PipeResumes \/ HandleUiShutdownCommand \/ RunConsoleLoopEnds \/ UNCHANGED vars
    <2>1. UNCHANGED <<ring, rumbles, report, written, output, bridge_mode>>
        BY <1>8
           DEF ReaderNext, ReadLoopEnds, ReadStarts, ReadCompletes, ReadAbandoned,
               CheckStillRunning, EmitInputReport, SendInputReport, SubmitIoctl, PublishState,
               SendStatus, ReadEventFails, ReaderOnly, ControllerSends, ControllerLost,
               PipeStalls, PipeResumes, HandleUiShutdownCommand, RunConsoleLoopEnds, ringVars,
               mainVars, outVars, vars
    <2> QED
        BY <2>1, OutputKeeps
<1> QED
    BY <1>1, <1>2, <1>3, <1>4, <1>5, <1>6, <1>7, <1>8
       DEF Next, OutputNext, EnvironmentNext

\* The way from the ring, or the fallback's console, to the controller loses reports and
\* does nothing else to them, for every ring and however writes end
\* (driver_bridge_client.cpp:153-207, bluetooth_manager.cpp:102-134).
THEOREM OutputIsChannel == Spec => ImplementsOutputChannel
<1>1. TypeOK /\ Control /\ OutputOrder /\ [Next]_vars => OutputOrder'
    BY OutputOrderStep
<1>2. TypeOK /\ Control /\ OutputOrder /\ [Next]_vars
        => [OutputChannel!Next]_(OutputChannel!vars)
    BY OutputChannelStep
<1> QED
    BY OutputChannelInit, OutputOrderInit, <1>1, <1>2, TypeCorrect, ControlHolds, PTL
       DEF Spec, ImplementsOutputChannel, OutputChannel!Spec
=============================================================================
