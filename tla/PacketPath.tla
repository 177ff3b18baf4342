----------------------------- MODULE PacketPath ------------------------------
(***************************************************************************)
(* What happens to the bytes of one report after another on their way      *)
(* through the service: from the controller to the virtual device and to   *)
(* the UI (ControllerProxy::HandleBluetoothInputReport), and from a game   *)
(* to the controller (HandleVirtualOutputReport).  The two ways share      *)
(* nothing, so a behaviour takes one of them; a packet that comes in is    *)
(* handled without regard to those before it, so one is enough.            *)
(*                                                                         *)
(* The test for a missing manager_ before the report is submitted          *)
(* (controller_proxy.cpp:69-71) is in Bridge.                              *)
(*                                                                         *)
(* External: the controller, which seals its report with a CRC; what       *)
(* happens to the packet before ReadFile has it; what games send.          *)
(***************************************************************************)
EXTENDS PacketCodec

CONSTANTS
    Reports, Outputs,   \* input reports and output reports that occur
    Hit, Errors         \* the reports that are damaged on the way; the bits that can be hit

ASSUME PacketAssumption ==
    /\ Reports \subseteq [1 .. InputReportSize -> Byte] /\ Hit \subseteq Reports
    /\ Outputs \subseteq Seq(Byte)
    /\ Errors \subseteq Byte \ {{}}

VARIABLES
    way,            \* "input" or "output"
    packet,         \* the packet ReadFile has read
    verdict,        \* history: what became of it
    report,         \* history: the report the controller put into it; NotParsed if damaged
    last_state_,    \* "none" before the first report
    submitted,      \* the report the virtual device got last
    shown, line,    \* what the UI shows, and the raw line
    sequence,       \* the 8 bit counter of NextSequenceTag
    output,         \* the report of the game
    written         \* the packet written to the controller last

inputVars == <<packet, verdict, report, last_state_, submitted, shown, line>>
outputVars == <<sequence, output, written>>
vars == <<way, inputVars, outputVars>>

None == "none"

Init ==
    /\ way \in {"input", "output"}
    /\ packet = <<>> /\ verdict = None /\ report = NotParsed
    /\ last_state_ = None /\ submitted = <<>> /\ shown = None /\ line = None
    /\ sequence = 0 /\ output = <<>> /\ written = <<>>

\* The controller's packet: its tag byte, the report, and the CRC with the input seed.
Sealed(r) ==
    LET payload == <<kDualSenseInputReportBtId, {0}>> \o r \o Zeros(9)
    IN  payload \o WriteLe32(ComputeSeededDualSenseCrc(kDualSenseInputCrcSeed, payload))

\* The packets that can be read when p was sent: some bits of one byte other, cut short,
\* or with the rest of the buffer behind it.
Flipped(p, i, bits) == [p EXCEPT ![i] = Xor(@, bits)]
Damaged(p) ==
    {Flipped(p, i, bits) : i \in 1 .. Len(p), bits \in Errors}
    \cup {First(n, p) : n \in 0 .. Len(p) - 1}
Longer(p) == {p, p \o <<{0, 1, 2}>>, p \o Zeros(50)}

PacketArrives ==
    /\ way = "input" /\ packet = <<>>
    /\ \E r \in Reports :
          \/ report' = r /\ packet' \in Longer(Sealed(r)) \cup {<<kDualSenseInputReportUsbId>> \o r}
          \/ r \in Hit /\ report' = NotParsed /\ packet' \in Damaged(Sealed(r)) \ {<<>>}
    /\ UNCHANGED <<way, verdict, last_state_, submitted, shown, line, outputVars>>

HandleBluetoothInputReport ==
    LET bt_report == TryParseBluetoothInput(packet)
        state == ParseState(bt_report)
    IN  /\ packet # <<>> /\ verdict = None
        /\ \/ /\ bt_report = NotParsed /\ verdict' = "ignored"
              /\ UNCHANGED <<last_state_, submitted, shown, line>>
           \/ /\ bt_report # NotParsed /\ verdict' = "delivered"
              /\ submitted' = ToUsbInputReport(bt_report)
              /\ last_state_' = state
              /\ shown' = Dashboard(BuildStatusPayload(state))
              /\ line' = FormatStateLine(state)
        /\ UNCHANGED <<way, packet, report, outputVars>>

HandleVirtualOutputReport ==
    /\ way = "output"
    /\ output' \in Outputs
    /\ LET tagged == NextSequenceTag(sequence)
       IN  IF output' = <<>>
           THEN UNCHANGED <<sequence, written>>
           ELSE /\ sequence' = tagged.next
                /\ written' = ToBluetoothOutputReport(output', tagged.tag)
    /\ UNCHANGED <<way, inputVars>>

Next == PacketArrives \/ HandleBluetoothInputReport \/ HandleVirtualOutputReport

Spec == Init /\ [][Next]_vars
-----------------------------------------------------------------------------
TypeOK ==
    /\ way \in {"input", "output"} /\ verdict \in {None, "ignored", "delivered"}
    /\ \A p \in {packet, report, submitted, output, written} : p \in Seq(Byte)
    /\ Len(submitted) \in {0, 64} /\ Len(written) \in {0, 78}
    /\ sequence \in 0 .. 255
    /\ verdict = "delivered" =>
          last_state_.dpad \in 0 .. 8 /\ last_state_.battery_percent \in 0 .. 100

\* A packet is delivered exactly if it is one the controller sent, whatever byte of it was
\* hit on the way, however short it is cut or whatever follows it in the buffer, unless the
\* hit makes the id that of USB, which has no CRC; and the virtual device gets the report as
\* it was, in a form the parser reads the same way (dualsense_parser.cpp:10-25, 51-90,
\* packet_translation.cpp:44-50).
DeliveredIffIntact ==
    /\ verdict # None =>
          (verdict = "delivered"
              <=> report # NotParsed \/ Head(packet) = kDualSenseInputReportUsbId)
    /\ verdict = "delivered" => TryParseBluetoothInput(submitted) = Tail(submitted)
    /\ verdict = "delivered" /\ report # NotParsed => Tail(submitted) = report

\* What the windows show is what the report says that the game gets, through the parser, the
\* button mask and the words of the UI: the face buttons, the d-pad, which counts the eighths
\* clockwise from "Up" in bits 0 to 2 and is centered with bit 3, the sticks and the battery.
\* The raw line says the same of buttons, sticks and battery (it has no d-pad)
\* (dualsense_parser.cpp:27-49, 99-126, state_format.cpp:10-57, MainWindow.xaml.cpp:24-49, 174-183).
ShownIsPressed ==
    verdict = "delivered" =>
        LET sent == Tail(submitted)
            hat == sent[Buttons1] \cap 0 .. 3
            pressed == {p \in {<<4, "square">>, <<5, "cross">>, <<6, "circle">>, <<7, "triangle">>} :
                            p[1] \in sent[Buttons1]}
            Points(words, hats) == shown.dpad \in words <=> hat \in hats
            charge == HighNibble(sent[Status0])
            level == 10 * Value(LowNibble(sent[Status0])) + 5
        IN  /\ shown.face = {p[2] : p \in pressed} /\ line.face = shown.face
            /\ shown.dpad = "Centered" <=> 3 \in hat
            /\ Points({"UpLeft", "Up", "UpRight"}, {{0, 1, 2}, {}, {0}})
            /\ Points({"UpRight", "Right", "DownRight"}, {{0}, {1}, {0, 1}})
            /\ Points({"DownRight", "Down", "DownLeft"}, {{0, 1}, {2}, {0, 2}})
            /\ Points({"DownLeft", "Left", "UpLeft"}, {{0, 2}, {1, 2}, {0, 1, 2}})
            /\ shown.sticks = <<sent[1], sent[2], sent[3], sent[4]>> /\ line.sticks = shown.sticks
            /\ charge = {1} => shown.battery = 100
            /\ charge \in {{}, {0}} => shown.battery = IF level < 100 THEN level ELSE 100
            /\ charge \notin {{}, {0}, {1}} => shown.battery = 0
            /\ line.battery = shown.battery

\* The mask that the UI gets has each of the fifteen buttons at its place: the upper half of
\* the report's first byte of buttons, the second byte and three bits of the third, in a row
\* (dualsense_parser.cpp:31-45, state_format.cpp:10-28, 44-57).
MaskIsReport ==
    verdict = "delivered" =>
        LET sent == Tail(submitted)
        IN  BuildStatusPayload(last_state_).buttons_mask
                = {b - 4 : b \in sent[Buttons1] \cap 4 .. 7} \cup {b + 4 : b \in sent[Buttons2]}
                  \cup {b + 12 : b \in sent[Buttons3] \cap 0 .. 2}

\* A packet for the controller has its size, divides by the polynomial with the output
\* seed before it, and carries the common part of the game's report, with or without the
\* id in front and whatever its length (packet_translation.cpp:26-40, 52-72).
WrittenIsSealed ==
    written # <<>> /\ output # <<>> =>
        LET sent == IF Head(output) = kDualSenseOutputReportUsbId THEN Tail(output) ELSE output
        IN  /\ Len(written) = 78
            /\ SubSeq(written, 4, 3 + CommonSize) = Padded(CommonSize, sent)
            /\ Crc32(Crc32(Word32, <<kDualSenseOutputCrcSeed>>), written) = Residue

\* Each packet has the tag after the one before it, modulo 16, also when the 8 bit counter
\* starts over (packet_translation.cpp:13-17).
TagsFollow ==
    [][written # <<>> /\ written' # written
        => Value(HighNibble(written'[2])) = (Value(HighNibble(written[2])) + 1) % 16]_vars
=============================================================================
