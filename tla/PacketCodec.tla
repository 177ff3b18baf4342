----------------------------- MODULE PacketCodec -----------------------------
(***************************************************************************)
(* The byte layouts of the controller's reports (core/dualsense_reports.h) *)
(* and what reads, writes and shows them: the CRC (core/crc32.cpp), the    *)
(* parser (core/dualsense_parser.cpp), the translation between USB and     *)
(* Bluetooth (core/packet_translation.cpp), the status for the UI          *)
(* (service/state_format.cpp) and its words (ui/MainWindow.xaml.cpp,       *)
(* ui/ui_formatting.cpp).                                                  *)
(*                                                                         *)
(* A word is the set of its one bits: "and" is the intersection, "xor" the *)
(* symmetric difference, a mask that is tested is an element.  A packet is *)
(* a sequence of 8 bit words; byte n of the code is element n + 1.         *)
(***************************************************************************)
EXTENDS Integers, Sequences

Byte == SUBSET (0 .. 7)

Weight == <<1, 2, 4, 8, 16, 32, 64, 128>>

\* The byte that stands for a number, and back.
B(n) == {b \in 0 .. 7 : (n \div Weight[b + 1]) % 2 = 1}
Value(w) ==
    LET bit(b) == IF b \in w THEN Weight[b + 1] ELSE 0
    IN  bit(0) + bit(1) + bit(2) + bit(3) + bit(4) + bit(5) + bit(6) + bit(7)

Xor(v, w) == (v \ w) \cup (w \ v)
LowNibble(w) == w \cap 0 .. 3
HighNibble(w) == {b - 4 : b \in w \cap 4 .. 7}

Zeros(n) == [i \in 1 .. n |-> {}]
First(n, packet) == SubSeq(packet, 1, n)

\* The first n bytes, zeros where the packet is shorter.
Padded(n, packet) == [i \in 1 .. n |-> IF i <= Len(packet) THEN packet[i] ELSE {}]

\* Their one bits: 0x01, 0x31, 0x02, 0x31, 0x10, 0xA1 and 0xA2.
kDualSenseInputReportUsbId  == {0}
kDualSenseInputReportUsbSize == 64
kDualSenseInputReportBtId   == {0, 4, 5}
kDualSenseInputReportBtSize == 78
kDualSenseOutputReportUsbId == {1}
kDualSenseOutputReportBtId  == {0, 4, 5}
kDualSenseBtOutputTag   == {4}
kDualSenseInputCrcSeed  == {0, 5, 7}
kDualSenseOutputCrcSeed == {1, 5, 7}

\* DualSenseInputReport, 63 bytes: where the fields are that are used.
InputReportSize == 63
LeftX == 1
LeftY == 2
RightX == 3
RightY == 4
Buttons1 == 8
Buttons2 == 9
Buttons3 == 10
Status0 == 53

\* DualSenseOutputReportUsb is an id, the common part and 15 reserved bytes;
\* DualSenseOutputReportBt an id, two tags, the common part, 24 bytes and the CRC.
CommonSize == 47
OutputReportUsbSize == 63

-----------------------------------------------------------------------------
(* core/crc32.cpp                                                          *)

\* 0xEDB88320
Polynomial == {31, 30, 29, 27, 26, 24, 23, 21, 20, 19, 15, 9, 8, 5}
Word32 == 0 .. 31

ShiftBit(crc) ==
    LET shifted == {b - 1 : b \in crc \ {0}}
    IN  IF 0 \in crc THEN Xor(shifted, Polynomial) ELSE shifted

\* The inner loop: the bits of a byte.
ShiftByte(crc, byte) ==
    LET Twice(c) == ShiftBit(ShiftBit(c))
        FourTimes(c) == Twice(Twice(c))
    IN  FourTimes(FourTimes(Xor(crc, byte)))

\* The register after each byte.  ("c" is bound, so that TLC has its value before it goes on.)
Registers(initial, data) ==
    LET crc[n \in 0 .. Len(data)] ==
            IF n = 0 THEN initial
            ELSE UNION {ShiftByte(c, data[n]) : c \in {crc[n - 1]}}
    IN  crc

Crc32(initial, data) == Registers(initial, data)[Len(data)]

ComputeSeededDualSenseCrc(seed, data) ==
    Word32 \ Crc32(Crc32(Word32, <<seed>>), data)

\* The usual check value: the CRC of "123456789" is 0xCBF43926.
ASSUME CrcCheckValue ==
    Word32 \ Crc32(Word32, [i \in 1 .. 9 |-> B(48 + i)])
        = {31, 30, 27, 25, 24, 23, 22, 21, 20, 18, 13, 12, 11, 8, 5, 2, 1}

\* The register after a packet with its CRC behind it: 0xDEBB20E3.
Residue == Crc32(Word32, Zeros(4))

ASSUME ResidueValue ==
    Residue = {31, 30, 28, 27, 26, 25, 23, 21, 20, 19, 17, 16, 13, 7, 6, 5, 1, 0}

ReadLe32(bytes) == UNION {{8 * (i - 1) + b : b \in bytes[i]} : i \in 1 .. 4}
WriteLe32(value) == [i \in 1 .. 4 |-> {b - 8 * (i - 1) : b \in value \cap (8 * (i - 1) .. 8 * i - 1)}]

-----------------------------------------------------------------------------
(* core/dualsense_parser.cpp                                               *)

NotParsed == <<>>

\* Mutant: the CRC is taken over what came, not over the report.
CrcOfAll(packet) ==
    LET n == Len(packet)
    IN  ReadLe32(SubSeq(packet, n - 3, n))
            = ComputeSeededDualSenseCrc(kDualSenseInputCrcSeed, First(n - 4, packet))

ValidateBtInputCrc(packet) ==
    LET n == kDualSenseInputReportBtSize
    IN  ReadLe32(SubSeq(packet, n - 3, n))
            = ComputeSeededDualSenseCrc(kDualSenseInputCrcSeed, First(n - 4, packet))

TryParseBtPacket(packet) ==
    IF Len(packet) >= kDualSenseInputReportBtSize /\ ValidateBtInputCrc(packet)
    THEN SubSeq(packet, 3, 2 + InputReportSize) ELSE NotParsed

TryParseUsbPacket(packet) ==
    IF Len(packet) >= kDualSenseInputReportUsbSize
    THEN SubSeq(packet, 2, 1 + InputReportSize) ELSE NotParsed

TryParseBluetoothInput(packet) ==
    CASE packet = <<>> -> NotParsed
      [] packet # <<>> /\ Head(packet) = kDualSenseInputReportBtId -> TryParseBtPacket(packet)
      [] packet # <<>> /\ Head(packet) = kDualSenseInputReportUsbId -> TryParseUsbPacket(packet)
      [] OTHER -> NotParsed

Centered == 8
DecodeDpad(nibble) == IF Value(nibble) <= 7 THEN Value(nibble) ELSE Centered

DecodeChargeState(status_0) ==
    LET charging == Value(HighNibble(status_0))
    IN  CASE charging = 0 -> "Discharging" [] charging = 1 -> "Charging"
          [] charging = 2 -> "Full" [] charging \in {10, 11} -> "NotCharging"
          [] OTHER -> "Unknown"

\* Mutant: no upper bound.
BatteryUnbounded(status_0) ==
    IF DecodeChargeState(status_0) = "Full" THEN 100 ELSE Value(LowNibble(status_0)) * 10 + 5

NormalizeBattery(status_0) ==
    LET percent == (Value(LowNibble(status_0)) * 10 + 5) % 256
    IN  CASE DecodeChargeState(status_0) = "Full" -> 100
          [] DecodeChargeState(status_0) \in {"Discharging", "Charging"} ->
                IF percent < 100 THEN percent ELSE 100
          [] OTHER -> 0

\* The buttons of ParsedDualSenseState, by the bit that stands for each.
NoButton == "none"
ButtonsOf(byte, names) == {names[b + 1] : b \in {c \in byte : names[c + 1] # NoButton}}

Buttons1Names ==
    <<NoButton, NoButton, NoButton, NoButton, "square", "cross", "circle", "triangle">>
Buttons2Names == <<"l1", "r1", "l2_button", "r2_button", "create", "options", "l3", "r3">>
Buttons3Names ==
    <<"ps", "touchpad_click", "mic", NoButton, NoButton, NoButton, NoButton, NoButton>>

ParseState(report) ==
    [raw |-> report,
     dpad |-> DecodeDpad(LowNibble(report[Buttons1])),
     buttons |->
        ButtonsOf(report[Buttons1], Buttons1Names) \cup ButtonsOf(report[Buttons2], Buttons2Names)
        \cup ButtonsOf(report[Buttons3], Buttons3Names),
     battery_percent |-> NormalizeBattery(report[Status0])]

-----------------------------------------------------------------------------
(* core/packet_translation.cpp                                             *)

ToUsbInputReport(report) == <<kDualSenseInputReportUsbId>> \o report

\* Mutant: the counter starts over at 1.
SkipZeroTag(sequence) ==
    [tag |-> {b + 4 : b \in LowNibble(B(sequence))}, next |-> (sequence % 15) + 1]

\* The tag, and the 8 bit counter after it.
NextSequenceTag(sequence) ==
    [tag |-> {b + 4 : b \in LowNibble(B(sequence))}, next |-> (sequence + 1) % 256]

\* Mutant: a report that has its id already gets another one.
AddId(output) == Padded(OutputReportUsbSize, <<kDualSenseOutputReportUsbId>> \o output)

NormalizeUsbOutput(output) ==
    Padded(OutputReportUsbSize,
           IF Head(output) = kDualSenseOutputReportUsbId THEN output
           ELSE <<kDualSenseOutputReportUsbId>> \o output)

\* An empty report is not translated and takes no tag.
ToBluetoothOutputReport(output, tag) ==
    LET payload == <<kDualSenseOutputReportBtId, tag, kDualSenseBtOutputTag>>
                     \o SubSeq(NormalizeUsbOutput(output), 2, 1 + CommonSize) \o Zeros(24)
    IN  payload \o WriteLe32(ComputeSeededDualSenseCrc(kDualSenseOutputCrcSeed, payload))

-----------------------------------------------------------------------------
(* service/state_format.cpp and the words of the UI                        *)

ButtonOrder ==
    <<"square", "cross", "circle", "triangle", "l1", "r1", "l2_button", "r2_button",
      "create", "options", "l3", "r3", "ps", "touchpad_click", "mic">>

\* Mutant: r3 before l3.
SticksSwapped(state) ==
    {i - 1 : i \in {j \in 1 .. 15 :
        [ButtonOrder EXCEPT ![11] = "r3", ![12] = "l3"][j] \in state.buttons}}

BuildButtonsMask(state) == {i - 1 : i \in {j \in 1 .. 15 : ButtonOrder[j] \in state.buttons}}

BuildStatusPayload(state) ==
    [battery_percent |-> state.battery_percent,
     sticks |-> <<state.raw[LeftX], state.raw[LeftY], state.raw[RightX], state.raw[RightY]>>,
     buttons_mask |-> BuildButtonsMask(state),
     dpad |-> state.dpad]

\* The raw line: sticks, battery and the four face buttons.
FormatStateLine(state) ==
    [sticks |-> <<state.raw[LeftX], state.raw[LeftY], state.raw[RightX], state.raw[RightY]>>,
     battery |-> state.battery_percent,
     face |-> state.buttons \cap {"cross", "circle", "square", "triangle"}]

\* Mutant: left and right change places.
DpadMirrored(dpad) ==
    IF dpad \in 0 .. 7
    THEN <<"Up", "UpLeft", "Left", "DownLeft", "Down", "DownRight", "Right", "UpRight">>[dpad + 1]
    ELSE "Centered"

DpadText(dpad) ==
    IF dpad \in 0 .. 7
    THEN <<"Up", "UpRight", "Right", "DownRight", "Down", "DownLeft", "Left", "UpLeft">>[dpad + 1]
    ELSE "Centered"

\* The words of both windows for the face buttons.
FaceButtonsText(mask) ==
    {<<"square", "cross", "circle", "triangle">>[b + 1] : b \in mask \cap 0 .. 3}

\* UpdateControllerStatus and UpdateDashboardFromStatus.
Dashboard(payload) ==
    [battery |-> payload.battery_percent, sticks |-> payload.sticks,
     dpad |-> DpadText(payload.dpad), face |-> FaceButtonsText(payload.buttons_mask)]
=============================================================================
