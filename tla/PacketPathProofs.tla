--------------------------- MODULE PacketPathProofs ---------------------------
(***************************************************************************)
(* Proofs about PacketPath, for every report, every output report and      *)
(* every way to damage one byte: what is delivered is what was sent and    *)
(* what is sent is what the controller accepts.  The facts about the CRC   *)
(* are those of PacketCodecProofs.                                         *)
(***************************************************************************)
EXTENDS PacketPath, PacketCodecProofs

(* Packets as sequences.                                                   *)

Packet == Seq(Byte)
Report == [1 .. InputReportSize -> Byte]

LEMMA ConcatIs ==
    ASSUME NEW p \in Packet, NEW q \in Packet
    PROVE  /\ p \o q \in Packet
           /\ Len(p \o q) = Len(p) + Len(q)
           /\ \A i \in 1 .. Len(p) + Len(q) :
                 (p \o q)[i] = IF i <= Len(p) THEN p[i] ELSE q[i - Len(p)]
BY ConcatProperties, Zenon DEF Packet

LEMMA SubSeqIs ==
    ASSUME NEW p \in Packet, NEW m \in Nat \ {0}, NEW n \in Nat, m - 1 <= n, n <= Len(p)
    PROVE  /\ SubSeq(p, m, n) \in Packet
           /\ Len(SubSeq(p, m, n)) = n - m + 1
           /\ \A i \in 1 .. n - m + 1 : SubSeq(p, m, n)[i] = p[m + i - 1]
BY DEF Packet

LEMMA NotEmpty ==
    ASSUME NEW p, Len(p) # 0
    PROVE  p # <<>>
OBVIOUS

LEMMA SamePacket ==
    ASSUME NEW p \in Packet, NEW q \in Packet, Len(p) = Len(q), \A i \in 1 .. Len(q) : p[i] = q[i]
    PROVE  p = q
BY SeqEqual DEF Packet

LEMMA ReportIsPacket ==
    ASSUME NEW r \in Report
    PROVE  r \in Packet /\ Len(r) = 63 /\ r # NotParsed
<1>1. r \in Packet /\ Len(r) = 63
  BY FunctionIsSeq DEF Report, Packet, InputReportSize
<1> QED
  BY <1>1 DEF NotParsed

LEMMA PacketIsReport ==
    ASSUME NEW p \in Packet, Len(p) = 63
    PROVE  p \in Report
BY LenProperties DEF Report, Packet, InputReportSize

LEMMA ZerosIs ==
    ASSUME NEW n \in Nat
    PROVE  Zeros(n) \in Packet /\ Len(Zeros(n)) = n /\ \A i \in 1 .. n : Zeros(n)[i] = {}
<1>1. Zeros(n) \in [1 .. n -> Byte]
  BY DEF Zeros, Byte
<1> QED
  BY <1>1, FunctionIsSeq DEF Packet, Zeros

LEMMA Constants ==
    /\ kDualSenseInputReportUsbId \in Byte /\ kDualSenseInputReportBtId \in Byte
    /\ kDualSenseOutputReportUsbId \in Byte /\ kDualSenseOutputReportBtId \in Byte
    /\ kDualSenseBtOutputTag \in Byte
    /\ kDualSenseInputCrcSeed \in Byte /\ kDualSenseOutputCrcSeed \in Byte
    /\ kDualSenseInputReportUsbId # kDualSenseInputReportBtId
BY DEF kDualSenseInputReportUsbId, kDualSenseInputReportBtId, kDualSenseOutputReportUsbId,
       kDualSenseOutputReportBtId, kDualSenseBtOutputTag, kDualSenseInputCrcSeed,
       kDualSenseOutputCrcSeed, Byte

PacketOf(n) == {p \in Packet : Len(p) = n}

\* p has a payload and a CRC where the parser looks for them.
BeginsWith(p, payload, w) ==
    /\ Len(p) >= 78
    /\ \A i \in 1 .. 74 : p[i] = payload[i]
    /\ \A i \in 1 .. 4 : p[74 + i] = w[i]

LEMMA CrcPart ==
    ASSUME NEW p \in Packet, Len(p) >= 78
    PROVE  /\ SubSeq(p, 75, 78) \in Packet /\ Len(SubSeq(p, 75, 78)) = 4
           /\ \A i \in 1 .. 4 : SubSeq(p, 75, 78)[i] = p[74 + i]
<1> DEFINE m == 75 n == 78 q == SubSeq(p, m, n)
<1>1. m \in Nat \ {0} /\ n \in Nat /\ m - 1 <= n /\ n <= Len(p)
  BY DEF Packet
<1> HIDE DEF m, n
<1>2. q \in Packet /\ Len(q) = n - m + 1 /\ \A i \in 1 .. n - m + 1 : q[i] = p[m + i - 1]
  BY <1>1, SubSeqIs
<1> HIDE DEF q
<1>3. q \in Packet /\ Len(q) = 4 /\ \A i \in 1 .. 4 : q[i] = p[74 + i]
  BY <1>2 DEF m, n
<1> QED
  BY <1>3, Zenon DEF q, m, n

LEMMA First74 ==
    ASSUME NEW p \in Packet, Len(p) >= 78
    PROVE  /\ First(74, p) \in Packet /\ Len(First(74, p)) = 74
           /\ \A i \in 1 .. 74 : First(74, p)[i] = p[i]
<1> DEFINE m == 1 n == 74 q == SubSeq(p, m, n)
<1>1. m \in Nat \ {0} /\ n \in Nat /\ m - 1 <= n /\ n <= Len(p)
  BY DEF Packet
<1> HIDE DEF m, n
<1>2. q \in Packet /\ Len(q) = n - m + 1 /\ \A i \in 1 .. n - m + 1 : q[i] = p[m + i - 1]
  BY <1>1, SubSeqIs
<1> HIDE DEF q
<1>3. q \in Packet /\ Len(q) = 74 /\ \A i \in 1 .. 74 : q[i] = p[i]
  BY <1>2 DEF m, n
<1> QED
  BY <1>3, Zenon DEF q, m, n, First

LEMMA Slices ==
    ASSUME NEW p \in Packet, NEW payload \in PacketOf(74), NEW w \in PacketOf(4),
           BeginsWith(p, payload, w)
    PROVE  First(74, p) = payload /\ SubSeq(p, 75, 78) = w
<1> DEFINE f == First(74, p) s == SubSeq(p, 75, 78)
<1>1. /\ Len(p) >= 78
      /\ \A i \in 1 .. 74 : p[i] = payload[i]
      /\ \A i \in 1 .. 4 : p[74 + i] = w[i]
      /\ payload \in Packet /\ w \in Packet /\ Len(payload) = 74 /\ Len(w) = 4
  BY Zenon DEF BeginsWith, PacketOf
<1>2. f \in Packet /\ Len(f) = 74 /\ \A i \in 1 .. 74 : f[i] = p[i]
  BY <1>1, First74, Zenon
<1>3. s \in Packet /\ Len(s) = 4 /\ \A i \in 1 .. 4 : s[i] = p[74 + i]
  BY <1>1, CrcPart, Zenon
<1> HIDE DEF f, s
<1>4. f = payload
  <2>1. Len(f) = Len(payload) /\ \A i \in 1 .. Len(payload) : f[i] = payload[i]
    BY <1>1, <1>2, Zenon
  <2> QED
    <3>1. f \in Packet /\ payload \in Packet
      BY <1>1, <1>2
    <3> QED
      BY <2>1, <3>1, SamePacket
<1>5. s = w
  <2>1. Len(s) = Len(w) /\ \A i \in 1 .. Len(w) : s[i] = w[i]
    BY <1>1, <1>3, Zenon
  <2> QED
    <3>1. s \in Packet /\ w \in Packet
      BY <1>1, <1>3
    <3> QED
      BY <2>1, <3>1, SamePacket
<1> QED
  BY <1>4, <1>5, Zenon DEF f, s

\* What the CRC of a packet is compared with depends on its first 78 bytes.
LEMMA Validated ==
    ASSUME NEW p \in Packet, NEW payload \in PacketOf(74), NEW w \in PacketOf(4),
           BeginsWith(p, payload, w)
    PROVE  ValidateBtInputCrc(p)
             <=> ReadLe32(w) = ComputeSeededDualSenseCrc(kDualSenseInputCrcSeed, payload)
<1>1. First(74, p) = payload /\ SubSeq(p, 75, 78) = w
  BY Slices
<1>2. /\ kDualSenseInputReportBtSize - 3 = 75 /\ kDualSenseInputReportBtSize - 4 = 74
      /\ kDualSenseInputReportBtSize = 78
  BY DEF kDualSenseInputReportBtSize
<1> QED
  BY <1>1, <1>2, Zenon DEF ValidateBtInputCrc

LEMMA SealIs ==
    ASSUME NEW payload \in PacketOf(74), NEW crc
    PROVE  LET p == payload \o WriteLe32(crc)
           IN  p \in PacketOf(78) /\ BeginsWith(p, payload, WriteLe32(crc))
<1> DEFINE w == WriteLe32(crc)
           p == payload \o w
<1>1. w \in Packet /\ Len(w) = 4
  BY WriteType DEF Packet
<1>0. payload \in Packet /\ Len(payload) = 74
  BY DEF PacketOf
<1> HIDE DEF w
<1>2. /\ p \in Packet /\ Len(p) = 78
      /\ \A i \in 1 .. 78 : p[i] = IF i <= 74 THEN payload[i] ELSE w[i - 74]
  <2>1. /\ p \in Packet
        /\ Len(p) = Len(payload) + Len(w)
        /\ \A i \in 1 .. Len(payload) + Len(w) :
              p[i] = IF i <= Len(payload) THEN payload[i] ELSE w[i - Len(payload)]
    BY <1>0, <1>1, ConcatIs, Zenon
  <2> HIDE DEF p
  <2> QED
    BY <1>0, <1>1, <2>1
<1> HIDE DEF p
<1>3. \A i \in 1 .. 74 : p[i] = payload[i]
  BY <1>2
<1>4. \A i \in 1 .. 4 : p[74 + i] = w[i]
  BY <1>2
<1>5. p \in PacketOf(78) /\ BeginsWith(p, payload, w)
  BY <1>2, <1>3, <1>4 DEF PacketOf, BeginsWith
<1> QED
  BY <1>5, Zenon DEF p, w

(* Parsing.                                                                *)

LEMMA PacketHead ==
    ASSUME NEW p \in Packet, p # <<>>
    PROVE  Head(p) = p[1] /\ Len(p) \in Nat /\ Len(p) >= 1
BY DEF Packet

LEMMA ParseBt ==
    ASSUME NEW p \in Packet, p # <<>>, p[1] = kDualSenseInputReportBtId
    PROVE  TryParseBluetoothInput(p)
             = IF Len(p) >= 78 /\ ValidateBtInputCrc(p) THEN SubSeq(p, 3, 65) ELSE NotParsed
<1>1. Head(p) = kDualSenseInputReportBtId /\ kDualSenseInputReportBtId # kDualSenseInputReportUsbId
  BY PacketHead, Constants
<1>2. TryParseBluetoothInput(p) = TryParseBtPacket(p)
  BY <1>1, Zenon DEF TryParseBluetoothInput
<1>3. 2 + InputReportSize = 65 /\ kDualSenseInputReportBtSize = 78
  BY DEF InputReportSize, kDualSenseInputReportBtSize
<1> QED
  BY <1>2, <1>3, Zenon DEF TryParseBtPacket

LEMMA ParseUsb ==
    ASSUME NEW p \in Packet, p # <<>>, p[1] = kDualSenseInputReportUsbId
    PROVE  TryParseBluetoothInput(p) = IF Len(p) >= 64 THEN SubSeq(p, 2, 64) ELSE NotParsed
<1>1. Head(p) = kDualSenseInputReportUsbId /\ kDualSenseInputReportBtId # kDualSenseInputReportUsbId
  BY PacketHead, Constants
<1>2. TryParseBluetoothInput(p) = TryParseUsbPacket(p)
  BY <1>1, Zenon DEF TryParseBluetoothInput
<1>3. 1 + InputReportSize = 64 /\ kDualSenseInputReportUsbSize = 64
  BY DEF InputReportSize, kDualSenseInputReportUsbSize
<1> QED
  BY <1>2, <1>3, Zenon DEF TryParseUsbPacket

LEMMA ParseOther ==
    ASSUME NEW p \in Packet, p # <<>>, p[1] # kDualSenseInputReportUsbId,
           p[1] # kDualSenseInputReportBtId
    PROVE  TryParseBluetoothInput(p) = NotParsed
<1>1. Head(p) # kDualSenseInputReportUsbId /\ Head(p) # kDualSenseInputReportBtId
  BY PacketHead
<1> QED
  BY <1>1, Zenon DEF TryParseBluetoothInput

LEMMA UsbType ==
    ASSUME NEW p \in Packet, p # <<>>, p[1] = kDualSenseInputReportUsbId, Len(p) >= 64
    PROVE  TryParseBluetoothInput(p) \in Report
<1> DEFINE m == 2 n == 64
<1>1. m \in Nat \ {0} /\ n \in Nat /\ m - 1 <= n /\ n - m + 1 = 63 /\ n <= Len(p)
  BY DEF Packet
<1> HIDE DEF m, n
<1>2. SubSeq(p, m, n) \in Packet /\ Len(SubSeq(p, m, n)) = n - m + 1
  BY <1>1, SubSeqIs
<1>3. SubSeq(p, m, n) \in Report
  BY <1>1, <1>2, PacketIsReport
<1> QED
  BY <1>3, ParseUsb, Zenon DEF m, n

\* What is parsed is a report, whatever comes.
LEMMA ParseType ==
    ASSUME NEW p \in Packet
    PROVE  TryParseBluetoothInput(p) \in Report \cup {NotParsed}
<1> DEFINE m == 3 n == 65
<1>1. m \in Nat \ {0} /\ n \in Nat /\ m - 1 <= n /\ n - m + 1 = 63 /\ n <= 78
  OBVIOUS
<1>2. Len(p) \in Nat
  BY DEF Packet
<1> HIDE DEF m, n
<1>3. CASE p = <<>>
  BY <1>3, Zenon DEF TryParseBluetoothInput
<1>4. CASE p # <<>> /\ p[1] = kDualSenseInputReportBtId
  <2>1. Len(p) >= 78 => SubSeq(p, m, n) \in Packet /\ Len(SubSeq(p, m, n)) = n - m + 1
    BY <1>1, <1>2, SubSeqIs
  <2>2. Len(p) >= 78 => SubSeq(p, m, n) \in Report
    BY <1>1, <2>1, PacketIsReport
  <2> QED
    BY <1>4, <2>2, ParseBt, Zenon DEF m, n
<1>5. CASE p # <<>> /\ p[1] = kDualSenseInputReportUsbId
  BY <1>5, UsbType, ParseUsb, Zenon
<1>6. CASE p # <<>> /\ p[1] # kDualSenseInputReportBtId /\ p[1] # kDualSenseInputReportUsbId
  BY <1>6, ParseOther, Zenon
<1> QED
  BY <1>3, <1>4, <1>5, <1>6

(* The packets that arrive.                                                *)

Payload(r) == <<kDualSenseInputReportBtId, {0}>> \o r \o Zeros(9)
CrcOf(payload) == WriteLe32(ComputeSeededDualSenseCrc(kDualSenseInputCrcSeed, payload))

LEMMA PayloadIs ==
    ASSUME NEW r \in Report
    PROVE  /\ Payload(r) \in PacketOf(74)
           /\ Payload(r)[1] = kDualSenseInputReportBtId
           /\ \A i \in 1 .. 63 : Payload(r)[i + 2] = r[i]
<1> DEFINE head == <<kDualSenseInputReportBtId, {0}>>
           zeros == Zeros(9)
           front == head \o r
           p == front \o zeros
<1>1. head \in Packet /\ Len(head) = 2 /\ head[1] = kDualSenseInputReportBtId
  BY Constants DEF Packet, Byte
<1>2. r \in Packet /\ Len(r) = 63
  BY ReportIsPacket
<1>3. zeros \in Packet /\ Len(zeros) = 9
  <2>1. 9 \in Nat
    OBVIOUS
  <2> QED
    BY <2>1, ZerosIs, Zenon
<1> HIDE DEF head, zeros
<1>4. /\ front \in Packet /\ Len(front) = Len(head) + Len(r)
      /\ \A i \in 1 .. Len(head) + Len(r) :
            front[i] = IF i <= Len(head) THEN head[i] ELSE r[i - Len(head)]
  BY <1>1, <1>2, ConcatIs, Zenon
<1> HIDE DEF front
<1>5. /\ p \in Packet /\ Len(p) = Len(front) + Len(zeros)
      /\ \A i \in 1 .. Len(front) + Len(zeros) :
            p[i] = IF i <= Len(front) THEN front[i] ELSE zeros[i - Len(front)]
  BY <1>3, <1>4, ConcatIs, Zenon
<1> HIDE DEF p
<1>6. p \in PacketOf(74)
  BY <1>1, <1>2, <1>3, <1>4, <1>5 DEF PacketOf
<1>7. p[1] = kDualSenseInputReportBtId
  BY <1>1, <1>2, <1>3, <1>4, <1>5
<1>8. \A i \in 1 .. 63 : p[i + 2] = r[i]
  BY <1>1, <1>2, <1>3, <1>4, <1>5
<1> QED
  BY <1>6, <1>7, <1>8, Zenon DEF p, front, head, zeros, Payload

LEMMA CrcOfType ==
    ASSUME NEW payload
    PROVE  CrcOf(payload) \in PacketOf(4)
BY WriteType, Zenon DEF CrcOf, PacketOf, Packet

LEMMA SealedIs ==
    ASSUME NEW r \in Report
    PROVE  /\ Sealed(r) \in PacketOf(78)
           /\ BeginsWith(Sealed(r), Payload(r), CrcOf(Payload(r)))
<1>1. Sealed(r) = Payload(r) \o CrcOf(Payload(r))
  BY Zenon DEF Sealed, Payload, CrcOf
<1>2. Payload(r) \in PacketOf(74)
  BY PayloadIs
<1> QED
  BY <1>1, <1>2, SealIs, Zenon DEF CrcOf

\* What begins with the packet of a report is that report.
LEMMA SealedParses ==
    ASSUME NEW r \in Report, NEW p \in Packet, BeginsWith(p, Payload(r), CrcOf(Payload(r)))
    PROVE  p # <<>> /\ p[1] = kDualSenseInputReportBtId /\ TryParseBluetoothInput(p) = r
<1> DEFINE payload == Payload(r)
           crc == ComputeSeededDualSenseCrc(kDualSenseInputCrcSeed, payload)
           m == 3 n == 65 s == SubSeq(p, m, n)
<1>1. payload \in PacketOf(74) /\ CrcOf(payload) \in PacketOf(4)
  BY PayloadIs, CrcOfType
<1>2. /\ Len(p) >= 78 /\ p[1] = kDualSenseInputReportBtId
      /\ \A i \in 1 .. 63 : p[i + 2] = r[i]
  <2>1. payload[1] = kDualSenseInputReportBtId /\ \A i \in 1 .. 63 : payload[i + 2] = r[i]
    BY PayloadIs, Zenon
  <2>2. Len(p) >= 78 /\ \A i \in 1 .. 74 : p[i] = payload[i]
    BY Zenon DEF BeginsWith
  <2>3. 1 \in 1 .. 74
    OBVIOUS
  <2>4. ASSUME NEW i \in 1 .. 63
        PROVE  p[i + 2] = r[i]
    <3>1. i + 2 \in 1 .. 74
      OBVIOUS
    <3> QED
      BY <2>1, <2>2, <3>1, Zenon
  <2> QED
    BY <2>1, <2>2, <2>3, <2>4, Zenon
<1>3. p # <<>>
  BY <1>2
<1>4. ReadLe32(CrcOf(payload)) = crc
  <2>1. crc \in SUBSET Word32
    BY <1>1, SeededType, Constants, Zenon DEF PacketOf, Packet
  <2> QED
    BY <2>1, ReadOfWritten, Zenon DEF CrcOf
<1>5. ValidateBtInputCrc(p)
  BY <1>1, <1>4, Validated, Zenon
<1>6. m \in Nat \ {0} /\ n \in Nat /\ m - 1 <= n /\ n <= Len(p) /\ n - m + 1 = 63 /\ m = 3
  BY <1>2 DEF Packet
<1>7. TryParseBluetoothInput(p) = s
  BY <1>2, <1>3, <1>5, ParseBt, Zenon
<1> HIDE DEF m, n, payload, crc
<1>8. s \in Packet /\ Len(s) = n - m + 1 /\ \A i \in 1 .. n - m + 1 : s[i] = p[m + i - 1]
  BY <1>6, SubSeqIs
<1> HIDE DEF s
<1>9. r \in Packet /\ Len(r) = 63
  BY ReportIsPacket
<1>10. Len(s) = Len(r) /\ \A i \in 1 .. Len(r) : s[i] = r[i]
  <2>1. ASSUME NEW i \in 1 .. 63
        PROVE  s[i] = r[i]
    <3>1. i \in 1 .. n - m + 1 /\ m + i - 1 = i + 2
      BY <1>6
    <3> QED
      BY <1>2, <1>8, <3>1, Zenon
  <2> QED
    BY <1>6, <1>8, <1>9, <2>1
<1>11. s = r
  BY <1>8, <1>9, <1>10, SamePacket, Zenon
<1> QED
  BY <1>2, <1>3, <1>7, <1>11, Zenon

\* What follows the packet in the buffer does not matter.
LEMMA LongerParses ==
    ASSUME NEW r \in Report, NEW p \in Longer(Sealed(r))
    PROVE  p \in Packet /\ p # <<>> /\ TryParseBluetoothInput(p) = r
<1> DEFINE q == Sealed(r) c == CrcOf(Payload(r))
<1>1. q \in Packet /\ Len(q) = 78 /\ BeginsWith(q, Payload(r), c)
  BY SealedIs, Zenon DEF PacketOf
<1> HIDE DEF q, c
<1>2. PICK rest \in Packet : p = q \o rest
  <2>1. CASE p = q
    <3>1. q \o <<>> = q /\ <<>> \in Packet
      BY <1>1, ConcatEmptySeq, EmptySeq, Zenon DEF Packet
    <3> QED
      BY <2>1, <3>1, Zenon
  <2>2. <<{0, 1, 2}>> \in Packet
    BY DEF Packet, Byte
  <2>3. Zeros(50) \in Packet
    <3>1. 50 \in Nat
      OBVIOUS
    <3> QED
      BY <3>1, ZerosIs, Zenon
  <2>4. p = q \/ p = q \o <<{0, 1, 2}>> \/ p = q \o Zeros(50)
    BY Zenon DEF Longer, q
  <2> QED
    BY <2>1, <2>2, <2>3, <2>4, Zenon
<1>3. /\ p \in Packet /\ Len(p) = Len(q) + Len(rest)
      /\ \A i \in 1 .. Len(q) + Len(rest) : p[i] = IF i <= Len(q) THEN q[i] ELSE rest[i - Len(q)]
  <2>1. q \in Packet
    BY <1>1
  <2>2. /\ q \o rest \in Packet /\ Len(q \o rest) = Len(q) + Len(rest)
        /\ \A i \in 1 .. Len(q) + Len(rest) :
              (q \o rest)[i] = IF i <= Len(q) THEN q[i] ELSE rest[i - Len(q)]
    BY <2>1, ConcatIs, Zenon
  <2> QED
    BY <1>2, <2>2, Zenon
<1>4. Len(rest) \in Nat
  BY DEF Packet
<1>5. BeginsWith(p, Payload(r), c)
  <2>1. Len(p) >= 78
    BY <1>1, <1>3, <1>4
  <2>2. ASSUME NEW i \in 1 .. 78
        PROVE  p[i] = q[i]
    <3>1. i \in 1 .. Len(q) + Len(rest) /\ i <= Len(q)
      BY <1>1, <1>4
    <3> QED
      BY <1>3, <3>1, Zenon
  <2>3. /\ \A i \in 1 .. 74 : q[i] = Payload(r)[i]
        /\ \A i \in 1 .. 4 : q[74 + i] = c[i]
    BY <1>1, Zenon DEF BeginsWith
  <2>4. ASSUME NEW i \in 1 .. 74
        PROVE  p[i] = Payload(r)[i]
    <3>1. i \in 1 .. 78
      OBVIOUS
    <3> QED
      BY <2>2, <2>3, <3>1, Zenon
  <2>5. ASSUME NEW i \in 1 .. 4
        PROVE  p[74 + i] = c[i]
    <3>1. 74 + i \in 1 .. 78
      OBVIOUS
    <3> QED
      BY <2>2, <2>3, <3>1, Zenon
  <2> QED
    BY <2>1, <2>4, <2>5, Zenon DEF BeginsWith
<1> QED
  BY <1>3, <1>5, SealedParses, Zenon DEF c

LEMMA UsbParses ==
    ASSUME NEW r \in Report
    PROVE  LET p == <<kDualSenseInputReportUsbId>> \o r
           IN  /\ p \in Packet /\ Len(p) = 64 /\ p # <<>> /\ Head(p) = kDualSenseInputReportUsbId
               /\ TryParseBluetoothInput(p) = r /\ Tail(p) = r
<1> DEFINE head == <<kDualSenseInputReportUsbId>>
           p == head \o r
           m == 2 n == 64 s == SubSeq(p, m, n) t == Tail(p)
<1>1. head \in Packet /\ Len(head) = 1 /\ head[1] = kDualSenseInputReportUsbId
  BY Constants DEF Packet
<1>2. r \in Packet /\ Len(r) = 63
  BY ReportIsPacket
<1> HIDE DEF head
<1>3. /\ p \in Packet /\ Len(p) = Len(head) + Len(r)
      /\ \A i \in 1 .. Len(head) + Len(r) :
            p[i] = IF i <= Len(head) THEN head[i] ELSE r[i - Len(head)]
  BY <1>1, <1>2, ConcatIs, Zenon
<1> HIDE DEF p
<1>4. /\ Len(p) = 64 /\ p[1] = kDualSenseInputReportUsbId
      /\ \A i \in 1 .. 63 : p[i + 1] = r[i]
  BY <1>1, <1>2, <1>3
<1>5. p # <<>> /\ Head(p) = kDualSenseInputReportUsbId
  <2>1. Len(p) = 64
    BY <1>4
  <2>2. p # <<>>
    BY <2>1
  <2> QED
    BY <1>3, <1>4, <2>2, PacketHead, Zenon
<1>6. TryParseBluetoothInput(p) = s
  <2>1. Len(p) >= 64
    BY <1>4
  <2> QED
    BY <1>3, <1>4, <1>5, <2>1, ParseUsb, Zenon
<1>7. m \in Nat \ {0} /\ n \in Nat /\ m - 1 <= n /\ n <= Len(p) /\ n - m + 1 = 63 /\ m = 2
  BY <1>4
<1> HIDE DEF m, n
<1>8. s \in Packet /\ Len(s) = n - m + 1 /\ \A i \in 1 .. n - m + 1 : s[i] = p[m + i - 1]
  BY <1>3, <1>7, SubSeqIs
<1> HIDE DEF s
<1>9. Len(s) = Len(r) /\ \A i \in 1 .. Len(r) : s[i] = r[i]
  <2>1. ASSUME NEW i \in 1 .. 63
        PROVE  s[i] = r[i]
    <3>1. i \in 1 .. n - m + 1 /\ m + i - 1 = i + 1
      BY <1>7
    <3> QED
      <4>1. s[i] = p[m + i - 1]
        BY <1>8, <3>1, Zenon
      <4>2. p[i + 1] = r[i]
        BY <1>4, Zenon
      <4> QED
        BY <3>1, <4>1, <4>2, Zenon
  <2> QED
    BY <1>2, <1>7, <1>8, <2>1
<1>10. s = r
  BY <1>2, <1>8, <1>9, SamePacket, Zenon
<1>11. t \in Packet /\ Len(t) = Len(p) - 1 /\ \A i \in 1 .. Len(t) : t[i] = p[i + 1]
  BY <1>3, <1>5, HeadTailProperties, Zenon DEF Packet
<1> HIDE DEF t
<1>12. Len(t) = Len(r) /\ \A i \in 1 .. Len(r) : t[i] = r[i]
  BY <1>2, <1>4, <1>11
<1>13. t = r
  BY <1>2, <1>11, <1>12, SamePacket, Zenon
<1> QED
  BY <1>3, <1>4, <1>5, <1>6, <1>10, <1>13, Zenon DEF p, head, t

\* A packet with one byte of p other.
OneByteOther(p, q, i) ==
    /\ q \in Packet /\ Len(q) = Len(p) /\ i \in 1 .. Len(p)
    /\ q[i] # p[i]
    /\ \A j \in 1 .. Len(p) : j # i => q[j] = p[j]

LEMMA FlippedIs ==
    ASSUME NEW p \in Packet, NEW i \in 1 .. Len(p), NEW bits \in Byte, bits # {}
    PROVE  OneByteOther(p, Flipped(p, i, bits), i)
<1> DEFINE b == Xor(p[i], bits) q == [p EXCEPT ![i] = b]
<1>1. p[i] \in Byte
  BY ElementOfSeq, Zenon DEF Packet
<1>2. b \in Byte /\ b # p[i]
  BY <1>1 DEF Byte, Xor
<1> HIDE DEF b
<1>3. /\ q \in Packet /\ Len(q) = Len(p)
      /\ \A j \in 1 .. Len(p) : q[j] = IF j = i THEN b ELSE p[j]
  <2>1. p \in Seq(Byte)
    BY DEF Packet
  <2> QED
    BY <1>2, <2>1, ExceptSeq DEF Packet
<1>4. Flipped(p, i, bits) = q
  BY DEF Flipped, b
<1> HIDE DEF q
<1>5. q[i] # p[i] /\ \A j \in 1 .. Len(p) : j # i => q[j] = p[j]
  BY <1>2, <1>3, Zenon
<1> QED
  BY <1>3, <1>4, <1>5, Zenon DEF OneByteOther

\* The check of the CRC fails when a byte after the id is hit.
LEMMA CrcFails ==
    ASSUME NEW p \in Packet, Len(p) = 78, NEW payload \in PacketOf(74),
           BeginsWith(p, payload, CrcOf(payload)),
           NEW q, NEW i, OneByteOther(p, q, i)
    PROVE  ~ValidateBtInputCrc(q)
<1> DEFINE w == CrcOf(payload) f == First(74, q) c == SubSeq(q, 75, 78)
           crc == ComputeSeededDualSenseCrc(kDualSenseInputCrcSeed, payload)
<1>1. /\ q \in Packet /\ Len(q) = 78 /\ i \in 1 .. 78 /\ q[i] # p[i]
      /\ \A j \in 1 .. 78 : j # i => q[j] = p[j]
  BY Zenon DEF OneByteOther
<1>2. /\ \A j \in 1 .. 74 : p[j] = payload[j]
      /\ \A j \in 1 .. 4 : p[74 + j] = w[j]
      /\ payload \in Packet /\ Len(payload) = 74
  BY Zenon DEF BeginsWith, PacketOf
<1>3. w \in Packet /\ Len(w) = 4
  BY CrcOfType, Zenon DEF PacketOf
<1>4. ReadLe32(w) = crc
  <2>1. crc \in SUBSET Word32
    BY <1>2, SeededType, Constants, Zenon DEF Packet
  <2> QED
    BY <2>1, ReadOfWritten, Zenon DEF CrcOf
<1>5. Len(q) >= 78
  BY <1>1
<1>6. f \in Packet /\ Len(f) = 74 /\ \A j \in 1 .. 74 : f[j] = q[j]
  BY <1>1, <1>5, First74, Zenon
<1>7. c \in Packet /\ Len(c) = 4 /\ \A j \in 1 .. 4 : c[j] = q[74 + j]
  BY <1>1, <1>5, CrcPart, Zenon
<1>8. ValidateBtInputCrc(q)
        <=> ReadLe32(c) = ComputeSeededDualSenseCrc(kDualSenseInputCrcSeed, f)
  <2>1. /\ kDualSenseInputReportBtSize - 3 = 75 /\ kDualSenseInputReportBtSize - 4 = 74
        /\ kDualSenseInputReportBtSize = 78
    BY DEF kDualSenseInputReportBtSize
  <2> QED
    BY <2>1, Zenon DEF ValidateBtInputCrc
<1> HIDE DEF w, f, c
<1>9. CASE i \in 1 .. 74
  <2>1. ASSUME NEW j \in 1 .. 74
        PROVE  /\ j # i => payload[j] = f[j]
               /\ j = i => payload[j] # f[j]
    <3>1. j \in 1 .. 78
      OBVIOUS
    <3>2. f[j] = q[j] /\ p[j] = payload[j]
      BY <1>2, <1>6, Zenon
    <3> QED
      BY <1>1, <3>1, <3>2, Zenon
  <2>2. ASSUME NEW j \in 1 .. 4
        PROVE  c[j] = w[j]
    <3>1. 74 + j \in 1 .. 78 /\ 74 + j # i
      BY <1>9
    <3>2. c[j] = q[74 + j] /\ p[74 + j] = w[j]
      BY <1>2, <1>7, Zenon
    <3> QED
      BY <1>1, <3>1, <3>2, Zenon
  <2>3. Len(c) = Len(w) /\ \A j \in 1 .. Len(w) : c[j] = w[j]
    BY <1>3, <1>7, <2>2, Zenon
  <2>4. c = w
    <3>1. c \in Packet /\ w \in Packet
      BY <1>3, <1>7
    <3> QED
      BY <2>3, <3>1, SamePacket
  <2>5. /\ i \in 1 .. Len(payload) /\ Len(f) = Len(payload) /\ payload[i] # f[i]
        /\ \A j \in 1 .. Len(payload) : j # i => payload[j] = f[j]
    BY <1>2, <1>6, <1>9, <2>1, Zenon
  <2>6. payload \in Seq(Byte) /\ f \in Seq(Byte) /\ kDualSenseInputCrcSeed \in Byte
    BY <1>2, <1>6, Constants, Zenon DEF Packet
  <2>7. crc # ComputeSeededDualSenseCrc(kDualSenseInputCrcSeed, f)
    BY <2>5, <2>6, SeededApart
  <2> QED
    BY <1>4, <1>8, <2>4, <2>7, Zenon
<1>10. CASE i \in 75 .. 78
  <2>1. ASSUME NEW j \in 1 .. 74
        PROVE  f[j] = payload[j]
    <3>1. j \in 1 .. 78 /\ j # i
      BY <1>10
    <3>2. f[j] = q[j] /\ p[j] = payload[j]
      BY <1>2, <1>6, Zenon
    <3> QED
      BY <1>1, <3>1, <3>2, Zenon
  <2>2. Len(f) = Len(payload) /\ \A j \in 1 .. Len(payload) : f[j] = payload[j]
    BY <1>2, <1>6, <2>1, Zenon
  <2>3. f = payload
    <3>1. f \in Packet /\ payload \in Packet
      BY <1>2, <1>6
    <3> QED
      BY <2>2, <3>1, SamePacket
  <2>4. PICK k \in 1 .. 4 : 74 + k = i
    <3>1. i - 74 \in 1 .. 4 /\ 74 + (i - 74) = i
      BY <1>10
    <3> QED
      BY <3>1, Zenon
  <2>5. c[k] # w[k]
    <3>1. c[k] = q[74 + k] /\ p[74 + k] = w[k]
      BY <1>2, <1>7, Zenon
    <3> QED
      BY <1>1, <2>4, <3>1, Zenon
  <2>6. c \in [1 .. 4 -> Byte] /\ w \in [1 .. 4 -> Byte]
    <3>1. c \in [1 .. Len(c) -> Byte] /\ w \in [1 .. Len(w) -> Byte]
      BY <1>3, <1>7, LenProperties, Zenon DEF Packet
    <3> QED
      BY <1>3, <1>7, <3>1, Zenon
  <2>7. ReadLe32(c) # ReadLe32(w)
    BY <2>5, <2>6, ReadApart
  <2> QED
    BY <1>4, <1>8, <2>3, <2>7, Zenon
<1>11. i \in 1 .. 74 \/ i \in 75 .. 78
  BY <1>1
<1> QED
  BY <1>9, <1>10, <1>11

\* A packet of which one byte was hit is no report, unless its id is now that of USB.
LEMMA FlippedParses ==
    ASSUME NEW r \in Report, NEW q, NEW i, OneByteOther(Sealed(r), q, i)
    PROVE  /\ q \in Packet /\ q # <<>>
           /\ TryParseBluetoothInput(q) # NotParsed <=> q[1] = kDualSenseInputReportUsbId
<1> DEFINE p == Sealed(r) payload == Payload(r)
<1>1. /\ p \in Packet /\ Len(p) = 78 /\ BeginsWith(p, payload, CrcOf(payload))
      /\ payload \in PacketOf(74)
  BY SealedIs, PayloadIs, Zenon DEF PacketOf
<1>2. OneByteOther(p, q, i)
  OBVIOUS
<1> HIDE DEF p, payload
<1>3. ~ValidateBtInputCrc(q)
  BY <1>1, <1>2, CrcFails, Zenon
<1>4. /\ q \in Packet /\ Len(q) = 78
      /\ \A j \in 1 .. 78 : j # i => q[j] = p[j]
  BY <1>1, <1>2, Zenon DEF OneByteOther
<1>5. q # <<>> /\ Len(q) >= 64
  <2>1. Len(q) = 78
    BY <1>4
  <2>2. Len(q) # 0 /\ Len(q) >= 64
    BY <2>1
  <2> QED
    BY <2>2, NotEmpty, Zenon
<1>6. CASE q[1] = kDualSenseInputReportUsbId
  <2>1. TryParseBluetoothInput(q) \in Report
    BY <1>4, <1>5, <1>6, UsbType, Zenon
  <2> QED
    BY <1>4, <1>5, <1>6, <2>1, ReportIsPacket, Zenon
<1>7. CASE q[1] = kDualSenseInputReportBtId
  BY <1>3, <1>4, <1>5, <1>7, ParseBt, Constants, Zenon
<1>8. CASE q[1] # kDualSenseInputReportUsbId /\ q[1] # kDualSenseInputReportBtId
  BY <1>4, <1>5, <1>8, ParseOther, Zenon
<1> QED
  BY <1>6, <1>7, <1>8

LEMMA CutParses ==
    ASSUME NEW r \in Report, NEW n \in 0 .. 77, First(n, Sealed(r)) # <<>>
    PROVE  LET q == First(n, Sealed(r))
           IN  /\ q \in Packet /\ q[1] = kDualSenseInputReportBtId
               /\ TryParseBluetoothInput(q) = NotParsed
<1> DEFINE p == Sealed(r) payload == Payload(r) m == 1 q == SubSeq(p, m, n)
<1>1. /\ p \in Packet /\ Len(p) = 78 /\ BeginsWith(p, payload, CrcOf(payload))
      /\ payload[1] = kDualSenseInputReportBtId
  BY SealedIs, PayloadIs, Zenon DEF PacketOf
<1>2. p[1] = kDualSenseInputReportBtId
  <2>1. 1 \in 1 .. 74
    OBVIOUS
  <2> QED
    BY <1>1, <2>1, Zenon DEF BeginsWith
<1>3. First(n, Sealed(r)) = q
  BY Zenon DEF First
<1> HIDE DEF p, payload
<1>4. Len(p) = 78
  BY <1>1
<1>5. m \in Nat \ {0} /\ n \in Nat /\ m - 1 <= n /\ n <= Len(p)
  BY <1>4
<1>6. n - m + 1 = n /\ m = 1
  OBVIOUS
<1> HIDE DEF m
<1>7. q \in Packet /\ Len(q) = n - m + 1 /\ \A i \in 1 .. n - m + 1 : q[i] = p[m + i - 1]
  <2>1. p \in Packet
    BY <1>1
  <2> QED
    BY <1>5, <2>1, SubSeqIs, Zenon
<1> HIDE DEF q
<1>8. Len(q) = n /\ \A i \in 1 .. n : q[i] = p[m + i - 1]
  BY <1>6, <1>7, Zenon
<1>9. n >= 1 /\ ~(Len(q) >= 78)
  <2>1. q # <<>>
    BY <1>3
  <2>2. Len(q) >= 1 /\ Len(q) = n
    BY <1>7, <1>8, <2>1, PacketHead, Zenon
  <2> QED
    BY <2>2
<1>10. q[1] = kDualSenseInputReportBtId
  <2>1. 1 \in 1 .. n /\ m + 1 - 1 = 1
    BY <1>6, <1>9
  <2>2. q[1] = p[m + 1 - 1]
    BY <1>8, <2>1, Zenon
  <2> QED
    BY <1>2, <2>1, <2>2
<1>11. TryParseBluetoothInput(q) = NotParsed
  BY <1>3, <1>7, <1>9, <1>10, ParseBt, Zenon
<1> QED
  BY <1>3, <1>7, <1>10, <1>11, Zenon

LEMMA DamagedParses ==
    ASSUME NEW r \in Report, NEW q \in Damaged(Sealed(r)) \ {<<>>}, Errors \subseteq Byte \ {{}}
    PROVE  /\ q \in Packet
           /\ TryParseBluetoothInput(q) # NotParsed <=> Head(q) = kDualSenseInputReportUsbId
<1> DEFINE p == Sealed(r)
<1>1. p \in Packet /\ Len(p) = 78
  BY SealedIs, Zenon DEF PacketOf
<1>2. CASE \E i \in 1 .. Len(p), bits \in Errors : q = Flipped(p, i, bits)
  <2>1. PICK i \in 1 .. Len(p), bits \in Errors : q = Flipped(p, i, bits)
    BY <1>2
  <2>2. bits \in Byte /\ bits # {}
    BY Zenon
  <2>3. OneByteOther(p, q, i)
    BY <1>1, <2>1, <2>2, FlippedIs, Zenon
  <2>4. /\ q \in Packet /\ q # <<>>
        /\ TryParseBluetoothInput(q) # NotParsed <=> q[1] = kDualSenseInputReportUsbId
    BY <2>3, FlippedParses, Zenon
  <2> QED
    BY <2>4, PacketHead, Zenon
<1>3. CASE \E n \in 0 .. Len(p) - 1 : q = First(n, p)
  <2>1. PICK n \in 0 .. Len(p) - 1 : q = First(n, p)
    BY <1>3
  <2>2. n \in 0 .. 77
    BY <1>1
  <2>3. q # <<>>
    OBVIOUS
  <2>4. q \in Packet /\ q[1] = kDualSenseInputReportBtId /\ TryParseBluetoothInput(q) = NotParsed
    BY <2>1, <2>2, <2>3, CutParses, Zenon
  <2> QED
    BY <2>3, <2>4, PacketHead, Constants, Zenon
<1>4. q \in Damaged(p)
  OBVIOUS
<1> QED
  BY <1>2, <1>3, <1>4 DEF Damaged

(* What is read from a report.                                             *)

LEMMA ValueIs ==
    ASSUME NEW w
    PROVE  Value(w) \in 0 .. 255
BY DEF Value, Weight

\* The direction pad: bit 3 means that it is centered.
LEMMA NibbleValue ==
    ASSUME NEW w
    PROVE  /\ Value(LowNibble(w)) \in 0 .. 15
           /\ Value(LowNibble(w)) <= 7 <=> 3 \notin w
           /\ Value(LowNibble(w)) = (IF 0 \in w THEN 1 ELSE 0) + (IF 1 \in w THEN 2 ELSE 0)
                                     + (IF 2 \in w THEN 4 ELSE 0) + (IF 3 \in w THEN 8 ELSE 0)
<1>1. /\ \A b \in 0 .. 3 : b \in LowNibble(w) <=> b \in w
      /\ 4 \notin LowNibble(w) /\ 5 \notin LowNibble(w)
      /\ 6 \notin LowNibble(w) /\ 7 \notin LowNibble(w)
  BY DEF LowNibble
<1> DEFINE n == LowNibble(w)
<1>2. Value(n) = (IF 0 \in w THEN 1 ELSE 0) + (IF 1 \in w THEN 2 ELSE 0)
                 + (IF 2 \in w THEN 4 ELSE 0) + (IF 3 \in w THEN 8 ELSE 0)
  BY <1>1 DEF Value, Weight
<1> HIDE DEF n
<1>3. Value(n) \in 0 .. 15 /\ (Value(n) <= 7 <=> 3 \notin w)
  BY <1>2
<1> QED
  BY <1>2, <1>3, Zenon DEF n

LEMMA DpadType ==
    ASSUME NEW nibble
    PROVE  DecodeDpad(nibble) \in 0 .. 8
BY ValueIs DEF DecodeDpad, Centered

LEMMA BatteryType ==
    ASSUME NEW status_0
    PROVE  NormalizeBattery(status_0) \in 0 .. 100
<1> DEFINE value == Value(LowNibble(status_0))
           percent == (value * 10 + 5) % 256
           charge == DecodeChargeState(status_0)
<1>1. percent \in 0 .. 255
  <2>1. value \in 0 .. 255
    BY ValueIs
  <2> HIDE DEF value
  <2> QED
    BY <2>1
<1> HIDE DEF percent
<1>2. NormalizeBattery(status_0)
        = CASE charge = "Full" -> 100
            [] charge \in {"Discharging", "Charging"} -> IF percent < 100 THEN percent ELSE 100
            [] OTHER -> 0
  BY Zenon DEF NormalizeBattery, percent
<1> HIDE DEF charge
<1> QED
  BY <1>1, <1>2

\* The battery in terms of the report's byte: the charge in its upper half, the level below.
LEMMA BatteryIs ==
    ASSUME NEW status_0
    PROVE  LET charge == HighNibble(status_0)
               level == 10 * Value(LowNibble(status_0)) + 5
               battery == NormalizeBattery(status_0)
           IN  /\ charge = {1} => battery = 100
               /\ charge \in {{}, {0}} => battery = IF level < 100 THEN level ELSE 100
               /\ charge \notin {{}, {0}, {1}} => battery = 0
<1> DEFINE charge == HighNibble(status_0)
           value == Value(LowNibble(status_0))
           state == DecodeChargeState(status_0)
           battery == NormalizeBattery(status_0)
           percent == IF 10 * value + 5 < 100 THEN 10 * value + 5 ELSE 100
<1>1. value \in 0 .. 15
  BY NibbleValue, Zenon
<1>2. battery = CASE state = "Full" -> 100
                  [] state \in {"Discharging", "Charging"}
                       -> IF (value * 10 + 5) % 256 < 100 THEN (value * 10 + 5) % 256 ELSE 100
                  [] OTHER -> 0
  BY Zenon DEF NormalizeBattery
<1>3. state = CASE Value(charge) = 0 -> "Discharging" [] Value(charge) = 1 -> "Charging"
                [] Value(charge) = 2 -> "Full" [] Value(charge) \in {10, 11} -> "NotCharging"
                [] OTHER -> "Unknown"
  BY Zenon DEF DecodeChargeState
<1>4. \A b \in charge : b = 0 \/ b = 1 \/ b = 2 \/ b = 3
  BY DEF HighNibble
<1> HIDE DEF charge, value, state, battery
<1>5. Value(charge) = (IF 0 \in charge THEN 1 ELSE 0) + (IF 1 \in charge THEN 2 ELSE 0)
                       + (IF 2 \in charge THEN 4 ELSE 0) + (IF 3 \in charge THEN 8 ELSE 0)
  BY <1>4 DEF Value, Weight
<1>6. /\ Value(charge) = 0 <=> charge = {}
      /\ Value(charge) = 1 <=> charge = {0}
      /\ Value(charge) = 2 <=> charge = {1}
  BY <1>4, <1>5
<1>7. /\ state = "Full" <=> charge = {1}
      /\ state \in {"Discharging", "Charging"} <=> charge \in {{}, {0}}
  <2>1. Value(charge) \in Int
    BY <1>5
  <2>2. /\ state = "Full" <=> Value(charge) = 2
        /\ state \in {"Discharging", "Charging"} <=> Value(charge) = 0 \/ Value(charge) = 1
    BY <1>3, <2>1
  <2> QED
    BY <1>6, <2>2, Zenon
<1>8. (IF (value * 10 + 5) % 256 < 100 THEN (value * 10 + 5) % 256 ELSE 100) = percent
  BY <1>1
<1> HIDE DEF percent
<1>9. charge = {1} => battery = 100
  BY <1>2, <1>7, Zenon
<1>10. charge \in {{}, {0}} => battery = percent
  <2>1. state \in {"Discharging", "Charging"} => state # "Full"
    OBVIOUS
  <2> QED
    BY <1>2, <1>7, <1>8, <2>1
<1>11. charge \notin {{}, {0}, {1}} => battery = 0
  <2>1. charge \notin {{}, {0}, {1}} => charge # {1} /\ charge \notin {{}, {0}}
    OBVIOUS
  <2> QED
    BY <1>2, <1>7, <2>1
<1> QED
  BY <1>9, <1>10, <1>11, Zenon DEF charge, value, battery, percent

\* The names that stand for a byte's bits.
LEMMA ButtonIs ==
    ASSUME NEW byte \in Byte, NEW names, NEW x, x # NoButton
    PROVE  x \in ButtonsOf(byte, names) <=> \E b \in 0 .. 7 : b \in byte /\ names[b + 1] = x
<1>1. \A b \in byte : b \in 0 .. 7
  BY DEF Byte
<1> QED
  BY <1>1, Zenon DEF ButtonsOf

\* Where each button of the mask is in the report: the tables of the parser and of the
\* status, both.
LEMMA Tables ==
    ASSUME NEW k \in 0 .. 14, NEW b \in 0 .. 7
    PROVE  /\ ButtonOrder[k + 1] # NoButton
           /\ Buttons1Names[b + 1] = ButtonOrder[k + 1] <=> b = k + 4
           /\ Buttons2Names[b + 1] = ButtonOrder[k + 1] <=> b = k - 4
           /\ Buttons3Names[b + 1] = ButtonOrder[k + 1] <=> b = k - 12
<1>1. /\ Buttons1Names[0 + 1] = "none" /\ Buttons1Names[1 + 1] = "none"
      /\ Buttons1Names[2 + 1] = "none" /\ Buttons1Names[3 + 1] = "none"
      /\ Buttons1Names[4 + 1] = "square" /\ Buttons1Names[5 + 1] = "cross"
      /\ Buttons1Names[6 + 1] = "circle" /\ Buttons1Names[7 + 1] = "triangle"
  BY DEF Buttons1Names, NoButton
<1>2. /\ Buttons2Names[0 + 1] = "l1" /\ Buttons2Names[1 + 1] = "r1"
      /\ Buttons2Names[2 + 1] = "l2_button" /\ Buttons2Names[3 + 1] = "r2_button"
      /\ Buttons2Names[4 + 1] = "create" /\ Buttons2Names[5 + 1] = "options"
      /\ Buttons2Names[6 + 1] = "l3" /\ Buttons2Names[7 + 1] = "r3"
  BY DEF Buttons2Names
<1>3. /\ Buttons3Names[0 + 1] = "ps" /\ Buttons3Names[1 + 1] = "touchpad_click"
      /\ Buttons3Names[2 + 1] = "mic" /\ Buttons3Names[3 + 1] = "none"
      /\ Buttons3Names[4 + 1] = "none" /\ Buttons3Names[5 + 1] = "none"
      /\ Buttons3Names[6 + 1] = "none" /\ Buttons3Names[7 + 1] = "none"
  BY DEF Buttons3Names, NoButton
<1>4. b = 0 \/ b = 1 \/ b = 2 \/ b = 3 \/ b = 4 \/ b = 5 \/ b = 6 \/ b = 7
  OBVIOUS
<1>5. CASE k \in 0 .. 3
  <2>1. k = 0 \/ k = 1 \/ k = 2 \/ k = 3
    BY <1>5
  <2>2. /\ ButtonOrder[0 + 1] = "square" /\ ButtonOrder[1 + 1] = "cross"
        /\ ButtonOrder[2 + 1] = "circle" /\ ButtonOrder[3 + 1] = "triangle"
    BY DEF ButtonOrder
  <2>3. Buttons1Names[b + 1] = ButtonOrder[k + 1] <=> b = k + 4
    BY <1>1, <1>4, <2>1, <2>2
  <2>4. Buttons2Names[b + 1] # ButtonOrder[k + 1]
    BY <1>2, <1>4, <2>1, <2>2
  <2>5. Buttons3Names[b + 1] # ButtonOrder[k + 1] /\ ButtonOrder[k + 1] # NoButton
    BY <1>3, <1>4, <2>1, <2>2 DEF NoButton
  <2> QED
    BY <1>5, <2>3, <2>4, <2>5
<1>6. CASE k \in 4 .. 11
  <2>1. k = 4 \/ k = 5 \/ k = 6 \/ k = 7 \/ k = 8 \/ k = 9 \/ k = 10 \/ k = 11
    BY <1>6
  <2>2. /\ ButtonOrder[4 + 1] = "l1" /\ ButtonOrder[5 + 1] = "r1"
        /\ ButtonOrder[6 + 1] = "l2_button" /\ ButtonOrder[7 + 1] = "r2_button"
        /\ ButtonOrder[8 + 1] = "create" /\ ButtonOrder[9 + 1] = "options"
        /\ ButtonOrder[10 + 1] = "l3" /\ ButtonOrder[11 + 1] = "r3"
    BY DEF ButtonOrder
  <2>3. Buttons2Names[b + 1] = ButtonOrder[k + 1] <=> b = k - 4
    BY <1>2, <1>4, <2>1, <2>2
  <2>4. Buttons1Names[b + 1] # ButtonOrder[k + 1]
    BY <1>1, <1>4, <2>1, <2>2
  <2>5. Buttons3Names[b + 1] # ButtonOrder[k + 1] /\ ButtonOrder[k + 1] # NoButton
    BY <1>3, <1>4, <2>1, <2>2 DEF NoButton
  <2> QED
    BY <1>6, <2>3, <2>4, <2>5
<1>7. CASE k \in 12 .. 14
  <2>1. k = 12 \/ k = 13 \/ k = 14
    BY <1>7
  <2>2. /\ ButtonOrder[12 + 1] = "ps" /\ ButtonOrder[13 + 1] = "touchpad_click"
        /\ ButtonOrder[14 + 1] = "mic"
    BY DEF ButtonOrder
  <2>3. Buttons3Names[b + 1] = ButtonOrder[k + 1] <=> b = k - 12
    BY <1>3, <1>4, <2>1, <2>2
  <2>4. Buttons1Names[b + 1] # ButtonOrder[k + 1]
    BY <1>1, <1>4, <2>1, <2>2
  <2>5. Buttons2Names[b + 1] # ButtonOrder[k + 1] /\ ButtonOrder[k + 1] # NoButton
    BY <1>2, <1>4, <2>1, <2>2 DEF NoButton
  <2> QED
    BY <1>7, <2>3, <2>4, <2>5
<1> QED
  BY <1>5, <1>6, <1>7

LEMMA ButtonPressed ==
    ASSUME NEW r \in Report, NEW k \in 0 .. 14
    PROVE  ButtonOrder[k + 1] \in ParseState(r).buttons
             <=> k + 4 \in r[Buttons1] \/ k - 4 \in r[Buttons2] \/ k - 12 \in r[Buttons3]
<1> DEFINE pressed == ParseState(r).buttons x == ButtonOrder[k + 1]
<1>1. r[Buttons1] \in Byte /\ r[Buttons2] \in Byte /\ r[Buttons3] \in Byte
  BY DEF Report, InputReportSize, Buttons1, Buttons2, Buttons3
<1>2. pressed = ButtonsOf(r[Buttons1], Buttons1Names) \cup ButtonsOf(r[Buttons2], Buttons2Names)
                  \cup ButtonsOf(r[Buttons3], Buttons3Names)
  BY DEF ParseState
<1>3. /\ x # NoButton
      /\ \A b \in 0 .. 7 :
            /\ Buttons1Names[b + 1] = x <=> b = k + 4
            /\ Buttons2Names[b + 1] = x <=> b = k - 4
            /\ Buttons3Names[b + 1] = x <=> b = k - 12
  <2>1. 0 \in 0 .. 7
    OBVIOUS
  <2> QED
    BY <2>1, Tables, Zenon
<1> HIDE DEF pressed, x
<1>4. /\ \A b \in r[Buttons1] : b \in 0 .. 7
      /\ \A b \in r[Buttons2] : b \in 0 .. 7
      /\ \A b \in r[Buttons3] : b \in 0 .. 7
  BY <1>1 DEF Byte
<1>5. x \in ButtonsOf(r[Buttons1], Buttons1Names) <=> k + 4 \in r[Buttons1]
  <2>1. x \in ButtonsOf(r[Buttons1], Buttons1Names)
          <=> \E b \in 0 .. 7 : b \in r[Buttons1] /\ Buttons1Names[b + 1] = x
    <3>1. x # NoButton /\ r[Buttons1] \in Byte
      BY <1>1, <1>3
    <3> QED
      BY <3>1, ButtonIs
  <2> QED
    BY <1>3, <1>4, <2>1, Zenon
<1>6. x \in ButtonsOf(r[Buttons2], Buttons2Names) <=> k - 4 \in r[Buttons2]
  <2>1. x \in ButtonsOf(r[Buttons2], Buttons2Names)
          <=> \E b \in 0 .. 7 : b \in r[Buttons2] /\ Buttons2Names[b + 1] = x
    <3>1. x # NoButton /\ r[Buttons2] \in Byte
      BY <1>1, <1>3
    <3> QED
      BY <3>1, ButtonIs
  <2> QED
    BY <1>3, <1>4, <2>1, Zenon
<1>7. x \in ButtonsOf(r[Buttons3], Buttons3Names) <=> k - 12 \in r[Buttons3]
  <2>1. x \in ButtonsOf(r[Buttons3], Buttons3Names)
          <=> \E b \in 0 .. 7 : b \in r[Buttons3] /\ Buttons3Names[b + 1] = x
    <3>1. x # NoButton /\ r[Buttons3] \in Byte
      BY <1>1, <1>3
    <3> QED
      BY <3>1, ButtonIs
  <2> QED
    BY <1>3, <1>4, <2>1, Zenon
<1>8. x \in pressed
        <=> k + 4 \in r[Buttons1] \/ k - 4 \in r[Buttons2] \/ k - 12 \in r[Buttons3]
  BY <1>2, <1>5, <1>6, <1>7, Zenon
<1> QED
  BY <1>8, Zenon DEF pressed, x

LEMMA InMask ==
    ASSUME NEW state, NEW k \in 0 .. 14
    PROVE  k \in BuildButtonsMask(state) <=> ButtonOrder[k + 1] \in state.buttons
<1>1. k \in BuildButtonsMask(state)
        <=> \E j \in 1 .. 15 : ButtonOrder[j] \in state.buttons /\ k = j - 1
  BY Zenon DEF BuildButtonsMask
<1>2. k + 1 \in 1 .. 15 /\ k = (k + 1) - 1
  OBVIOUS
<1>3. \A j \in 1 .. 15 : k = j - 1 => j = k + 1
  OBVIOUS
<1> QED
  BY <1>1, <1>2, <1>3, Zenon

LEMMA MaskInBytes ==
    ASSUME NEW r \in Report
    PROVE  BuildButtonsMask(ParseState(r))
             = {b - 4 : b \in r[Buttons1] \cap 4 .. 7} \cup {b + 4 : b \in r[Buttons2]}
               \cup {b + 12 : b \in r[Buttons3] \cap 0 .. 2}
<1> DEFINE mask == BuildButtonsMask(ParseState(r))
           byte1 == r[Buttons1] byte2 == r[Buttons2] byte3 == r[Buttons3]
           high == {b - 4 : b \in byte1 \cap 4 .. 7}
           middle == {b + 4 : b \in byte2}
           low == {b + 12 : b \in byte3 \cap 0 .. 2}
<1>1. byte1 \in Byte /\ byte2 \in Byte /\ byte3 \in Byte
  BY DEF Report, InputReportSize, Buttons1, Buttons2, Buttons3
<1>2. \A k \in mask : k \in 0 .. 14
  <2>1. \A k \in mask : \E j \in 1 .. 15 : k = j - 1
    BY Zenon DEF BuildButtonsMask
  <2> QED
    BY <2>1
<1>3. \A k \in 0 .. 14 : k \in mask <=> k + 4 \in byte1 \/ k - 4 \in byte2 \/ k - 12 \in byte3
  BY InMask, ButtonPressed, Zenon
<1> HIDE DEF mask, byte1, byte2, byte3
<1>4. /\ \A b \in byte1 : b \in 0 .. 7
      /\ \A b \in byte2 : b \in 0 .. 7
      /\ \A b \in byte3 : b \in 0 .. 7
  BY <1>1 DEF Byte
<1>5. \A k : k \in high <=> k \in 0 .. 3 /\ k + 4 \in byte1
  <2>1. ASSUME NEW k \in high
        PROVE  k \in 0 .. 3 /\ k + 4 \in byte1
    <3>1. PICK b \in byte1 \cap 4 .. 7 : k = b - 4
      OBVIOUS
    <3>2. k \in 0 .. 3 /\ k + 4 = b
      BY <3>1
    <3> QED
      BY <3>1, <3>2
  <2>2. ASSUME NEW k \in 0 .. 3, k + 4 \in byte1
        PROVE  k \in high
    <3>1. k + 4 \in byte1 \cap 4 .. 7 /\ k = (k + 4) - 4
      BY <2>2
    <3> QED
      BY <3>1, Zenon
  <2> QED
    BY <2>1, <2>2
<1>6. \A k : k \in middle <=> k \in 4 .. 11 /\ k - 4 \in byte2
  <2>1. ASSUME NEW k \in middle
        PROVE  k \in 4 .. 11 /\ k - 4 \in byte2
    <3>1. PICK b \in byte2 : k = b + 4
      OBVIOUS
    <3>2. k \in 4 .. 11 /\ k - 4 = b
      BY <1>4, <3>1
    <3> QED
      BY <3>1, <3>2
  <2>2. ASSUME NEW k \in 4 .. 11, k - 4 \in byte2
        PROVE  k \in middle
    <3>1. k = (k - 4) + 4
      BY <2>2
    <3> QED
      BY <2>2, <3>1, Zenon
  <2> QED
    BY <2>1, <2>2
<1>7. \A k : k \in low <=> k \in 12 .. 14 /\ k - 12 \in byte3
  <2>1. ASSUME NEW k \in low
        PROVE  k \in 12 .. 14 /\ k - 12 \in byte3
    <3>1. PICK b \in byte3 \cap 0 .. 2 : k = b + 12
      OBVIOUS
    <3>2. k \in 12 .. 14 /\ k - 12 = b
      BY <3>1
    <3> QED
      BY <3>1, <3>2
  <2>2. ASSUME NEW k \in 12 .. 14, k - 12 \in byte3
        PROVE  k \in low
    <3>1. k - 12 \in byte3 \cap 0 .. 2 /\ k = (k - 12) + 12
      BY <2>2
    <3> QED
      BY <3>1, Zenon
  <2> QED
    BY <2>1, <2>2
<1> HIDE DEF high, middle, low
<1>8. ASSUME NEW k \in 0 .. 14
      PROVE  /\ k + 4 \in byte1 => k \in 0 .. 3
             /\ k - 4 \in byte2 => k \in 4 .. 11
             /\ k - 12 \in byte3 => k \in 12 .. 14
  BY <1>4
<1>9. \A k : k \in 0 .. 3 \/ k \in 4 .. 11 \/ k \in 12 .. 14 => k \in 0 .. 14
  OBVIOUS
<1>10. ASSUME NEW k
      PROVE  k \in mask <=> k \in high \cup middle \cup low
  BY <1>2, <1>3, <1>5, <1>6, <1>7, <1>8, <1>9, Zenon
<1>11. mask = high \cup middle \cup low
  BY <1>10, Zenon
<1> QED
  BY <1>11, Zenon DEF mask, byte1, byte2, byte3, high, middle, low

LEMMA FaceButtons ==
    ASSUME NEW r \in Report
    PROVE  LET pressed == ParseState(r).buttons
           IN  /\ "square" \in pressed <=> 4 \in r[Buttons1]
               /\ "cross" \in pressed <=> 5 \in r[Buttons1]
               /\ "circle" \in pressed <=> 6 \in r[Buttons1]
               /\ "triangle" \in pressed <=> 7 \in r[Buttons1]
<1> DEFINE pressed == ParseState(r).buttons
<1>1. r[Buttons2] \in Byte /\ r[Buttons3] \in Byte
  BY DEF Report, InputReportSize, Buttons2, Buttons3
<1>2. \A k \in 0 .. 3 : k - 4 \notin r[Buttons2] /\ k - 12 \notin r[Buttons3] /\ k \in 0 .. 14
  BY <1>1 DEF Byte
<1>3. \A k \in 0 .. 3 : ButtonOrder[k + 1] \in pressed <=> k + 4 \in r[Buttons1]
  BY <1>2, ButtonPressed, Zenon
<1>4. /\ ButtonOrder[0 + 1] = "square" /\ ButtonOrder[1 + 1] = "cross"
      /\ ButtonOrder[2 + 1] = "circle" /\ ButtonOrder[3 + 1] = "triangle"
  BY DEF ButtonOrder
<1> HIDE DEF pressed
<1>5. /\ ButtonOrder[0 + 1] \in pressed <=> 0 + 4 \in r[Buttons1]
      /\ ButtonOrder[1 + 1] \in pressed <=> 1 + 4 \in r[Buttons1]
      /\ ButtonOrder[2 + 1] \in pressed <=> 2 + 4 \in r[Buttons1]
      /\ ButtonOrder[3 + 1] \in pressed <=> 3 + 4 \in r[Buttons1]
  <2>1. 0 \in 0 .. 3 /\ 1 \in 0 .. 3 /\ 2 \in 0 .. 3 /\ 3 \in 0 .. 3
    OBVIOUS
  <2> QED
    BY <1>3, <2>1, Zenon
<1>6. /\ "square" \in pressed <=> 4 \in r[Buttons1]
      /\ "cross" \in pressed <=> 5 \in r[Buttons1]
      /\ "circle" \in pressed <=> 6 \in r[Buttons1]
      /\ "triangle" \in pressed <=> 7 \in r[Buttons1]
  BY <1>4, <1>5
<1> QED
  BY <1>6, Zenon DEF pressed

FaceNames == {"square", "cross", "circle", "triangle"}

LEMMA FaceShown ==
    ASSUME NEW state
    PROVE  FaceButtonsText(BuildButtonsMask(state)) = state.buttons \cap FaceNames
<1> DEFINE mask == BuildButtonsMask(state)
           names == <<"square", "cross", "circle", "triangle">>
<1>1. ASSUME NEW k \in 0 .. 3
      PROVE  k \in mask <=> ButtonOrder[k + 1] \in state.buttons
  <2>1. k \in 0 .. 14
    OBVIOUS
  <2> QED
    BY <2>1, InMask, Zenon
<1>2. /\ ButtonOrder[0 + 1] = "square" /\ ButtonOrder[1 + 1] = "cross"
      /\ ButtonOrder[2 + 1] = "circle" /\ ButtonOrder[3 + 1] = "triangle"
  BY DEF ButtonOrder
<1>3. /\ names[0 + 1] = "square" /\ names[1 + 1] = "cross"
      /\ names[2 + 1] = "circle" /\ names[3 + 1] = "triangle"
  OBVIOUS
<1>4. ASSUME NEW x
      PROVE  x \in FaceButtonsText(mask) <=> \E b \in 0 .. 3 : b \in mask /\ x = names[b + 1]
  BY Zenon DEF FaceButtonsText
<1> HIDE DEF mask, names
<1>5. ASSUME NEW x
      PROVE  x \in FaceButtonsText(mask) <=> x \in state.buttons /\ x \in FaceNames
  <2>1. /\ 0 \in mask <=> "square" \in state.buttons
        /\ 1 \in mask <=> "cross" \in state.buttons
        /\ 2 \in mask <=> "circle" \in state.buttons
        /\ 3 \in mask <=> "triangle" \in state.buttons
    BY <1>1, <1>2
  <2>2. x \in FaceButtonsText(mask)
          <=> \/ 0 \in mask /\ x = "square"
              \/ 1 \in mask /\ x = "cross"
              \/ 2 \in mask /\ x = "circle"
              \/ 3 \in mask /\ x = "triangle"
    <3>1. x \in FaceButtonsText(mask)
            <=> \E b \in 0 .. 3 : b \in mask /\ x = names[b + 1]
      BY <1>4, Zenon
    <3>2. (\E b \in 0 .. 3 : b \in mask /\ x = names[b + 1])
            <=> \/ 0 \in mask /\ x = names[0 + 1]
                \/ 1 \in mask /\ x = names[1 + 1]
                \/ 2 \in mask /\ x = names[2 + 1]
                \/ 3 \in mask /\ x = names[3 + 1]
      OBVIOUS
    <3> QED
      BY <1>3, <3>1, <3>2, Zenon
  <2> QED
    BY <2>1, <2>2 DEF FaceNames
<1> QED
  BY <1>5, Zenon DEF mask

LEMMA FacePressed ==
    ASSUME NEW r \in Report
    PROVE  LET all == {<<4, "square">>, <<5, "cross">>, <<6, "circle">>, <<7, "triangle">>}
               pressed == {p \in all : p[1] \in r[Buttons1]}
           IN  {p[2] : p \in pressed} = ParseState(r).buttons \cap FaceNames
<1> DEFINE all == {<<4, "square">>, <<5, "cross">>, <<6, "circle">>, <<7, "triangle">>}
           buttons == ParseState(r).buttons
<1>1. /\ "square" \in buttons <=> 4 \in r[Buttons1]
      /\ "cross" \in buttons <=> 5 \in r[Buttons1]
      /\ "circle" \in buttons <=> 6 \in r[Buttons1]
      /\ "triangle" \in buttons <=> 7 \in r[Buttons1]
  BY FaceButtons, Zenon
<1> HIDE DEF buttons
<1>2. ASSUME NEW x
      PROVE  (\E p \in all : p[1] \in r[Buttons1] /\ x = p[2])
               <=> \/ 4 \in r[Buttons1] /\ x = "square"
                   \/ 5 \in r[Buttons1] /\ x = "cross"
                   \/ 6 \in r[Buttons1] /\ x = "circle"
                   \/ 7 \in r[Buttons1] /\ x = "triangle"
  OBVIOUS
<1>3. ASSUME NEW x
      PROVE  (\E p \in all : p[1] \in r[Buttons1] /\ x = p[2])
               <=> x \in buttons /\ x \in FaceNames
  BY <1>1, <1>2 DEF FaceNames
<1> HIDE DEF all
<1>4. {p[2] : p \in {q \in all : q[1] \in r[Buttons1]}} = buttons \cap FaceNames
  BY <1>3, Zenon
<1> QED
  BY <1>4, Zenon DEF all, buttons

\* The words for the direction pad, by the bits of its nibble.
LEMMA DpadShown ==
    ASSUME NEW w
    PROVE  LET hat == w \cap 0 .. 3
               text == DpadText(DecodeDpad(LowNibble(w)))
           IN  /\ text = "Centered" <=> 3 \in hat
               /\ text \in {"UpLeft", "Up", "UpRight"} <=> hat \in {{0, 1, 2}, {}, {0}}
               /\ text \in {"UpRight", "Right", "DownRight"} <=> hat \in {{0}, {1}, {0, 1}}
               /\ text \in {"DownRight", "Down", "DownLeft"} <=> hat \in {{0, 1}, {2}, {0, 2}}
               /\ text \in {"DownLeft", "Left", "UpLeft"} <=> hat \in {{0, 2}, {1, 2}, {0, 1, 2}}
<1> DEFINE v == Value(LowNibble(w)) hat == w \cap 0 .. 3
           text == DpadText(DecodeDpad(LowNibble(w)))
<1>1. /\ v \in 0 .. 15
      /\ v <= 7 <=> 3 \notin w
      /\ v = (IF 0 \in w THEN 1 ELSE 0) + (IF 1 \in w THEN 2 ELSE 0)
             + (IF 2 \in w THEN 4 ELSE 0) + (IF 3 \in w THEN 8 ELSE 0)
  BY NibbleValue, Zenon
<1>2. text = DpadText(IF v <= 7 THEN v ELSE 8)
  BY Zenon DEF DecodeDpad, Centered
<1>3. \A b \in 0 .. 3 : b \in hat <=> b \in w
  OBVIOUS
<1>4. \A b \in hat : b = 0 \/ b = 1 \/ b = 2 \/ b = 3
  OBVIOUS
<1> HIDE DEF v, text, hat
<1>5. CASE 3 \in w
  <2>1. text = DpadText(8)
    BY <1>1, <1>2, <1>5, Zenon
  <2>2. text = "Centered"
    BY <2>1 DEF DpadText
  <2>3. 3 \in hat
    BY <1>3, <1>5
  <2> QED
    BY <2>2, <2>3 DEF text, hat
<1>6. CASE 3 \notin w
  <2>1. v \in 0 .. 7 /\ text = DpadText(v) /\ 3 \notin hat
    BY <1>1, <1>2, <1>3, <1>6
  <2>2. v = 0 <=> hat = {}
    BY <1>1, <1>3, <1>4, <1>6
  <2>3. v = 1 <=> hat = {0}
    BY <1>1, <1>3, <1>4, <1>6
  <2>4. v = 2 <=> hat = {1}
    BY <1>1, <1>3, <1>4, <1>6
  <2>5. v = 3 <=> hat = {0, 1}
    BY <1>1, <1>3, <1>4, <1>6
  <2>6. v = 4 <=> hat = {2}
    BY <1>1, <1>3, <1>4, <1>6
  <2>7. v = 5 <=> hat = {0, 2}
    BY <1>1, <1>3, <1>4, <1>6
  <2>8. v = 6 <=> hat = {1, 2}
    BY <1>1, <1>3, <1>4, <1>6
  <2>9. v = 7 <=> hat = {0, 1, 2}
    BY <1>1, <1>3, <1>4, <1>6
  <2>10. v = 0 \/ v = 1 \/ v = 2 \/ v = 3 \/ v = 4 \/ v = 5 \/ v = 6 \/ v = 7
    BY <2>1
  <2>11. /\ v = 0 => text = "Up"
         /\ v = 1 => text = "UpRight"
         /\ v = 2 => text = "Right"
         /\ v = 3 => text = "DownRight"
         /\ v = 4 => text = "Down"
         /\ v = 5 => text = "DownLeft"
         /\ v = 6 => text = "Left"
         /\ v = 7 => text = "UpLeft"
    BY <2>1 DEF DpadText
  <2>12. text # "Centered"
    BY <2>10, <2>11
  <2>13. text \in {"UpLeft", "Up", "UpRight"} <=> hat \in {{0, 1, 2}, {}, {0}}
    <3>1. text \in {"UpLeft", "Up", "UpRight"} <=> v = 7 \/ v = 0 \/ v = 1
      BY <2>10, <2>11
    <3> QED
      BY <3>1, <2>9, <2>2, <2>3, Zenon
  <2>14. text \in {"UpRight", "Right", "DownRight"} <=> hat \in {{0}, {1}, {0, 1}}
    <3>1. text \in {"UpRight", "Right", "DownRight"} <=> v = 1 \/ v = 2 \/ v = 3
      BY <2>10, <2>11
    <3> QED
      BY <3>1, <2>3, <2>4, <2>5, Zenon
  <2>15. text \in {"DownRight", "Down", "DownLeft"} <=> hat \in {{0, 1}, {2}, {0, 2}}
    <3>1. text \in {"DownRight", "Down", "DownLeft"} <=> v = 3 \/ v = 4 \/ v = 5
      BY <2>10, <2>11
    <3> QED
      BY <3>1, <2>5, <2>6, <2>7, Zenon
  <2>16. text \in {"DownLeft", "Left", "UpLeft"} <=> hat \in {{0, 2}, {1, 2}, {0, 1, 2}}
    <3>1. text \in {"DownLeft", "Left", "UpLeft"} <=> v = 5 \/ v = 6 \/ v = 7
      BY <2>10, <2>11
    <3> QED
      BY <3>1, <2>7, <2>8, <2>9, Zenon
  <2> QED
    BY <2>1, <2>12, <2>13, <2>14, <2>15, <2>16, Zenon DEF text, hat
<1> QED
  BY <1>5, <1>6

(* What is written to the controller.                                      *)

\* The tag of a packet is the counter modulo 16.
LEMMA TagIs ==
    ASSUME NEW n \in 0 .. 255
    PROVE  LET tag == NextSequenceTag(n).tag
           IN  tag \in Byte /\ Value(HighNibble(tag)) = n % 16
<1> DEFINE w == B(n) tag == NextSequenceTag(n).tag
<1>1. \A b \in 0 .. 3 : b \in w <=> (n \div Weight[b + 1]) % 2 = 1
  BY DEF B
<1>2. tag = {b + 4 : b \in LowNibble(w)}
  BY DEF NextSequenceTag
<1> HIDE DEF w, tag
<1>3. tag \in Byte /\ HighNibble(tag) = LowNibble(w)
  <2>1. \A x : x \in tag <=> \E b \in 0 .. 3 : b \in w /\ x = b + 4
    BY <1>2, Zenon DEF LowNibble
  <2>2. tag \in Byte
    BY <2>1 DEF Byte
  <2>3. HighNibble(tag) = LowNibble(w)
    BY <2>1 DEF HighNibble, LowNibble
  <2> QED
    BY <2>2, <2>3
<1>4. Value(LowNibble(w)) = (IF 0 \in w THEN 1 ELSE 0) + (IF 1 \in w THEN 2 ELSE 0)
                            + (IF 2 \in w THEN 4 ELSE 0) + (IF 3 \in w THEN 8 ELSE 0)
  BY DEF Value, Weight, LowNibble
<1>5. /\ 0 \in w <=> (n \div 1) % 2 = 1
      /\ 1 \in w <=> (n \div 2) % 2 = 1
      /\ 2 \in w <=> (n \div 4) % 2 = 1
      /\ 3 \in w <=> (n \div 8) % 2 = 1
  BY <1>1 DEF Weight
<1>6. n % 16 = ((n \div 1) % 2) + 2 * ((n \div 2) % 2)
                 + 4 * ((n \div 4) % 2) + 8 * ((n \div 8) % 2)
  OBVIOUS
<1>7. /\ (n \div 1) % 2 \in {0, 1} /\ (n \div 2) % 2 \in {0, 1}
      /\ (n \div 4) % 2 \in {0, 1} /\ (n \div 8) % 2 \in {0, 1}
  OBVIOUS
<1>8. Value(LowNibble(w)) = n % 16
  BY <1>4, <1>5, <1>6, <1>7
<1> QED
  BY <1>3, <1>8, Zenon DEF tag

LEMMA PaddedIs ==
    ASSUME NEW n \in Nat, NEW p \in Packet
    PROVE  /\ Padded(n, p) \in Packet /\ Len(Padded(n, p)) = n
           /\ \A i \in 1 .. n : Padded(n, p)[i] = IF i <= Len(p) THEN p[i] ELSE {}
<1>1. \A i \in 1 .. n : (IF i <= Len(p) THEN p[i] ELSE {}) \in Byte
  BY DEF Packet, Byte
<1>2. Padded(n, p) \in [1 .. n -> Byte]
  BY <1>1 DEF Padded
<1>3. \A i \in 1 .. n : Padded(n, p)[i] = IF i <= Len(p) THEN p[i] ELSE {}
  BY DEF Padded
<1> QED
  BY <1>2, <1>3, FunctionIsSeq, Zenon DEF Packet

Sent(p) == IF Head(p) = kDualSenseOutputReportUsbId THEN Tail(p) ELSE p
Common(p) == SubSeq(NormalizeUsbOutput(p), 2, 1 + CommonSize)

\* The common part of a report is that of what follows the id.
LEMMA CommonIs ==
    ASSUME NEW p \in Packet, p # <<>>
    PROVE  /\ Common(p) = Padded(CommonSize, Sent(p))
           /\ Common(p) \in Packet /\ Len(Common(p)) = 47
<1> DEFINE id == kDualSenseOutputReportUsbId
           full == IF Head(p) = id THEN p ELSE <<id>> \o p
           sent == Sent(p)
<1>1. sent \in Packet /\ full \in Packet /\ Len(full) = Len(sent) + 1
      /\ \A i \in 1 .. Len(sent) : full[i + 1] = sent[i]
  <2>1. CASE Head(p) = id
    <3>1. /\ Tail(p) \in Packet /\ Len(Tail(p)) = Len(p) - 1
          /\ \A i \in 1 .. Len(Tail(p)) : Tail(p)[i] = p[i + 1]
      BY HeadTailProperties, Zenon DEF Packet
    <3>2. sent = Tail(p) /\ full = p
      BY <2>1, Zenon DEF Sent
    <3>3. Len(p) \in Nat
      BY DEF Packet
    <3> HIDE DEF sent, full
    <3> QED
      BY <3>1, <3>2, <3>3
  <2>2. CASE Head(p) # id
    <3>1. <<id>> \in Packet /\ Len(<<id>>) = 1
      BY Constants DEF Packet
    <3>2. /\ <<id>> \o p \in Packet /\ Len(<<id>> \o p) = Len(<<id>>) + Len(p)
          /\ \A i \in 1 .. Len(<<id>>) + Len(p) :
                (<<id>> \o p)[i] = IF i <= Len(<<id>>) THEN <<id>>[i] ELSE p[i - Len(<<id>>)]
      BY <3>1, ConcatIs, Zenon
    <3>3. sent = p /\ full = <<id>> \o p
      BY <2>2, Zenon DEF Sent
    <3>4. Len(p) \in Nat
      BY DEF Packet
    <3> HIDE DEF sent, full
    <3>5. full \in Packet /\ Len(full) = 1 + Len(sent)
          /\ \A i \in 1 .. 1 + Len(sent) : full[i] = IF i <= 1 THEN <<id>>[i] ELSE sent[i - 1]
      BY <3>1, <3>2, <3>3, Zenon
    <3> QED
      BY <3>3, <3>4, <3>5
  <2> QED
    BY <2>1, <2>2
<1> HIDE DEF full, sent
<1> DEFINE usb == Padded(63, full) m == 2 n == 48 c == SubSeq(usb, m, n) short == Padded(47, sent)
<1>2. /\ usb \in Packet /\ Len(usb) = 63
      /\ \A i \in 1 .. 63 : usb[i] = IF i <= Len(full) THEN full[i] ELSE {}
  <2>1. 63 \in Nat
    OBVIOUS
  <2> QED
    BY <1>1, <2>1, PaddedIs, Zenon
<1>3. /\ short \in Packet /\ Len(short) = 47
      /\ \A i \in 1 .. 47 : short[i] = IF i <= Len(sent) THEN sent[i] ELSE {}
  <2>1. 47 \in Nat
    OBVIOUS
  <2> QED
    BY <1>1, <2>1, PaddedIs, Zenon
<1>4. Common(p) = c /\ Padded(CommonSize, Sent(p)) = short
  <2>1. 1 + CommonSize = 48 /\ CommonSize = 47 /\ OutputReportUsbSize = 63
    BY DEF CommonSize, OutputReportUsbSize
  <2> QED
    BY <2>1, Zenon DEF Common, NormalizeUsbOutput, full, sent
<1> HIDE DEF usb, short
<1>5. m \in Nat \ {0} /\ n \in Nat /\ m - 1 <= n /\ n <= Len(usb)
  <2>1. Len(usb) = 63
    BY <1>2
  <2> QED
    BY <2>1
<1>6. n - m + 1 = 47 /\ m = 2
  OBVIOUS
<1> HIDE DEF m, n
<1>7. c \in Packet /\ Len(c) = n - m + 1 /\ \A i \in 1 .. n - m + 1 : c[i] = usb[m + i - 1]
  <2>1. usb \in Packet
    BY <1>2
  <2> QED
    BY <1>5, <2>1, SubSeqIs, Zenon
<1> HIDE DEF c
<1>8. ASSUME NEW i \in 1 .. 47
      PROVE  c[i] = short[i]
  <2>1. i \in 1 .. n - m + 1 /\ m + i - 1 = i + 1 /\ i + 1 \in 1 .. 63
    BY <1>6
  <2>2. c[i] = usb[i + 1]
    BY <1>7, <2>1, Zenon
  <2>3. usb[i + 1] = IF i + 1 <= Len(full) THEN full[i + 1] ELSE {}
    BY <1>2, <2>1, Zenon
  <2>4. short[i] = IF i <= Len(sent) THEN sent[i] ELSE {}
    BY <1>3, Zenon
  <2>5. /\ i + 1 <= Len(full) <=> i <= Len(sent)
        /\ i <= Len(sent) => i \in 1 .. Len(sent)
    BY <1>1 DEF Packet
  <2> QED
    BY <1>1, <2>2, <2>3, <2>4, <2>5, Zenon
<1>9. Len(c) = Len(short) /\ \A i \in 1 .. Len(short) : c[i] = short[i]
  BY <1>3, <1>6, <1>7, <1>8, Zenon
<1>10. c = short
  <2>1. c \in Packet /\ short \in Packet
    BY <1>3, <1>7
  <2> QED
    BY <1>9, <2>1, SamePacket
<1> QED
  BY <1>3, <1>4, <1>10, Zenon

TagOf(packed) == packed[2]

OutPayload(p, tag) ==
    <<kDualSenseOutputReportBtId, tag, kDualSenseBtOutputTag>> \o Common(p) \o Zeros(24)

LEMMA OutPayloadIs ==
    ASSUME NEW p \in Packet, p # <<>>, NEW tag \in Byte
    PROVE  /\ OutPayload(p, tag) \in PacketOf(74)
           /\ OutPayload(p, tag)[2] = tag
           /\ \A i \in 1 .. 47 : OutPayload(p, tag)[i + 3] = Common(p)[i]
<1> DEFINE head == <<kDualSenseOutputReportBtId, tag, kDualSenseBtOutputTag>>
           zeros == Zeros(24)
           c == Common(p)
           front == head \o c
           q == front \o zeros
<1>1. head \in Packet /\ Len(head) = 3 /\ head[2] = tag
  BY Constants DEF Packet
<1>2. c \in Packet /\ Len(c) = 47
  BY CommonIs, Zenon
<1>3. zeros \in Packet /\ Len(zeros) = 24
  <2>1. 24 \in Nat
    OBVIOUS
  <2> QED
    BY <2>1, ZerosIs, Zenon
<1> HIDE DEF head, zeros, c
<1>4. /\ front \in Packet /\ Len(front) = Len(head) + Len(c)
      /\ \A i \in 1 .. Len(head) + Len(c) :
            front[i] = IF i <= Len(head) THEN head[i] ELSE c[i - Len(head)]
  BY <1>1, <1>2, ConcatIs, Zenon
<1> HIDE DEF front
<1>5. /\ q \in Packet /\ Len(q) = Len(front) + Len(zeros)
      /\ \A i \in 1 .. Len(front) + Len(zeros) :
            q[i] = IF i <= Len(front) THEN front[i] ELSE zeros[i - Len(front)]
  BY <1>3, <1>4, ConcatIs, Zenon
<1> HIDE DEF q
<1>6. q \in PacketOf(74)
  BY <1>1, <1>2, <1>3, <1>4, <1>5 DEF PacketOf
<1>7. q[2] = tag
  BY <1>1, <1>2, <1>3, <1>4, <1>5
<1>8. ASSUME NEW i \in 1 .. 47
      PROVE  q[i + 3] = c[i]
  <2>1. Len(head) = 3 /\ Len(c) = 47 /\ Len(front) = 50 /\ Len(zeros) = 24
    BY <1>1, <1>2, <1>3, <1>4
  <2>2. /\ i + 3 \in 1 .. Len(head) + Len(c) /\ ~(i + 3 <= Len(head))
        /\ i + 3 \in 1 .. Len(front) + Len(zeros) /\ i + 3 <= Len(front)
        /\ (i + 3) - Len(head) = i
    BY <2>1
  <2>3. q[i + 3] = front[i + 3]
    BY <1>5, <2>2, Zenon
  <2>4. front[i + 3] = c[(i + 3) - Len(head)]
    BY <1>4, <2>2, Zenon
  <2> QED
    BY <2>2, <2>3, <2>4, Zenon
<1> QED
  BY <1>6, <1>7, <1>8, Zenon DEF q, front, head, zeros, c, OutPayload

\* A packet for the controller: its tag, the common part, and the CRC.
LEMMA OutPacketIs ==
    ASSUME NEW p \in Packet, p # <<>>, NEW tag \in Byte
    PROVE  LET q == ToBluetoothOutputReport(p, tag)
           IN  /\ q \in Packet /\ Len(q) = 78 /\ TagOf(q) = tag
               /\ SubSeq(q, 4, 3 + CommonSize) = Padded(CommonSize, Sent(p))
               /\ Crc32(Crc32(Word32, <<kDualSenseOutputCrcSeed>>), q) = Residue
<1> DEFINE payload == OutPayload(p, tag)
           crc == ComputeSeededDualSenseCrc(kDualSenseOutputCrcSeed, payload)
           initial == Crc32(Word32, <<kDualSenseOutputCrcSeed>>)
           c == Common(p)
           q == payload \o WriteLe32(crc)
           m == 4 n == 50 s == SubSeq(q, m, n)
<1>1. ToBluetoothOutputReport(p, tag) = q
  BY Zenon DEF ToBluetoothOutputReport, OutPayload, Common
<1>2. /\ payload \in PacketOf(74) /\ payload \in Packet
      /\ payload[2] = tag /\ \A i \in 1 .. 47 : payload[i + 3] = c[i]
  <2>1. /\ payload \in PacketOf(74) /\ payload[2] = tag
        /\ \A i \in 1 .. 47 : payload[i + 3] = c[i]
    BY OutPayloadIs, Zenon
  <2> QED
    BY <2>1, Zenon DEF PacketOf
<1>3. /\ q \in Packet /\ Len(q) = 78
      /\ \A i \in 1 .. 74 : q[i] = payload[i]
  <2>1. q \in PacketOf(78) /\ BeginsWith(q, payload, WriteLe32(crc))
    BY <1>2, SealIs, Zenon
  <2> QED
    BY <2>1, Zenon DEF PacketOf, BeginsWith
<1>4. c \in Packet /\ Len(c) = 47 /\ c = Padded(CommonSize, Sent(p))
  BY CommonIs, Zenon
<1>5. Crc32(initial, q) = Residue
  <2>1. initial \in SUBSET Word32 /\ payload \in Seq(Byte)
    BY <1>2, SeededType, Constants, Zenon DEF Packet
  <2>2. crc = Word32 \ Crc32(initial, payload)
    BY Zenon DEF ComputeSeededDualSenseCrc
  <2> HIDE DEF payload, initial, crc
  <2> QED
    BY <2>1, <2>2, CrcOfSealed, Zenon
<1> HIDE DEF payload, crc, c, q
<1>6. TagOf(q) = tag
  <2>1. 2 \in 1 .. 74
    OBVIOUS
  <2> QED
    BY <1>2, <1>3, <2>1, Zenon DEF TagOf
<1>7. m \in Nat \ {0} /\ n \in Nat /\ m - 1 <= n /\ n <= Len(q)
  <2>1. Len(q) = 78
    BY <1>3
  <2> QED
    BY <2>1
<1>8. n - m + 1 = 47 /\ m = 4
  OBVIOUS
<1>9. SubSeq(q, 4, 3 + CommonSize) = s
  BY DEF CommonSize
<1> HIDE DEF m, n
<1>10. s \in Packet /\ Len(s) = n - m + 1 /\ \A i \in 1 .. n - m + 1 : s[i] = q[m + i - 1]
  <2>1. q \in Packet
    BY <1>3
  <2> QED
    BY <1>7, <2>1, SubSeqIs, Zenon
<1> HIDE DEF s
<1>11. ASSUME NEW i \in 1 .. 47
       PROVE  s[i] = c[i]
  <2>1. i \in 1 .. n - m + 1 /\ m + i - 1 = i + 3 /\ i + 3 \in 1 .. 74
    BY <1>8
  <2>2. s[i] = q[i + 3]
    BY <1>10, <2>1, Zenon
  <2>3. q[i + 3] = payload[i + 3]
    BY <1>3, <2>1, Zenon
  <2>4. payload[i + 3] = c[i]
    BY <1>2, Zenon
  <2> QED
    BY <2>2, <2>3, <2>4
<1>12. Len(s) = Len(c) /\ \A i \in 1 .. Len(c) : s[i] = c[i]
  BY <1>4, <1>8, <1>10, <1>11, Zenon
<1>13. s = c
  <2>1. s \in Packet /\ c \in Packet
    BY <1>4, <1>10
  <2> QED
    BY <1>12, <2>1, SamePacket
<1> QED
  BY <1>1, <1>3, <1>4, <1>5, <1>6, <1>9, <1>13, Zenon

-----------------------------------------------------------------------------
(* The invariants.                                                         *)

\* What the packet is: the report of the controller is in it, or it was damaged and is
\* then no report, unless its id became that of USB.
Arrived ==
    /\ report \in Report \cup {NotParsed} /\ packet \in Packet
    /\ packet # <<>> =>
          /\ report # NotParsed => TryParseBluetoothInput(packet) = report
          /\ report = NotParsed =>
                (TryParseBluetoothInput(packet) # NotParsed
                   <=> Head(packet) = kDualSenseInputReportUsbId)

\* What was made of it.
Handled ==
    /\ verdict \in {None, "ignored", "delivered"}
    /\ verdict = None => submitted = <<>>
    /\ verdict # None => packet # <<>>
    /\ verdict = "ignored" => TryParseBluetoothInput(packet) = NotParsed /\ submitted = <<>>
    /\ verdict = "delivered" =>
          LET r == TryParseBluetoothInput(packet)
          IN  /\ r # NotParsed /\ submitted = ToUsbInputReport(r)
              /\ last_state_ = ParseState(r)
              /\ shown = Dashboard(BuildStatusPayload(last_state_))
              /\ line = FormatStateLine(last_state_)

\* The packet for the controller is that of a report of the game, if the last one was
\* not empty, and has the tag before the next one.
Written ==
    /\ sequence \in 0 .. 255 /\ output \in Packet /\ written \in Packet
    /\ written # <<>> =>
          /\ Len(written) = 78 /\ Value(HighNibble(TagOf(written))) = (sequence + 255) % 16
          /\ output # <<>> =>
                \E tag \in Byte : written = ToBluetoothOutputReport(output, tag)

IInv == way \in {"input", "output"} /\ Arrived /\ Handled /\ Written

LEMMA InitIInv == Init => IInv
<1> SUFFICES ASSUME Init
             PROVE  IInv
  OBVIOUS
<1>1. <<>> \in Packet
  BY EmptySeq, Zenon DEF Packet
<1>2. 0 \in 0 .. 255
  OBVIOUS
<1>3. Arrived
  BY <1>1, Zenon DEF Init, Arrived
<1>4. Handled
  <2>1. None # "ignored" /\ None # "delivered"
    BY DEF None
  <2> QED
    BY <2>1, Zenon DEF Init, Handled
<1>5. Written
  BY <1>1, <1>2, Zenon DEF Init, Written
<1> QED
  BY <1>3, <1>4, <1>5, Zenon DEF Init, IInv

LEMMA ArrivesIInv ==
    ASSUME IInv, PacketArrives
    PROVE  IInv'
<1>1. /\ packet = <<>> /\ way' = way /\ verdict' = verdict /\ submitted' = submitted
      /\ sequence' = sequence /\ output' = output /\ written' = written
  BY Zenon DEF PacketArrives, outputVars
<1>2. verdict = None /\ submitted = <<>>
  BY <1>1, Zenon DEF IInv, Handled
<1>3. Arrived' /\ packet' # <<>>
  <2>1. PICK r \in Reports :
          \/ report' = r /\ packet' \in Longer(Sealed(r)) \cup {<<kDualSenseInputReportUsbId>> \o r}
          \/ r \in Hit /\ report' = NotParsed /\ packet' \in Damaged(Sealed(r)) \ {<<>>}
    BY Zenon DEF PacketArrives
  <2>2. r \in Report /\ Errors \subseteq Byte \ {{}}
    BY PacketAssumption, Zenon DEF PacketAssumption, Report
  <2>3. r # NotParsed
    BY <2>2, ReportIsPacket, Zenon
  <2>4. CASE report' = r /\ packet' \in Longer(Sealed(r))
    <3>1. packet' \in Packet /\ packet' # <<>> /\ TryParseBluetoothInput(packet') = r
      BY <2>2, <2>4, LongerParses, Zenon
    <3> QED
      BY <2>2, <2>3, <2>4, <3>1, Zenon DEF Arrived
  <2>5. CASE report' = r /\ packet' = <<kDualSenseInputReportUsbId>> \o r
    <3>1. packet' \in Packet /\ packet' # <<>> /\ TryParseBluetoothInput(packet') = r
      BY <2>2, <2>5, UsbParses, Zenon
    <3> QED
      BY <2>2, <2>3, <2>5, <3>1, Zenon DEF Arrived
  <2>6. CASE report' = NotParsed /\ packet' \in Damaged(Sealed(r)) \ {<<>>}
    <3>1. /\ packet' \in Packet
          /\ TryParseBluetoothInput(packet') # NotParsed
               <=> Head(packet') = kDualSenseInputReportUsbId
      BY <2>2, <2>6, DamagedParses, Zenon
    <3> QED
      BY <2>6, <3>1, Zenon DEF Arrived
  <2> QED
    BY <2>1, <2>4, <2>5, <2>6, Zenon
<1>4. Handled'
  <2>1. None # "ignored" /\ None # "delivered"
    BY DEF None
  <2> QED
    BY <1>1, <1>2, <2>1, Zenon DEF Handled
<1>5. Written'
  BY <1>1, Zenon DEF IInv, Written
<1> QED
  BY <1>1, <1>3, <1>4, <1>5, Zenon DEF IInv

LEMMA HandlesIInv ==
    ASSUME IInv, HandleBluetoothInputReport
    PROVE  IInv'
<1> DEFINE r == TryParseBluetoothInput(packet)
<1>1. /\ packet # <<>> /\ verdict = None /\ way' = way /\ packet' = packet /\ report' = report
      /\ sequence' = sequence /\ output' = output /\ written' = written
  BY Zenon DEF HandleBluetoothInputReport, outputVars
<1>2. submitted = <<>>
  BY <1>1, Zenon DEF IInv, Handled
<1>3. TryParseBluetoothInput(packet') = r
  BY <1>1, Zenon
<1>4. \/ /\ r = NotParsed /\ verdict' = "ignored"
         /\ submitted' = submitted
      \/ /\ r # NotParsed /\ verdict' = "delivered"
         /\ submitted' = ToUsbInputReport(r) /\ last_state_' = ParseState(r)
         /\ shown' = Dashboard(BuildStatusPayload(ParseState(r)))
         /\ line' = FormatStateLine(ParseState(r))
  BY Zenon DEF HandleBluetoothInputReport
<1>5. None # "ignored" /\ None # "delivered" /\ "ignored" # "delivered"
  BY DEF None
<1> HIDE DEF r
<1>6. Handled'
  <2>1. CASE r = NotParsed /\ verdict' = "ignored" /\ submitted' = submitted
    BY <1>1, <1>2, <1>3, <1>5, <2>1, Zenon DEF Handled
  <2>2. CASE /\ r # NotParsed /\ verdict' = "delivered"
             /\ submitted' = ToUsbInputReport(r) /\ last_state_' = ParseState(r)
             /\ shown' = Dashboard(BuildStatusPayload(ParseState(r)))
             /\ line' = FormatStateLine(ParseState(r))
    BY <1>1, <1>3, <1>5, <2>2, Zenon DEF Handled
  <2> QED
    BY <1>4, <2>1, <2>2, Zenon
<1>7. Arrived' /\ Written'
  BY <1>1, Zenon DEF IInv, Arrived, Written
<1> QED
  BY <1>1, <1>6, <1>7, Zenon DEF IInv

LEMMA OutputIInv ==
    ASSUME IInv, HandleVirtualOutputReport
    PROVE  IInv'
<1>1. /\ way' = way /\ packet' = packet /\ verdict' = verdict /\ report' = report
      /\ last_state_' = last_state_ /\ submitted' = submitted /\ shown' = shown /\ line' = line
  BY Zenon DEF HandleVirtualOutputReport, inputVars
<1>2. Arrived' /\ Handled'
  BY <1>1, Zenon DEF IInv, Arrived, Handled
<1>3. output' \in Packet
  BY PacketAssumption, Zenon DEF HandleVirtualOutputReport, PacketAssumption, Packet
<1>4. sequence \in 0 .. 255 /\ Written
  BY Zenon DEF IInv, Written
<1>5. CASE output' = <<>>
  <2>1. sequence' = sequence /\ written' = written
    BY <1>5, Zenon DEF HandleVirtualOutputReport
  <2> QED
    BY <1>1, <1>2, <1>3, <1>4, <1>5, <2>1, Zenon DEF IInv, Written
<1>6. CASE output' # <<>>
  <2> DEFINE tag == NextSequenceTag(sequence).tag
  <2>1. /\ sequence' = NextSequenceTag(sequence).next
        /\ written' = ToBluetoothOutputReport(output', tag)
    BY <1>6, Zenon DEF HandleVirtualOutputReport
  <2>2. tag \in Byte /\ Value(HighNibble(tag)) = sequence % 16
    BY <1>4, TagIs, Zenon
  <2>3. sequence' \in 0 .. 255 /\ (sequence' + 255) % 16 = sequence % 16
    <3>1. sequence' = (sequence + 1) % 256
      BY <2>1 DEF NextSequenceTag
    <3> QED
      BY <1>4, <3>1
  <2> HIDE DEF tag
  <2>4. written' \in Packet /\ Len(written') = 78 /\ TagOf(written') = tag
    <3>1. output' \in Packet /\ output' # <<>> /\ tag \in Byte
      BY <1>3, <1>6, <2>2, Zenon
    <3> QED
      BY <2>1, <3>1, OutPacketIs, Zenon
  <2>5. Written'
    BY <1>3, <2>1, <2>2, <2>3, <2>4, Zenon DEF Written
  <2> QED
    BY <1>1, <1>2, <2>5, Zenon DEF IInv
<1> QED
  BY <1>5, <1>6

LEMMA NextIInv == IInv /\ [Next]_vars => IInv'
<1> SUFFICES ASSUME IInv, [Next]_vars
             PROVE  IInv'
  OBVIOUS
<1>1. CASE PacketArrives
  BY <1>1, ArrivesIInv
<1>2. CASE HandleBluetoothInputReport
  BY <1>2, HandlesIInv
<1>3. CASE HandleVirtualOutputReport
  BY <1>3, OutputIInv
<1>4. CASE UNCHANGED vars
  <2>1. /\ way' = way /\ packet' = packet /\ verdict' = verdict /\ report' = report
        /\ last_state_' = last_state_ /\ submitted' = submitted /\ shown' = shown /\ line' = line
        /\ sequence' = sequence /\ output' = output /\ written' = written
    BY <1>4, Zenon DEF vars, inputVars, outputVars
  <2>2. Arrived'
    BY <2>1, Zenon DEF IInv, Arrived
  <2>3. Handled'
    BY <2>1, Zenon DEF IInv, Handled
  <2>4. Written'
    BY <2>1, Zenon DEF IInv, Written
  <2> QED
    BY <2>1, <2>2, <2>3, <2>4, Zenon DEF IInv
<1> QED
  BY <1>1, <1>2, <1>3, <1>4 DEF Next

\* The inductive invariant: the packet is what was sent or a damaged one the parser refuses
\* (but for the USB id), all that was made of it comes from one parse, and the packet for the
\* controller has the tag before the counter's (controller_proxy.cpp's two report handlers).
THEOREM Invariant == Spec => []IInv
BY InitIInv, NextIInv, PTL DEF Spec

-----------------------------------------------------------------------------
(* The properties of the run "packets".                                    *)

LEMMA DeliveredIs ==
    ASSUME IInv, verdict = "delivered"
    PROVE  LET r == TryParseBluetoothInput(packet)
           IN  /\ r \in Report /\ packet # <<>>
               /\ submitted \in Packet /\ Len(submitted) = 64 /\ Tail(submitted) = r
               /\ TryParseBluetoothInput(submitted) = r
               /\ last_state_ = ParseState(r)
               /\ shown = Dashboard(BuildStatusPayload(ParseState(r)))
               /\ line = FormatStateLine(ParseState(r))
<1> DEFINE r == TryParseBluetoothInput(packet)
<1>1. "delivered" # None
  BY DEF None
<1>2. /\ packet # <<>> /\ r # NotParsed /\ submitted = ToUsbInputReport(r)
      /\ last_state_ = ParseState(r)
      /\ shown = Dashboard(BuildStatusPayload(last_state_))
      /\ line = FormatStateLine(last_state_)
  BY <1>1, Zenon DEF IInv, Handled
<1>3. r \in Report
  <2>1. packet \in Packet
    BY Zenon DEF IInv, Arrived
  <2> QED
    BY <1>2, <2>1, ParseType, Zenon
<1> HIDE DEF r
<1>4. submitted = <<kDualSenseInputReportUsbId>> \o r
  BY <1>2, Zenon DEF ToUsbInputReport
<1>5. /\ submitted \in Packet /\ Len(submitted) = 64 /\ Tail(submitted) = r
      /\ TryParseBluetoothInput(submitted) = r
  BY <1>3, <1>4, UsbParses, Zenon
<1> QED
  BY <1>2, <1>3, <1>5, Zenon DEF r

\* Every variable has its type: in particular, the battery that is shown never exceeds 100 and
\* the packets that are written have their size (dualsense_parser.cpp:27-49,
\* packet_translation.cpp:26-40).
THEOREM TypeCorrect == Spec => []TypeOK
<1>1. IInv => TypeOK
  <2> SUFFICES ASSUME IInv
               PROVE  TypeOK
    OBVIOUS
  <2>1. /\ way \in {"input", "output"} /\ verdict \in {None, "ignored", "delivered"}
        /\ packet \in Packet /\ output \in Packet /\ written \in Packet
        /\ sequence \in 0 .. 255
    BY Zenon DEF IInv, Arrived, Handled, Written
  <2>2. <<>> \in Packet /\ Len(<<>>) = 0
    BY EmptySeq, Zenon DEF Packet
  <2>3. report \in Packet
    <3>1. report \in Report \/ report = <<>>
      BY Zenon DEF IInv, Arrived, NotParsed
    <3> QED
      BY <2>2, <3>1, ReportIsPacket, Zenon
  <2>4. Len(written) \in {0, 78}
    BY <2>2, Zenon DEF IInv, Written
  <2>5. submitted \in Packet /\ Len(submitted) \in {0, 64}
    <3>1. CASE verdict = "delivered"
      BY <3>1, DeliveredIs, Zenon
    <3>2. CASE verdict # "delivered"
      <4>1. submitted = <<>>
        BY <2>1, <3>2, Zenon DEF IInv, Handled
      <4> QED
        BY <2>2, <4>1, Zenon
    <3> QED
      BY <3>1, <3>2
  <2>6. ASSUME verdict = "delivered"
        PROVE  last_state_.dpad \in 0 .. 8 /\ last_state_.battery_percent \in 0 .. 100
    <3>1. PICK r \in Report : last_state_ = ParseState(r)
      BY <2>6, DeliveredIs, Zenon
    <3>2. /\ last_state_.dpad = DecodeDpad(LowNibble(r[Buttons1]))
          /\ last_state_.battery_percent = NormalizeBattery(r[Status0])
      BY <3>1 DEF ParseState
    <3> QED
      BY <3>2, DpadType, BatteryType, Zenon
  <2> QED
    BY <2>1, <2>3, <2>4, <2>5, <2>6, Zenon DEF TypeOK, Packet
<1> QED
  BY <1>1, Invariant, PTL

\* A packet is delivered exactly if it is one the controller sent, for every report, every
\* way to change bits of one byte and every cut, unless the hit makes the id that of USB;
\* the virtual device gets the report as it was (dualsense_parser.cpp:10-25, 51-90,
\* packet_translation.cpp:44-50).
THEOREM DeliveredIffIntactCorrect == Spec => []DeliveredIffIntact
<1>1. IInv => DeliveredIffIntact
  <2> SUFFICES ASSUME IInv
               PROVE  DeliveredIffIntact
    OBVIOUS
  <2> DEFINE r == TryParseBluetoothInput(packet)
  <2>1. ASSUME verdict # None
        PROVE  verdict = "delivered"
                 <=> report # NotParsed \/ Head(packet) = kDualSenseInputReportUsbId
    <3>1. packet # <<>> /\ (verdict = "delivered" <=> r # NotParsed)
      BY <2>1, Zenon DEF IInv, Handled
    <3>2. /\ report # NotParsed => r = report
          /\ report = NotParsed => (r # NotParsed <=> Head(packet) = kDualSenseInputReportUsbId)
      BY <3>1, Zenon DEF IInv, Arrived
    <3>3. CASE report # NotParsed
      BY <3>1, <3>2, <3>3, Zenon
    <3>4. CASE report = NotParsed
      BY <3>1, <3>2, <3>4, Zenon
    <3> QED
      BY <3>3, <3>4
  <2>2. ASSUME verdict = "delivered"
        PROVE  TryParseBluetoothInput(submitted) = Tail(submitted)
    BY <2>2, DeliveredIs, Zenon
  <2>3. ASSUME verdict = "delivered", report # NotParsed
        PROVE  Tail(submitted) = report
    <3>1. Tail(submitted) = r /\ packet # <<>>
      BY <2>3, DeliveredIs, Zenon
    <3> QED
      BY <2>3, <3>1, Zenon DEF IInv, Arrived
  <2> QED
    BY <2>1, <2>2, <2>3, Zenon DEF DeliveredIffIntact
<1> QED
  BY <1>1, Invariant, PTL

\* The windows show the face buttons, the direction of the d-pad, the sticks and the battery
\* of the report the game gets, whatever the report; the raw line says the same of buttons,
\* sticks and battery (dualsense_parser.cpp:27-49, 99-126, state_format.cpp:10-57,
\* MainWindow.xaml.cpp:24-49, 174-183).
THEOREM ShownIsPressedCorrect == Spec => []ShownIsPressed
<1>1. IInv => ShownIsPressed
  <2> SUFFICES ASSUME IInv, verdict = "delivered"
               PROVE  ShownIsPressed
    BY DEF ShownIsPressed
  <2> DEFINE r == Tail(submitted)
             state == ParseState(r)
             hat == r[Buttons1] \cap 0 .. 3
             all == {<<4, "square">>, <<5, "cross">>, <<6, "circle">>, <<7, "triangle">>}
             pressed == {p \in all : p[1] \in r[Buttons1]}
             charge == HighNibble(r[Status0])
             level == 10 * Value(LowNibble(r[Status0])) + 5
             percent == IF level < 100 THEN level ELSE 100
             dpad == DpadText(DecodeDpad(LowNibble(r[Buttons1])))
             battery == NormalizeBattery(r[Status0])
             sticks == <<r[1], r[2], r[3], r[4]>>
             payload == BuildStatusPayload(state)
  <2>1. r \in Report /\ shown = Dashboard(payload) /\ line = FormatStateLine(state)
    BY DeliveredIs, Zenon
  <2>2. {p[2] : p \in pressed} = state.buttons \cap FaceNames
    BY <2>1, FacePressed, Zenon
  <2>3. FaceButtonsText(BuildButtonsMask(state)) = state.buttons \cap FaceNames
    BY FaceShown, Zenon
  <2>4. /\ dpad = "Centered" <=> 3 \in hat
        /\ dpad \in {"UpLeft", "Up", "UpRight"} <=> hat \in {{0, 1, 2}, {}, {0}}
        /\ dpad \in {"UpRight", "Right", "DownRight"} <=> hat \in {{0}, {1}, {0, 1}}
        /\ dpad \in {"DownRight", "Down", "DownLeft"} <=> hat \in {{0, 1}, {2}, {0, 2}}
        /\ dpad \in {"DownLeft", "Left", "UpLeft"} <=> hat \in {{0, 2}, {1, 2}, {0, 1, 2}}
    BY DpadShown, Zenon
  <2>5. /\ charge = {1} => battery = 100
        /\ charge \in {{}, {0}} => battery = percent
        /\ charge \notin {{}, {0}, {1}} => battery = 0
    BY BatteryIs, Zenon
  <2>6. /\ state.battery_percent = battery
        /\ DpadText(state.dpad) = dpad
        /\ <<state.raw[LeftX], state.raw[LeftY], state.raw[RightX], state.raw[RightY]>> = sticks
    <3>1. state.raw = r /\ state.battery_percent = battery
          /\ state.dpad = DecodeDpad(LowNibble(r[Buttons1]))
      BY DEF ParseState
    <3> HIDE DEF state, r
    <3>2. <<state.raw[LeftX], state.raw[LeftY], state.raw[RightX], state.raw[RightY]>> = sticks
      BY <3>1, Zenon DEF LeftX, LeftY, RightX, RightY
    <3> QED
      BY <3>1, <3>2, Zenon
  <2> HIDE DEF r, state, hat, pressed, charge, percent, dpad, battery, sticks
  <2>7. /\ payload.battery_percent = battery
        /\ payload.sticks = sticks
        /\ payload.buttons_mask = BuildButtonsMask(state)
        /\ DpadText(payload.dpad) = dpad
    BY <2>6 DEF BuildStatusPayload
  <2> HIDE DEF payload
  <2>8. /\ shown.battery = payload.battery_percent
        /\ shown.sticks = payload.sticks
        /\ shown.dpad = DpadText(payload.dpad)
        /\ shown.face = FaceButtonsText(payload.buttons_mask)
    BY <2>1 DEF Dashboard
  <2>9. /\ line.sticks = sticks
        /\ line.battery = battery
        /\ line.face = state.buttons \cap FaceNames
    <3>1. FaceNames = {"cross", "circle", "square", "triangle"}
      BY DEF FaceNames
    <3> QED
      BY <2>1, <2>6, <3>1 DEF FormatStateLine
  <2>10. shown.face = {p[2] : p \in pressed} /\ line.face = shown.face
    BY <2>2, <2>3, <2>7, <2>8, <2>9, Zenon
  <2>11. /\ shown.dpad = "Centered" <=> 3 \in hat
         /\ shown.dpad \in {"UpLeft", "Up", "UpRight"} <=> hat \in {{0, 1, 2}, {}, {0}}
         /\ shown.dpad \in {"UpRight", "Right", "DownRight"} <=> hat \in {{0}, {1}, {0, 1}}
         /\ shown.dpad \in {"DownRight", "Down", "DownLeft"} <=> hat \in {{0, 1}, {2}, {0, 2}}
         /\ shown.dpad \in {"DownLeft", "Left", "UpLeft"}
              <=> hat \in {{0, 2}, {1, 2}, {0, 1, 2}}
    BY <2>4, <2>7, <2>8, Zenon
  <2>12. shown.sticks = sticks /\ line.sticks = shown.sticks
    BY <2>7, <2>8, <2>9, Zenon
  <2>13. /\ charge = {1} => shown.battery = 100
         /\ charge \in {{}, {0}} => shown.battery = percent
         /\ charge \notin {{}, {0}, {1}} => shown.battery = 0
         /\ line.battery = shown.battery
    BY <2>5, <2>7, <2>8, <2>9, Zenon
  <2> QED
    BY <2>10, <2>11, <2>12, <2>13, Zenon
    DEF ShownIsPressed, r, hat, pressed, charge, percent, sticks
<1> QED
  BY <1>1, Invariant, PTL

\* The mask for the UI has each of the fifteen buttons of the report at its place, whatever
\* the report (dualsense_parser.cpp:31-45, state_format.cpp:10-28, 44-57).
THEOREM MaskIsReportCorrect == Spec => []MaskIsReport
<1>1. IInv => MaskIsReport
  <2> SUFFICES ASSUME IInv, verdict = "delivered"
               PROVE  MaskIsReport
    BY DEF MaskIsReport
  <2> DEFINE r == Tail(submitted)
  <2>1. r \in Report /\ last_state_ = ParseState(r)
    BY DeliveredIs, Zenon
  <2>2. BuildStatusPayload(last_state_).buttons_mask = BuildButtonsMask(ParseState(r))
    BY <2>1 DEF BuildStatusPayload
  <2> QED
    BY <2>1, <2>2, MaskInBytes, Zenon DEF MaskIsReport
<1> QED
  BY <1>1, Invariant, PTL

\* A packet for the controller has 78 bytes, carries the common part of the game's report and
\* the CRC the controller checks, whatever the report and its length
\* (packet_translation.cpp:26-40, 52-72).
THEOREM WrittenIsSealedCorrect == Spec => []WrittenIsSealed
<1>1. IInv => WrittenIsSealed
  <2> SUFFICES ASSUME IInv, written # <<>>, output # <<>>
               PROVE  /\ Len(written) = 78
                      /\ SubSeq(written, 4, 3 + CommonSize) = Padded(CommonSize, Sent(output))
                      /\ Crc32(Crc32(Word32, <<kDualSenseOutputCrcSeed>>), written) = Residue
    BY Zenon DEF WrittenIsSealed, Sent
  <2>1. output \in Packet /\ \E tag \in Byte : written = ToBluetoothOutputReport(output, tag)
    BY Zenon DEF IInv, Written
  <2>2. PICK tag \in Byte : written = ToBluetoothOutputReport(output, tag)
    BY <2>1
  <2> QED
    BY <2>1, <2>2, OutPacketIs, Zenon
<1> QED
  BY <1>1, Invariant, PTL

\* The tags of the packets for the controller follow each other modulo 16, also when the
\* 8 bit counter starts over (packet_translation.cpp:13-17).
THEOREM TagsFollowCorrect == Spec => TagsFollow
<1>1. IInv /\ [Next]_vars
        => [written # <<>> /\ written' # written
              => Value(HighNibble(written'[2])) = (Value(HighNibble(written[2])) + 1) % 16]_vars
  <2> SUFFICES ASSUME IInv, [Next]_vars, written # <<>>, written' # written
               PROVE  Value(HighNibble(written'[2])) = (Value(HighNibble(written[2])) + 1) % 16
    BY Zenon
  <2>1. HandleVirtualOutputReport
    BY Zenon DEF Next, vars, outputVars, PacketArrives, HandleBluetoothInputReport
  <2>2. output' # <<>>
    BY <2>1, Zenon DEF HandleVirtualOutputReport
  <2>3. sequence' = NextSequenceTag(sequence).next
    BY <2>1, <2>2, Zenon DEF HandleVirtualOutputReport
  <2>4. written' = ToBluetoothOutputReport(output', NextSequenceTag(sequence).tag)
    BY <2>1, <2>2, Zenon DEF HandleVirtualOutputReport
  <2>5. sequence \in 0 .. 255 /\ Value(HighNibble(written[2])) = (sequence + 255) % 16
    BY Zenon DEF IInv, Written, TagOf
  <2>6. /\ NextSequenceTag(sequence).tag \in Byte
        /\ Value(HighNibble(NextSequenceTag(sequence).tag)) = sequence % 16
    BY <2>5, TagIs, Zenon
  <2>7. output' \in Packet
    BY <2>1, PacketAssumption, Zenon DEF HandleVirtualOutputReport, PacketAssumption, Packet
  <2>8. written'[2] = NextSequenceTag(sequence).tag
    <3> DEFINE tag == NextSequenceTag(sequence).tag
    <3>1. output' \in Packet /\ output' # <<>> /\ tag \in Byte
      BY <2>2, <2>6, <2>7
    <3>2. written' = ToBluetoothOutputReport(output', tag)
      BY <2>4
    <3> HIDE DEF tag
    <3>3. TagOf(written') = tag
      BY <3>1, <3>2, OutPacketIs, Zenon
    <3> QED
      BY <3>3 DEF TagOf, tag
  <2>9. Value(HighNibble(written'[2])) = sequence % 16
    BY <2>6, <2>8, Zenon
  <2>10. sequence % 16 = (((sequence + 255) % 16) + 1) % 16
    BY <2>5
  <2> QED
    BY <2>5, <2>9, <2>10, Zenon
<1> QED
  BY <1>1, Invariant, PTL DEF Spec, TagsFollow
=============================================================================
