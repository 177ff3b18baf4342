----------------------------- MODULE MCPacketPath -----------------------------
(***************************************************************************)
(* Reports and outputs for TLC: of an input report every value of the byte *)
(* with the d-pad and the face buttons, of the byte with the battery, and  *)
(* each other button alone, with sticks that differ; one report is hit in  *)
(* every byte, in one bit, all bits or the two that make its id USB's; of  *)
(* an output report every length at which something changes, with and      *)
(* without its id.                                                         *)
(***************************************************************************)
EXTENDS PacketPath

Blank == [i \in 1 .. InputReportSize |-> CASE i = LeftX -> B(128) [] i = LeftY -> B(1)
                                           [] i = RightX -> B(255) [] OTHER -> {}]

MCReports ==
    {[Blank EXCEPT ![Buttons1] = b] : b \in Byte}
    \cup {[Blank EXCEPT ![Status0] = b, ![Buttons1] = B(8)] : b \in Byte}
    \cup {[Blank EXCEPT ![i] = {b}, ![Buttons1] = B(8)] : i \in {Buttons2, Buttons3}, b \in 0 .. 7}

MCHit == {Blank}
MCErrors == {{b} : b \in 0 .. 7} \cup {0 .. 7, {4, 5}}

Payload(n) == [i \in 1 .. n |-> B(255 - i)]

MCOutputs ==
    {<<>>} \cup {Payload(n) : n \in {1, CommonSize, 62, 63}}
    \cup {<<kDualSenseOutputReportUsbId>> \o Payload(n) : n \in {0, 3, 46, CommonSize, 62, 64}}
=============================================================================
