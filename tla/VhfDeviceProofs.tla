--------------------------- MODULE VhfDeviceProofs ---------------------------
(***************************************************************************)
(* The driver's ring for every capacity and every size of reports: type    *)
(* correctness, consistency of the counters, and that it implements the    *)
(* bounded first-in first-out queue of OutputQueue.tla.                    *)
(***************************************************************************)
EXTENDS VhfDevice, SequenceTheorems, TLAPS

\* A removed device holds nothing that the next one could inherit.
AbsentIsEmpty == device = "absent" => queue_count = 0

\* The inductive invariant.
IInv ==
    /\ TypeOK
    /\ RingConsistent
    /\ SizeMarksLiveSlots
    /\ StartedIsReady
    /\ AbsentIsEmpty

-----------------------------------------------------------------------------
\* Arithmetic of the ring: adding at most a lap to a position wraps at most once
\* (the "% kDslOutputQueueCapacity" of vhf_device.cpp:92, 118).
LEMMA WrapOnce ==
    ASSUME NEW p \in Slots, NEW d \in 0 .. kDslOutputQueueCapacity
    PROVE  /\ RingAdd(p, d) \in Slots
           /\ RingAdd(p, d) = IF p + d < kDslOutputQueueCapacity
                              THEN p + d ELSE p + d - kDslOutputQueueCapacity
BY VhfAssumption DEF RingAdd, Slots

\* The slot after a slot, as head and tail move on (vhf_device.cpp:92, 118).
LEMMA NextSlot ==
    ASSUME NEW p \in Slots
    PROVE  /\ RingAdd(p, 1) \in Slots
           /\ RingAdd(p, 1) = IF p + 1 < kDslOutputQueueCapacity THEN p + 1 ELSE 0
BY VhfAssumption DEF RingAdd, Slots

\* The head of an empty ring is its own tail.
LEMMA ZeroSlot == ASSUME NEW p \in Slots PROVE RingAdd(p, 0) = p
BY VhfAssumption DEF RingAdd, Slots

\* The slot a new device starts at.
LEMMA ZeroIsSlot == 0 \in Slots
BY VhfAssumption DEF Slots

\* Where the i-th oldest report is.
LEMMA SlotOfWraps ==
    ASSUME TypeOK, NEW i \in 1 .. kDslOutputQueueCapacity
    PROVE  /\ SlotOf(i) \in Slots
           /\ SlotOf(i) = IF queue_head + i - 1 < kDslOutputQueueCapacity
                          THEN queue_head + i - 1
                          ELSE queue_head + i - 1 - kDslOutputQueueCapacity
<1>1. /\ kDslOutputQueueCapacity \in Nat \ {0}
      /\ queue_head \in Slots
      /\ queue_head \in Nat
      /\ i - 1 \in 0 .. kDslOutputQueueCapacity
    BY VhfAssumption DEF TypeOK, Slots
<1> QED
    BY <1>1, WrapOnce DEF SlotOf, Slots

\* No two reports share a slot while at most a lap is in use.
LEMMA SlotsDistinct ==
    ASSUME TypeOK,
           NEW i \in 1 .. kDslOutputQueueCapacity,
           NEW j \in 1 .. kDslOutputQueueCapacity,
           SlotOf(i) = SlotOf(j)
    PROVE  i = j
<1>1. queue_head \in 0 .. kDslOutputQueueCapacity - 1
    BY DEF TypeOK, Slots
<1> QED
    BY <1>1, SlotOfWraps, VhfAssumption

-----------------------------------------------------------------------------
\* What a successful push does to the ring.
PushStep(r, size) ==
    /\ size \in 1 .. kDslMaxOutputReportSize
    /\ queue_count < kDslOutputQueueCapacity
    /\ output_queue' = [output_queue EXCEPT
                            ![queue_tail] = [report |-> r, report_size |-> size]]
    /\ queue_tail' = RingAdd(queue_tail, 1)
    /\ queue_count' = queue_count + 1
    /\ reply' = Reply("push", "SUCCESS")
    /\ queue_head' = queue_head

\* What a get of a ring that is not empty does.
PopStep == queue_count # 0 /\ receive_output_report

\* The steps an IOCTL can take, as the proofs tell them apart.
LEMMA IoctlCases ==
    ASSUME IInv, DslEvtIoDeviceControl
    PROVE  /\ device = "started" /\ UNCHANGED <<device, handle, output_lock>>
           /\ \/ \E r \in Report, n \in RequestSize : PushStep(r, n)
              \/ PopStep
              \/ /\ reply' = Reply("push", "BUFFER_OVERFLOW")
                 /\ queue_count = kDslOutputQueueCapacity
                 /\ UNCHANGED ring
              \/ /\ reply' = Response("get", FreshPacket)
                 /\ queue_count = 0
                 /\ UNCHANGED ring
              \/ /\ reply' \in {Reply(i, s) : i \in Ioctl \ {"none"},
                                  s \in Status \ {"SUCCESS", "BUFFER_OVERFLOW", "DEVICE_NOT_READY"}}
                                \cup {Reply("submit", "SUCCESS"), Reply("version", "SUCCESS")}
                 /\ UNCHANGED ring
<1>1. device = "started" /\ UNCHANGED <<device, handle, output_lock>> /\ handle /\ output_lock
    BY DEF IInv, StartedIsReady, DslEvtIoDeviceControl
<1>2. ASSUME NEW n \in RequestSize, HandleSubmitInputIoctl(n)
      PROVE  /\ reply' \in {Reply("submit", "INVALID_PARAMETER"),
                            Reply("submit", "SUCCESS"), Reply("submit", "vhfError")}
             /\ UNCHANGED ring
    BY <1>1, <1>2, Zenon DEF HandleSubmitInputIoctl
<1>3. ASSUME NEW r \in Report, NEW n \in RequestSize, HandlePushOutputIoctl(r, n)
      PROVE  \/ PushStep(r, n)
             \/ /\ reply' = Reply("push", "BUFFER_OVERFLOW")
                /\ queue_count = kDslOutputQueueCapacity
                /\ UNCHANGED ring
             \/ reply' = Reply("push", "INVALID_PARAMETER") /\ UNCHANGED ring
    <2>1. /\ kMaxReportSize \in Nat /\ kDslOutputQueueCapacity \in Nat
          /\ queue_count \in 0 .. kDslOutputQueueCapacity
        BY VhfAssumption DEF IInv, TypeOK
    <2>2. CASE queue_output_report(r, n)
        <3>1. /\ queue_count >= kDslOutputQueueCapacity => queue_count = kDslOutputQueueCapacity
              /\ ~(queue_count >= kDslOutputQueueCapacity) => queue_count < kDslOutputQueueCapacity
            BY <2>1
        <3> QED
            BY <1>1, <2>2, <3>1, Zenon DEF queue_output_report, PushStep
    <2> QED
        BY <1>3, <2>2 DEF HandlePushOutputIoctl
<1>4. ASSUME HandleGetOutputIoctl
      PROVE  \/ PopStep
             \/ /\ reply' = Response("get", FreshPacket)
                /\ queue_count = 0
                /\ UNCHANGED ring
    BY <1>1, <1>4 DEF HandleGetOutputIoctl, PopStep
<1>5. ASSUME HandleGetVersionIoctl
      PROVE  reply' = Reply("version", "SUCCESS") /\ UNCHANGED ring
    BY <1>5 DEF HandleGetVersionIoctl
<1>6. ASSUME RefusedIoctl
      PROVE  /\ reply' \in {Reply(i, "badBuffer") : i \in {"submit", "push", "version", "get"}}
                              \cup {Reply("unknown", "INVALID_DEVICE_REQUEST")}
             /\ UNCHANGED ring
    BY <1>6 DEF RefusedIoctl
<1> QED
    BY <1>1, <1>2, <1>3, <1>4, <1>5, <1>6 DEF DslEvtIoDeviceControl, Ioctl, Status

\* After a push the reports stay in their slots and the new one follows them.
LEMMA PushSlots ==
    ASSUME IInv, NEW r \in Report, NEW n \in RequestSize, PushStep(r, n)
    PROVE  /\ queue_count + 1 \in 1 .. kDslOutputQueueCapacity
           /\ queue_tail = SlotOf(queue_count + 1)
           /\ \A i \in 1 .. queue_count : SlotOf(i) # queue_tail
           /\ \A i \in 1 .. queue_count + 1 : SlotOf(i)' = SlotOf(i)
<1>1. /\ queue_count + 1 \in 1 .. kDslOutputQueueCapacity
      /\ queue_head \in Slots
      /\ queue_count \in Nat
    BY VhfAssumption DEF PushStep, IInv, TypeOK
<1>2. queue_tail = SlotOf(queue_count + 1)
    <2>1. (queue_count + 1) - 1 = queue_count
        BY <1>1, VhfAssumption DEF Slots
    <2> QED
        BY <2>1 DEF IInv, RingConsistent, SlotOf
<1>3. ASSUME NEW i \in 1 .. queue_count
      PROVE  SlotOf(i) # queue_tail
    <2>1. i \in 1 .. kDslOutputQueueCapacity /\ i # queue_count + 1
        BY <1>1, VhfAssumption
    <2> QED
        BY <1>1, <1>2, <2>1, SlotsDistinct DEF IInv
<1>4. ASSUME NEW i \in 1 .. queue_count + 1
      PROVE  SlotOf(i)' = SlotOf(i)
    BY DEF PushStep, SlotOf
<1> QED
    BY <1>1, <1>2, <1>3, <1>4

\* After a pop the reports stay in their slots, each one place nearer the head.
LEMMA PopSlots ==
    ASSUME IInv, PopStep
    PROVE  /\ queue_count - 1 \in 0 .. kDslOutputQueueCapacity - 1
           /\ queue_head = SlotOf(1)
           /\ \A i \in 1 .. queue_count - 1 :
                 SlotOf(i + 1) # queue_head /\ SlotOf(i)' = SlotOf(i + 1)
<1>1. /\ kDslOutputQueueCapacity \in Nat \ {0}
      /\ queue_count \in 1 .. kDslOutputQueueCapacity
      /\ queue_head \in Slots /\ queue_head \in 0 .. kDslOutputQueueCapacity - 1
    BY VhfAssumption DEF PopStep, IInv, TypeOK, Slots
<1>2. queue_head = SlotOf(1)
    BY <1>1, SlotOfWraps DEF IInv
<1>3. queue_head' = IF queue_head + 1 < kDslOutputQueueCapacity
                    THEN queue_head + 1 ELSE 0
    BY <1>1, NextSlot DEF PopStep, receive_output_report
<1>4. ASSUME NEW i \in 1 .. queue_count - 1
      PROVE  SlotOf(i + 1) # queue_head /\ SlotOf(i)' = SlotOf(i + 1)
    <2>1. i + 1 \in 1 .. kDslOutputQueueCapacity /\ i + 1 # 1
        BY <1>1
    <2>2. SlotOf(i + 1) # queue_head
        BY <1>1, <1>2, <2>1, SlotsDistinct DEF IInv
    <2>3. SlotOf(i + 1) = IF queue_head + i < kDslOutputQueueCapacity
                          THEN queue_head + i
                          ELSE queue_head + i - kDslOutputQueueCapacity
        BY <1>1, <2>1, SlotOfWraps DEF IInv
    <2>4. /\ queue_head' \in Slots /\ queue_head' \in 0 .. kDslOutputQueueCapacity - 1
          /\ i - 1 \in 0 .. kDslOutputQueueCapacity
          /\ queue_head' + i - 1 = queue_head' + (i - 1)
        BY <1>1, <1>3 DEF Slots
    <2>5. SlotOf(i)' = IF queue_head' + (i - 1) < kDslOutputQueueCapacity
                       THEN queue_head' + (i - 1)
                       ELSE queue_head' + (i - 1) - kDslOutputQueueCapacity
        BY <1>1, <2>4, WrapOnce DEF SlotOf
    <2> QED
        BY <1>1, <1>3, <2>2, <2>3, <2>5
<1> QED
    BY <1>1, <1>2, <1>4

-----------------------------------------------------------------------------
\* The inductive invariant holds initially.
LEMMA InitIInv == Init => IInv
<1> SUFFICES ASSUME Init PROVE IInv
    OBVIOUS
<1>1. TypeOK
    <2>1. /\ FreshPacket \in Packet
          /\ Reply("none", "SUCCESS") \in [ioctl : Ioctl, status : Status, response : Packet]
          /\ 0 \in 0 .. kDslOutputQueueCapacity
        BY VhfAssumption DEF Packet, FreshPacket, Reply, Ioctl, Status
    <2> QED
        BY <2>1, ZeroIsSlot DEF Init, TypeOK
<1>2. RingConsistent
    BY ZeroIsSlot, ZeroSlot DEF Init, RingConsistent
<1>3. SizeMarksLiveSlots
    BY DEF Init, SizeMarksLiveSlots, FreshPacket
<1>4. StartedIsReady /\ AbsentIsEmpty
    BY DEF Init, StartedIsReady, AbsentIsEmpty, Reply
<1> QED
    BY <1>1, <1>2, <1>3, <1>4 DEF IInv

\* A device that is gone, or was never made, keeps the invariant.
LEMMA NoDeviceIInv ==
    ASSUME NoDevice
    PROVE  IInv'
<1>1. TypeOK'
    <2>1. /\ FreshPacket \in Packet
          /\ Reply("none", "SUCCESS") \in [ioctl : Ioctl, status : Status, response : Packet]
          /\ 0 \in 0 .. kDslOutputQueueCapacity
        BY VhfAssumption DEF Packet, FreshPacket, Reply, Ioctl, Status
    <2> QED
        BY <2>1, ZeroIsSlot DEF NoDevice, TypeOK
<1>2. RingConsistent'
    BY ZeroIsSlot, ZeroSlot DEF NoDevice, RingConsistent
<1>3. SizeMarksLiveSlots'
    BY DEF NoDevice, SizeMarksLiveSlots, FreshPacket
<1>4. StartedIsReady' /\ AbsentIsEmpty'
    BY DEF NoDevice, StartedIsReady, AbsentIsEmpty, Reply
<1> QED
    BY <1>1, <1>2, <1>3, <1>4 DEF IInv

\* Adding a device, successfully or not, keeps the invariant.
LEMMA AddIInv ==
    ASSUME IInv, DslEvtDeviceAdd
    PROVE  IInv'
<1>1. CASE NoDevice
    BY <1>1, NoDeviceIInv
<1>2. CASE /\ device' = "started"
           /\ DslCreateVirtualDevice(TRUE, TRUE)
           /\ UNCHANGED <<output_queue, reply>>
    <2>1. queue_count = 0
        BY DEF IInv, AbsentIsEmpty, DslEvtDeviceAdd
    <2>2. TypeOK'
        BY <1>2, VhfAssumption DEF IInv, TypeOK, DslCreateVirtualDevice, Slots
    <2>3. RingConsistent'
        BY <1>2, ZeroIsSlot, ZeroSlot DEF DslCreateVirtualDevice, RingConsistent
    <2>4. SizeMarksLiveSlots'
        BY <1>2, <2>1 DEF IInv, SizeMarksLiveSlots, DslCreateVirtualDevice
    <2>5. StartedIsReady' /\ AbsentIsEmpty'
        BY <1>2 DEF IInv, StartedIsReady, AbsentIsEmpty, DslCreateVirtualDevice
    <2> QED
        BY <2>2, <2>3, <2>4, <2>5 DEF IInv
<1>3. \/ NoDevice
      \/ /\ device' = "started"
         /\ DslCreateVirtualDevice(TRUE, TRUE)
         /\ UNCHANGED <<output_queue, reply>>
    BY DEF DslEvtDeviceAdd, CreateSucceeds
<1> QED
    BY <1>1, <1>2, <1>3

\* A report that is accepted keeps the invariant.
LEMMA PushIInv ==
    ASSUME IInv, device = "started", UNCHANGED <<device, handle, output_lock>>,
           NEW r \in Report, NEW n \in RequestSize, PushStep(r, n)
    PROVE  IInv'
<1>1. /\ kDslOutputQueueCapacity \in Nat \ {0}
      /\ kDslMaxOutputReportSize \in Nat \ {0}
      /\ queue_head \in Slots /\ queue_head \in 0 .. kDslOutputQueueCapacity - 1
      /\ queue_tail \in Slots /\ queue_tail \in 0 .. kDslOutputQueueCapacity - 1
      /\ queue_count \in 0 .. kDslOutputQueueCapacity - 1
      /\ output_queue \in [Slots -> Packet]
    BY VhfAssumption DEF PushStep, IInv, TypeOK, Slots
<1>2. TypeOK'
    <2>1. queue_tail' \in Slots
        BY <1>1, NextSlot DEF PushStep
    <2>2. output_queue' \in [Slots -> Packet]
        BY <1>1 DEF PushStep, Packet, Slots
    <2>3. reply' \in [ioctl : Ioctl, status : Status, response : Packet]
        BY <1>1 DEF PushStep, Reply, FreshPacket, Ioctl, Status, Packet
    <2> QED
        BY <1>1, <2>1, <2>2, <2>3 DEF IInv, TypeOK, PushStep
<1>3. RingConsistent'
    <2>1. queue_tail = IF queue_head + queue_count < kDslOutputQueueCapacity
                       THEN queue_head + queue_count
                       ELSE queue_head + queue_count - kDslOutputQueueCapacity
        BY <1>1, WrapOnce DEF IInv, RingConsistent
    <2>2. queue_tail' = IF queue_tail + 1 < kDslOutputQueueCapacity
                        THEN queue_tail + 1 ELSE 0
        BY <1>1, NextSlot DEF PushStep
    <2>3. RingAdd(queue_head, queue_count + 1)
            = IF queue_head + (queue_count + 1) < kDslOutputQueueCapacity
              THEN queue_head + (queue_count + 1)
              ELSE queue_head + (queue_count + 1) - kDslOutputQueueCapacity
        BY <1>1, WrapOnce
    <2> QED
        BY <1>1, <2>1, <2>2, <2>3 DEF RingConsistent, PushStep
<1>4. SizeMarksLiveSlots'
    <2> SUFFICES ASSUME NEW s \in Slots
                 PROVE  output_queue'[s].report_size # 0
                          <=> \E i \in 1 .. queue_count + 1 : SlotOf(i)' = s
        BY DEF SizeMarksLiveSlots, PushStep
    <2>1. CASE s = queue_tail
        <3>1. output_queue'[s].report_size # 0
            BY <1>1, <2>1 DEF PushStep
        <3>2. PICK last \in 1 .. queue_count + 1 : last = queue_count + 1
            BY <1>1
        <3>3. SlotOf(last)' = s
            BY <2>1, <3>2, PushSlots
        <3> QED
            BY <3>1, <3>3
    <2>2. CASE s # queue_tail
        <3>1. output_queue'[s] = output_queue[s]
            BY <1>1, <2>2 DEF PushStep
        <3>2. (\E i \in 1 .. queue_count + 1 : SlotOf(i)' = s)
                <=> (\E i \in 1 .. queue_count : SlotOf(i) = s)
            BY <1>1, <2>2, PushSlots
        <3> QED
            BY <3>1, <3>2 DEF IInv, SizeMarksLiveSlots
    <2> QED
        BY <2>1, <2>2
<1>5. StartedIsReady' /\ AbsentIsEmpty'
    BY DEF IInv, StartedIsReady, AbsentIsEmpty, PushStep, Reply
<1> QED
    BY <1>2, <1>3, <1>4, <1>5 DEF IInv

\* A report that is taken out keeps the invariant.
LEMMA PopIInv ==
    ASSUME IInv, device = "started", UNCHANGED <<device, handle, output_lock>>, PopStep
    PROVE  IInv'
<1>1. /\ kDslOutputQueueCapacity \in Nat \ {0}
      /\ kDslMaxOutputReportSize \in Nat \ {0}
      /\ kMaxReportSize \in Nat \ {0}
      /\ kDslMaxOutputReportSize <= kMaxReportSize
      /\ queue_head \in Slots /\ queue_head \in 0 .. kDslOutputQueueCapacity - 1
      /\ queue_tail \in Slots /\ queue_tail \in 0 .. kDslOutputQueueCapacity - 1
      /\ queue_count \in 1 .. kDslOutputQueueCapacity
      /\ output_queue \in [Slots -> Packet]
      /\ output_queue[queue_head] \in Packet
    BY VhfAssumption DEF PopStep, IInv, TypeOK, Slots
<1>2. TypeOK'
    <2>1. queue_head' \in Slots
        BY <1>1, NextSlot DEF PopStep, receive_output_report
    <2>2. \A m \in 0 .. kDslMaxOutputReportSize : Resized(output_queue[queue_head], m) \in Packet
        BY <1>1 DEF Resized, Packet
    <2>3. output_queue' \in [Slots -> Packet]
        BY <1>1, <2>2 DEF PopStep, receive_output_report, Slots
    <2>4. CopySize(output_queue[queue_head]) \in 0 .. kDslMaxOutputReportSize
        BY <1>1 DEF CopySize, Packet
    <2>5. reply' \in [ioctl : Ioctl, status : Status, response : Packet]
        BY <2>2, <2>4 DEF PopStep, receive_output_report, Response, Ioctl, Status
    <2>6. queue_tail' = queue_tail /\ queue_count' \in 0 .. kDslOutputQueueCapacity
        BY <1>1 DEF PopStep, receive_output_report
    <2> QED
        BY <2>1, <2>3, <2>5, <2>6 DEF IInv, TypeOK
<1>3. RingConsistent'
    <2>1. queue_tail = IF queue_head + queue_count < kDslOutputQueueCapacity
                       THEN queue_head + queue_count
                       ELSE queue_head + queue_count - kDslOutputQueueCapacity
        BY <1>1, WrapOnce DEF IInv, RingConsistent
    <2>2. /\ queue_head' = IF queue_head + 1 < kDslOutputQueueCapacity
                           THEN queue_head + 1 ELSE 0
          /\ queue_count' = queue_count - 1
          /\ queue_tail' = queue_tail
        BY <1>1, NextSlot DEF PopStep, receive_output_report
    <2>3. RingAdd(queue_head', queue_count')
            = IF queue_head' + queue_count' < kDslOutputQueueCapacity
              THEN queue_head' + queue_count'
              ELSE queue_head' + queue_count' - kDslOutputQueueCapacity
        <3>1. queue_head' \in Slots /\ queue_count' \in 0 .. kDslOutputQueueCapacity
            BY <1>1, <2>2 DEF Slots
        <3> QED
            BY <3>1, WrapOnce
    <2> QED
        BY <1>1, <2>1, <2>2, <2>3 DEF RingConsistent
<1>4. SizeMarksLiveSlots'
    <2> SUFFICES ASSUME NEW s \in Slots
                 PROVE  output_queue'[s].report_size # 0
                          <=> \E i \in 1 .. queue_count - 1 : SlotOf(i)' = s
        BY DEF SizeMarksLiveSlots, PopStep, receive_output_report
    <2>1. CASE s = queue_head
        <3>1. output_queue'[s].report_size = 0
            BY <1>1, <2>1 DEF PopStep, receive_output_report, Resized
        <3>2. \A i \in 1 .. queue_count - 1 : SlotOf(i)' # s
            BY <2>1, PopSlots
        <3> QED
            BY <3>1, <3>2
    <2>2. CASE s # queue_head
        <3>1. output_queue'[s] = output_queue[s]
            BY <1>1, <2>2 DEF PopStep, receive_output_report
        <3>2. (\E i \in 1 .. queue_count - 1 : SlotOf(i)' = s)
                <=> (\E i \in 1 .. queue_count : SlotOf(i) = s)
            <4>1. ASSUME NEW i \in 1 .. queue_count, SlotOf(i) = s
                  PROVE  i - 1 \in 1 .. queue_count - 1 /\ SlotOf(i - 1)' = s
                <5>1. i # 1
                    BY <2>2, <4>1, PopSlots
                <5>2. i - 1 \in 1 .. queue_count - 1 /\ (i - 1) + 1 = i
                    BY <1>1, <5>1
                <5> QED
                    BY <4>1, <5>2, PopSlots
            <4>2. ASSUME NEW i \in 1 .. queue_count - 1, SlotOf(i)' = s
                  PROVE  i + 1 \in 1 .. queue_count /\ SlotOf(i + 1) = s
                BY <1>1, <4>2, PopSlots
            <4> QED
                BY <4>1, <4>2
        <3> QED
            BY <3>1, <3>2 DEF IInv, SizeMarksLiveSlots
    <2> QED
        BY <2>1, <2>2
<1>5. StartedIsReady' /\ AbsentIsEmpty'
    BY DEF IInv, StartedIsReady, AbsentIsEmpty, PopStep, receive_output_report, Response
<1> QED
    BY <1>2, <1>3, <1>4, <1>5 DEF IInv

\* Requests that leave the ring alone.
LEMMA AnsweredIInv ==
    ASSUME IInv, device = "started", UNCHANGED <<device, handle, output_lock, ring>>,
           reply' \in [ioctl : Ioctl, status : Status \ {"DEVICE_NOT_READY"}, response : Packet]
    PROVE  IInv'
<1>1. TypeOK'
    BY DEF IInv, TypeOK, ring
<1>2. RingConsistent' /\ SizeMarksLiveSlots' /\ AbsentIsEmpty'
    BY DEF IInv, RingConsistent, SizeMarksLiveSlots, SlotOf, AbsentIsEmpty, ring
<1>3. StartedIsReady'
    BY DEF IInv, StartedIsReady
<1> QED
    BY <1>1, <1>2, <1>3 DEF IInv

\* Every request keeps the invariant: a push, a pop, or one that leaves the ring alone.
LEMMA IoctlIInv ==
    ASSUME IInv, DslEvtIoDeviceControl
    PROVE  IInv'
<1> DEFINE Answers == [ioctl : Ioctl, status : Status \ {"DEVICE_NOT_READY"}, response : Packet]
<1>1. FreshPacket \in Packet
    BY VhfAssumption DEF FreshPacket, Packet
<1>2. /\ \A i \in Ioctl, s \in Status \ {"DEVICE_NOT_READY"} : Reply(i, s) \in Answers
      /\ Response("get", FreshPacket) \in Answers
    BY <1>1 DEF Reply, Response, Ioctl, Status
<1>3. device = "started" /\ UNCHANGED <<device, handle, output_lock>>
    BY IoctlCases
<1>4. ASSUME NEW r \in Report, NEW n \in RequestSize, PushStep(r, n)
      PROVE  IInv'
    BY <1>3, <1>4, PushIInv
<1>5. CASE PopStep
    BY <1>3, <1>5, PopIInv
<1>6. CASE reply' \in Answers /\ UNCHANGED ring
    BY <1>3, <1>6, AnsweredIInv
<1>7. /\ Reply("push", "BUFFER_OVERFLOW") \in Answers
      /\ Reply("submit", "SUCCESS") \in Answers
      /\ Reply("version", "SUCCESS") \in Answers
    BY <1>2 DEF Ioctl, Status
<1>8. {Reply(i, s) : i \in Ioctl \ {"none"},
                      s \in Status \ {"SUCCESS", "BUFFER_OVERFLOW", "DEVICE_NOT_READY"}}
        \cup {Reply("submit", "SUCCESS"), Reply("version", "SUCCESS")} \subseteq Answers
    BY <1>2, <1>7
<1> HIDE DEF Answers
<1> QED
    BY <1>2, <1>4, <1>5, <1>6, <1>7, <1>8, IoctlCases

\* Every step of the driver keeps the invariant.
LEMMA NextIInv ==
    ASSUME IInv, [Next]_vars
    PROVE  IInv'
<1>1. CASE DslEvtDeviceAdd
    BY <1>1, AddIInv
<1>2. CASE DslEvtDeviceContextCleanup
    BY <1>2, NoDeviceIInv DEF DslEvtDeviceContextCleanup
<1>3. CASE DslEvtIoDeviceControl
    BY <1>3, IoctlIInv
<1>4. CASE UNCHANGED vars
    BY <1>4 DEF vars, ring, IInv, TypeOK, RingConsistent, SizeMarksLiveSlots, SlotOf,
                StartedIsReady, AbsentIsEmpty
<1> QED
    BY <1>1, <1>2, <1>3, <1>4 DEF Next

\* The inductive invariant holds throughout the life of the driver (driver.cpp:91-153,
\* vhf_device.cpp:9-122).
THEOREM InvariantHolds == Spec => []IInv
<1> QED
    BY InitIInv, NextIInv, PTL DEF Spec

\* Every variable of the driver keeps its type: head, tail and count stay within
\* the ring for every capacity (vhf_device.cpp:9-122).
THEOREM TypeCorrect == Spec => []TypeOK
<1>1. IInv => TypeOK
    BY DEF IInv
<1> QED
    BY <1>1, InvariantHolds, PTL

\* Head, tail and count never drift apart (vhf_device.cpp:88-93, 115-119).
THEOREM RingCorrect == Spec => []RingConsistent
<1>1. IInv => RingConsistent
    BY DEF IInv
<1> QED
    BY <1>1, InvariantHolds, PTL

\* A slot has a size exactly while it holds an accepted report, so that "no report" is
\* never taken for one, nor one for "no report" (vhf_device.cpp:88-93, 115-119).
THEOREM SizesCorrect == Spec => []SizeMarksLiveSlots
<1>1. IInv => SizeMarksLiveSlots
    BY DEF IInv
<1> QED
    BY <1>1, InvariantHolds, PTL

\* No request is served by a device without its lock or its virtual device
\* (driver.cpp:91-117, vhf_device.cpp:20-39).
THEOREM AlwaysReady == Spec => []StartedIsReady
<1>1. IInv => StartedIsReady
    BY DEF IInv
<1> QED
    BY <1>1, InvariantHolds, PTL

-----------------------------------------------------------------------------
\* The ring seen as a sequence of packets.
LEMMA QueueIsSeq ==
    ASSUME IInv
    PROVE  /\ QueueOfRing \in Seq(Packet)
           /\ Len(QueueOfRing) = queue_count
           /\ \A i \in 1 .. queue_count : QueueOfRing[i] = output_queue[SlotOf(i)]
<1>1. /\ queue_count \in Nat
      /\ queue_count \in 0 .. kDslOutputQueueCapacity
      /\ output_queue \in [Slots -> Packet]
    BY VhfAssumption DEF IInv, TypeOK
<1>2. \A i \in 1 .. queue_count : SlotOf(i) \in Slots
    <2> TAKE i \in 1 .. queue_count
    <2>1. i \in 1 .. kDslOutputQueueCapacity
        BY <1>1, VhfAssumption
    <2> QED
        BY <2>1, SlotOfWraps DEF IInv
<1> QED
    BY <1>1, <1>2 DEF QueueOfRing

\* An empty ring is the empty sequence, wherever its head is.
LEMMA EmptyQueue ==
    ASSUME queue_count = 0
    PROVE  QueueOfRing = <<>>
BY DEF QueueOfRing

\* A successful push appends to the queue.
LEMMA PushAppends ==
    ASSUME IInv, IInv', NEW r \in Report, NEW n \in RequestSize, PushStep(r, n)
    PROVE  QueueOfRing' = Append(QueueOfRing, [report |-> r, report_size |-> n])
<1> DEFINE p == [report |-> r, report_size |-> n]
<1>1. queue_count \in Nat /\ queue_count' = queue_count + 1
    BY VhfAssumption DEF IInv, TypeOK, PushStep
<1>2. ASSUME NEW i \in 1 .. queue_count + 1
      PROVE  QueueOfRing'[i] = IF i = queue_count + 1 THEN p ELSE QueueOfRing[i]
    <2>1. QueueOfRing'[i] = output_queue'[SlotOf(i)]
        BY <1>1, <1>2, PushSlots DEF QueueOfRing
    <2>2. CASE i = queue_count + 1
        BY <2>1, <2>2, PushSlots DEF PushStep, IInv, TypeOK
    <2>3. CASE i \in 1 .. queue_count
        <3>1. SlotOf(i) # queue_tail /\ i # queue_count + 1
            BY <1>1, <2>3, PushSlots
        <3>2. output_queue'[SlotOf(i)] = output_queue[SlotOf(i)]
            BY <3>1, <2>3, PushSlots, SlotOfWraps DEF PushStep, IInv, TypeOK
        <3> QED
            BY <2>1, <2>3, <3>1, <3>2, QueueIsSeq
    <2> QED
        BY <1>1, <1>2, <2>2, <2>3
<1>3. QueueOfRing' = [i \in 1 .. queue_count + 1 |-> QueueOfRing'[i]]
    BY <1>1 DEF QueueOfRing
<1>4. Append(QueueOfRing, p)
        = [i \in 1 .. queue_count + 1 |-> IF i = queue_count + 1 THEN p ELSE QueueOfRing[i]]
    BY <1>1, QueueIsSeq
<1> HIDE DEF p
<1> QED
    BY <1>2, <1>3, <1>4 DEF p

\* A pop takes the head off the queue.
LEMMA PopTakesHead ==
    ASSUME IInv, IInv', PopStep
    PROVE  /\ QueueOfRing # <<>>
           /\ Head(QueueOfRing) = output_queue[queue_head]
           /\ QueueOfRing' = Tail(QueueOfRing)
<1>1. /\ queue_count \in Nat \ {0}
      /\ queue_count' = queue_count - 1
      /\ queue_count \in 1 .. kDslOutputQueueCapacity
    BY VhfAssumption DEF IInv, TypeOK, PopStep, receive_output_report
<1>2. QueueOfRing # <<>> /\ Head(QueueOfRing) = output_queue[queue_head]
    BY <1>1, QueueIsSeq, PopSlots
<1>3. ASSUME NEW i \in 1 .. queue_count - 1
      PROVE  QueueOfRing'[i] = QueueOfRing[i + 1]
    <2>1. QueueOfRing'[i] = output_queue'[SlotOf(i + 1)]
        BY <1>1, PopSlots DEF QueueOfRing
    <2>2. i + 1 \in 1 .. queue_count /\ i + 1 \in 1 .. kDslOutputQueueCapacity
        BY <1>1, VhfAssumption
    <2>3. SlotOf(i + 1) # queue_head
        BY PopSlots
    <2>4. SlotOf(i + 1) \in Slots
        BY <2>2, SlotOfWraps DEF IInv
    <2>5. output_queue'[SlotOf(i + 1)] = output_queue[SlotOf(i + 1)]
        BY <2>3, <2>4 DEF PopStep, receive_output_report, IInv, TypeOK
    <2> QED
        BY <2>1, <2>2, <2>5, QueueIsSeq
<1>4. QueueOfRing' = [i \in 1 .. queue_count - 1 |-> QueueOfRing'[i]]
    BY <1>1 DEF QueueOfRing
<1>5. Tail(QueueOfRing) = [i \in 1 .. queue_count - 1 |-> QueueOfRing[i + 1]]
    <2>1. /\ Tail(QueueOfRing) \in Seq(Packet)
          /\ Len(Tail(QueueOfRing)) = queue_count - 1
          /\ \A i \in 1 .. queue_count - 1 : Tail(QueueOfRing)[i] = QueueOfRing[i + 1]
        <3>1. QueueOfRing \in Seq(Packet) /\ Len(QueueOfRing) = queue_count
            BY QueueIsSeq
        <3>2. /\ Tail(QueueOfRing) \in Seq(Packet)
              /\ Len(Tail(QueueOfRing)) = Len(QueueOfRing) - 1
              /\ \A i \in 1 .. Len(Tail(QueueOfRing)) :
                    Tail(QueueOfRing)[i] = QueueOfRing[i + 1]
            BY <1>2, <3>1, HeadTailProperties, Zenon
        <3> QED
            BY <3>1, <3>2
    <2>2. Tail(QueueOfRing) = [i \in 1 .. queue_count - 1 |-> Tail(QueueOfRing)[i]]
        <3>1. Tail(QueueOfRing) \in [1 .. Len(Tail(QueueOfRing)) -> Packet]
            BY <2>1, LenProperties, Zenon
        <3> QED
            BY <2>1, <3>1
    <2> QED
        BY <2>1, <2>2
<1> QED
    BY <1>2, <1>3, <1>4, <1>5

\* A live packet is handed out whole.
LEMMA PopHandsWholePacket ==
    ASSUME IInv, PopStep
    PROVE  /\ output_queue[queue_head].report_size # 0
           /\ reply' = Response("get", output_queue[queue_head])
<1> DEFINE packet == output_queue[queue_head]
<1>1. /\ packet \in Packet
      /\ queue_head \in Slots
      /\ 1 \in 1 .. queue_count
    BY VhfAssumption DEF IInv, TypeOK, PopStep
<1>2. packet.report_size # 0
    BY <1>1, PopSlots DEF IInv, SizeMarksLiveSlots
<1>3. CopySize(packet) = packet.report_size
    BY <1>1, VhfAssumption DEF CopySize, Packet
<1>4. Resized(packet, packet.report_size) = packet
    BY <1>1 DEF Resized, Packet
<1> QED
    BY <1>2, <1>3, <1>4 DEF PopStep, receive_output_report

-----------------------------------------------------------------------------
\* The driver starts with the empty queue.
LEMMA InitRefines == Init => Queue!Init
BY EmptyQueue DEF Init, Queue!Init, AnswerOfReply, Reply, Queue!Other

\* A device that goes away takes its queue along.
LEMMA NoDeviceRefines ==
    ASSUME NoDevice
    PROVE  Queue!Clear
<1>1. QueueOfRing' = <<>>
    BY DEF NoDevice, QueueOfRing
<1>2. AnswerOfReply' = Queue!Other
    BY DEF NoDevice, AnswerOfReply, Reply, Queue!Other
<1> QED
    BY <1>1, <1>2 DEF Queue!Clear

\* Nothing happened to the ring: the queue is as it was.
LEMMA SameRing ==
    ASSUME UNCHANGED ring
    PROVE  QueueOfRing' = QueueOfRing
BY DEF ring, QueueOfRing, SlotOf

\* Adding a device makes an empty queue or leaves the old one.
LEMMA AddRefines ==
    ASSUME IInv, DslEvtDeviceAdd
    PROVE  [Queue!Next]_(Queue!vars)
<1>1. CASE NoDevice
    BY <1>1, NoDeviceRefines DEF Queue!Next
<1>2. CASE queue_count' = 0 /\ UNCHANGED reply
    <2>1. QueueOfRing = <<>>
        BY EmptyQueue DEF IInv, AbsentIsEmpty, DslEvtDeviceAdd
    <2>2. QueueOfRing' = <<>>
        BY <1>2 DEF QueueOfRing
    <2>3. AnswerOfReply' = AnswerOfReply
        BY <1>2 DEF AnswerOfReply
    <2> QED
        BY <2>1, <2>2, <2>3 DEF Queue!vars
<1> QED
    BY <1>1, <1>2 DEF DslEvtDeviceAdd, DslCreateVirtualDevice

\* Every request is a step of the queue.
LEMMA IoctlRefines ==
    ASSUME IInv, IInv', DslEvtIoDeviceControl
    PROVE  Queue!Next
<1>1. ASSUME NEW r \in Report, NEW n \in RequestSize, PushStep(r, n)
      PROVE  Queue!Next
    <2> DEFINE p == [report |-> r, report_size |-> n]
    <2>1. p \in Pushed
        BY <1>1 DEF PushStep, Pushed
    <2>2. QueueOfRing' = Append(QueueOfRing, p)
        BY <1>1, PushAppends
    <2>3. Len(QueueOfRing) < kDslOutputQueueCapacity
        BY <1>1, QueueIsSeq DEF PushStep
    <2>4. AnswerOfReply' = Queue!Accepted
        BY <1>1 DEF PushStep, AnswerOfReply, Reply, Queue!Accepted
    <2> HIDE DEF p
    <2> QED
        BY <2>1, <2>2, <2>3, <2>4 DEF Queue!Next, Queue!Push
<1>2. CASE PopStep
    <2>1. AnswerOfReply' = Queue!Handed(Head(QueueOfRing))
        BY <1>2, PopTakesHead, PopHandsWholePacket
           DEF AnswerOfReply, Response, Queue!Handed
    <2> QED
        BY <1>2, <2>1, PopTakesHead DEF Queue!Next, Queue!Pop
<1>3. CASE /\ reply' = Reply("push", "BUFFER_OVERFLOW")
           /\ queue_count = kDslOutputQueueCapacity
           /\ UNCHANGED ring
    <2>1. AnswerOfReply' = Queue!Overflow
        BY <1>3 DEF AnswerOfReply, Reply, Queue!Overflow
    <2>2. PICK r \in Report, n \in RequestSize : HandlePushOutputIoctl(r, n)
        BY <1>3 DEF DslEvtIoDeviceControl, HandleSubmitInputIoctl, HandleGetOutputIoctl,
                    HandleGetVersionIoctl, RefusedIoctl, receive_output_report, Reply, Response
    <2>3. [report |-> r, report_size |-> 1] \in Pushed
        BY VhfAssumption DEF Pushed
    <2> QED
        BY <1>3, <2>1, <2>3, QueueIsSeq, SameRing DEF Queue!Next, Queue!Push
<1>4. CASE /\ reply' = Response("get", FreshPacket)
           /\ queue_count = 0
           /\ UNCHANGED ring
    <2>1. AnswerOfReply' = Queue!Empty
        BY <1>4 DEF AnswerOfReply, Response, FreshPacket, Queue!Empty
    <2> QED
        BY <1>4, <2>1, EmptyQueue, SameRing DEF Queue!Next, Queue!Pop
<1>5. CASE /\ reply' \in {Reply(i, s) : i \in Ioctl \ {"none"},
                             s \in Status \ {"SUCCESS", "BUFFER_OVERFLOW", "DEVICE_NOT_READY"}}
                           \cup {Reply("submit", "SUCCESS"), Reply("version", "SUCCESS")}
           /\ UNCHANGED ring
    <2>1. AnswerOfReply' = Queue!Other
        BY <1>5 DEF AnswerOfReply, Reply, Queue!Other
    <2> QED
        BY <1>5, <2>1, SameRing DEF Queue!Next, Queue!Ignore
<1> QED
    BY <1>1, <1>2, <1>3, <1>4, <1>5, IoctlCases

\* The driver's ring is a bounded first-in first-out queue, for every capacity and
\* every size of report that fits the response (vhf_device.cpp:67-122): every step
\* of the driver is a step of the queue or leaves it alone.
THEOREM RingImplementsQueue == Spec => ImplementsQueue
<1>1. ASSUME IInv, IInv', [Next]_vars
      PROVE  [Queue!Next]_(Queue!vars)
    <2>1. CASE DslEvtDeviceAdd
        BY <1>1, <2>1, AddRefines
    <2>2. CASE DslEvtDeviceContextCleanup
        BY <2>2, NoDeviceRefines DEF DslEvtDeviceContextCleanup, Queue!Next
    <2>3. CASE DslEvtIoDeviceControl
        BY <1>1, <2>3, IoctlRefines
    <2>4. CASE UNCHANGED vars
        BY <2>4, SameRing DEF vars, ring, AnswerOfReply, Queue!vars
    <2> QED
        BY <1>1, <2>1, <2>2, <2>3, <2>4 DEF Next
<1> QED
    BY <1>1, InitRefines, InvariantHolds, PTL DEF Spec, ImplementsQueue, Queue!Spec
=============================================================================
