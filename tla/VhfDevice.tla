------------------------------ MODULE VhfDevice ------------------------------
(***************************************************************************)
(* The kernel driver (src/driver/driver.cpp, src/driver/vhf_device.cpp):   *)
(* device add and removal, and the four IOCTLs, over the ring of output    *)
(* reports.  The default queue is sequential (driver.cpp:125), so an IOCTL *)
(* runs to completion before the next: one action per IOCTL handler.       *)
(*                                                                         *)
(* The framework dispatches an IOCTL only to a device whose EvtDeviceAdd   *)
(* succeeded; it deletes a device whose EvtDeviceAdd failed.  The context  *)
(* of a new device is zeroed.  A buffer that is too short is refused by    *)
(* WdfRequestRetrieve*Buffer ("badBuffer").                                *)
(***************************************************************************)
EXTENDS Integers, Sequences

CONSTANTS
    Report,         \* contents of a report
    NoReport,       \* what a slot holds before its first report
    kMaxReportSize,             \* driver_protocol.h: room in a request
    kDslMaxOutputReportSize,    \* vhf_device.h: room in a ring slot
    kDslOutputQueueCapacity     \* vhf_device.h: slots of the ring

ASSUME VhfAssumption ==
    /\ NoReport \notin Report
    /\ kMaxReportSize \in Nat \ {0}
    /\ kDslMaxOutputReportSize \in Nat \ {0}
    /\ kDslMaxOutputReportSize <= kMaxReportSize
    /\ kDslOutputQueueCapacity \in Nat \ {0}

VARIABLES
    device,         \* "absent" | "started"
    handle,         \* context->handle is not null
    output_lock,    \* context->output_lock is not null
    output_queue,   \* the ring's slots
    queue_head, queue_tail, queue_count,
    reply           \* how the last request was completed

ring == <<output_queue, queue_head, queue_tail, queue_count>>
vars == <<device, handle, output_lock, ring, reply>>

Slots == 0 .. kDslOutputQueueCapacity - 1
\* Mutant: the index is not wrapped.
RingAddUnwrapped(p, d) == p + d

\* The slot d places after slot p.
RingAdd(p, d) == (p + d) % kDslOutputQueueCapacity

Packet == [report : Report \cup {NoReport}, report_size : 0 .. kDslMaxOutputReportSize]
FreshPacket == [report |-> NoReport, report_size |-> 0]

\* What a client may push: a report with a size.  The size it names is its own:
\* one past what the request can hold is enough to reach the validation.
Pushed == [report : Report, report_size : 1 .. kDslMaxOutputReportSize]
RequestSize == 0 .. kMaxReportSize + 1

Status == {"SUCCESS", "INVALID_PARAMETER", "DEVICE_NOT_READY", "BUFFER_OVERFLOW",
           "INVALID_DEVICE_REQUEST", "badBuffer", "vhfError"}
Ioctl == {"none", "submit", "push", "version", "get", "unknown"}

\* A completed request: its code, its status and, for "get", the response.
Reply(i, s) == [ioctl |-> i, status |-> s, response |-> FreshPacket]
Response(i, p) == [ioctl |-> i, status |-> "SUCCESS", response |-> p]

TypeOK ==
    /\ device \in {"absent", "started"}
    /\ handle \in BOOLEAN
    /\ output_lock \in BOOLEAN
    /\ output_queue \in [Slots -> Packet]
    /\ queue_head \in Slots
    /\ queue_tail \in Slots
    /\ queue_count \in 0 .. kDslOutputQueueCapacity
    /\ reply \in [ioctl : Ioctl, status : Status, response : Packet]

-----------------------------------------------------------------------------
\* A device object that does not exist (yet, or any more): the framework's
\* zeroed context.
NoDevice ==
    /\ device' = "absent"
    /\ handle' = FALSE
    /\ output_lock' = FALSE
    /\ output_queue' = [s \in Slots |-> FreshPacket]
    /\ queue_head' = 0 /\ queue_tail' = 0 /\ queue_count' = 0
    /\ reply' = Reply("none", "SUCCESS")

Init ==
    /\ device = "absent"
    /\ handle = FALSE
    /\ output_lock = FALSE
    /\ output_queue = [s \in Slots |-> FreshPacket]
    /\ queue_head = 0 /\ queue_tail = 0 /\ queue_count = 0
    /\ reply = Reply("none", "SUCCESS")

\* DslCreateVirtualDevice: TRUE when it returns STATUS_SUCCESS.
DslCreateVirtualDevice(lockMade, vhfMade) ==
    /\ output_lock' = lockMade
    /\ handle' = (lockMade /\ vhfMade)
    /\ queue_head' = 0 /\ queue_tail' = 0 /\ queue_count' = 0

\* Mutant: the status of VhfCreate is ignored.
CreateIgnoresVhf(lockMade, vhfMade) == lockMade

CreateSucceeds(lockMade, vhfMade) == lockMade /\ vhfMade

\* DslEvtDeviceAdd.  A failure of any step makes the framework delete the
\* device, cleanup callback included, and nothing is left.
DslEvtDeviceAdd ==
    /\ device = "absent"
    /\ \E objectsMade, lockMade, vhfMade \in BOOLEAN :
          IF objectsMade /\ CreateSucceeds(lockMade, vhfMade)
          THEN /\ device' = "started"
               /\ DslCreateVirtualDevice(lockMade, vhfMade)
               /\ UNCHANGED <<output_queue, reply>>
          ELSE NoDevice

\* DslEvtDeviceContextCleanup at removal: VhfDelete, then the framework frees
\* the device, its lock and its context.
DslEvtDeviceContextCleanup == device = "started" /\ NoDevice

-----------------------------------------------------------------------------
\* IOCTL_DSL_SUBMIT_INPUT_REPORT: VhfReadReportSubmit may refuse the report.
HandleSubmitInputIoctl(size) ==
    /\ reply' \in
         IF size \notin 1 .. kMaxReportSize THEN {Reply("submit", "INVALID_PARAMETER")}
         ELSE IF ~handle THEN {Reply("submit", "DEVICE_NOT_READY")}
         ELSE {Reply("submit", "SUCCESS"), Reply("submit", "vhfError")}
    /\ UNCHANGED ring

\* queue_output_report, for a request the dispatch has validated.
queue_output_report(r, size) ==
    IF size \notin 1 .. kDslMaxOutputReportSize
    THEN reply' = Reply("push", "INVALID_PARAMETER") /\ UNCHANGED ring
    ELSE IF ~output_lock
    THEN reply' = Reply("push", "DEVICE_NOT_READY") /\ UNCHANGED ring
    ELSE IF queue_count >= kDslOutputQueueCapacity
    THEN reply' = Reply("push", "BUFFER_OVERFLOW") /\ UNCHANGED ring
    ELSE /\ output_queue' = [output_queue EXCEPT
                                ![queue_tail] = [report |-> r, report_size |-> size]]
         /\ queue_tail' = RingAdd(queue_tail, 1)
         /\ queue_count' = queue_count + 1
         /\ reply' = Reply("push", "SUCCESS")
         /\ UNCHANGED queue_head

HandlePushOutputIoctl(r, size) ==
    IF size \notin 1 .. kMaxReportSize
    THEN reply' = Reply("push", "INVALID_PARAMETER") /\ UNCHANGED ring
    ELSE queue_output_report(r, size)

\* receive_output_report, into a response of kMaxReportSize bytes: the slot keeps its
\* bytes, its size is cleared.
\* Mutants: the size of an emptied slot is not cleared; the response has the size of
\* its buffer; the head is not advanced.
KeepsSize(p, n) == [report |-> p.report, report_size |-> p.report_size]
CopyAll(p) == kMaxReportSize

Resized(p, n) == [report |-> p.report, report_size |-> n]
CopySize(p) == IF p.report_size < kMaxReportSize THEN p.report_size ELSE kMaxReportSize

receive_without_advance ==
    LET packet == output_queue[queue_head]
    IN  /\ reply' = Response("get", Resized(packet, CopySize(packet)))
        /\ output_queue' = [output_queue EXCEPT ![queue_head] = Resized(packet, 0)]
        /\ queue_count' = queue_count - 1
        /\ UNCHANGED <<queue_head, queue_tail>>

receive_output_report ==
    LET packet == output_queue[queue_head]
    IN  /\ reply' = Response("get", Resized(packet, CopySize(packet)))
        /\ output_queue' = [output_queue EXCEPT ![queue_head] = Resized(packet, 0)]
        /\ queue_head' = RingAdd(queue_head, 1)
        /\ queue_count' = queue_count - 1
        /\ UNCHANGED queue_tail

\* IOCTL_DSL_GET_OUTPUT_REPORT: an empty ring is a success of size 0.
HandleGetOutputIoctl ==
    IF ~output_lock
    THEN reply' = Reply("get", "DEVICE_NOT_READY") /\ UNCHANGED ring
    ELSE IF queue_count = 0
    THEN reply' = Response("get", FreshPacket) /\ UNCHANGED ring
    ELSE receive_output_report

HandleGetVersionIoctl == reply' = Reply("version", "SUCCESS") /\ UNCHANGED ring

\* A request whose buffer is too short, or whose code is none of the four.
RefusedIoctl ==
    /\ reply' \in {Reply(i, "badBuffer") : i \in {"submit", "push", "version", "get"}}
                    \cup {Reply("unknown", "INVALID_DEVICE_REQUEST")}
    /\ UNCHANGED ring

DslEvtIoDeviceControl ==
    /\ device = "started"
    /\ \/ \E n \in RequestSize : HandleSubmitInputIoctl(n)
       \/ \E r \in Report, n \in RequestSize : HandlePushOutputIoctl(r, n)
       \/ HandleGetOutputIoctl
       \/ HandleGetVersionIoctl
       \/ RefusedIoctl
    /\ UNCHANGED <<device, handle, output_lock>>

Next == DslEvtDeviceAdd \/ DslEvtDeviceContextCleanup \/ DslEvtIoDeviceControl

Spec == Init /\ [][Next]_vars

-----------------------------------------------------------------------------
\* The slot that holds the i-th oldest accepted report.
SlotOf(i) == RingAdd(queue_head, i - 1)

\* The ring as a queue, and a completed request as an answer.
QueueOfRing == [i \in 1 .. queue_count |-> output_queue[SlotOf(i)]]

AnswerOfReply ==
    IF reply.ioctl = "push" /\ reply.status = "SUCCESS" THEN [kind |-> "accepted"]
    ELSE IF reply.ioctl = "push" /\ reply.status = "BUFFER_OVERFLOW" THEN [kind |-> "overflow"]
    ELSE IF reply.ioctl = "get" /\ reply.status = "SUCCESS"
    THEN IF reply.response.report_size = 0 THEN [kind |-> "empty"]
         ELSE [kind |-> "handed", report |-> reply.response]
    ELSE [kind |-> "other"]

Queue == INSTANCE OutputQueue WITH
            Report <- Pushed,
            Capacity <- kDslOutputQueueCapacity,
            queue <- QueueOfRing,
            answer <- AnswerOfReply

\* The ring implements the bounded first-in first-out queue: through any number
\* of wrap-arounds a report is answered with an overflow or handed out once, whole,
\* in order, and "nothing to report" is said only of an empty queue
\* (vhf_device.cpp:67-122, driver.cpp:71-79).
ImplementsQueue == Queue!Spec

\* The three counters never drift apart: the tail is where head and count say it
\* is, across wrap-around, full and empty (vhf_device.cpp:92-93, 118-119).
RingConsistent ==
    queue_tail = RingAdd(queue_head, queue_count)

\* A slot has a size exactly while it holds an accepted report: a client that
\* reads size 0 as "nothing" (driver_bridge_client.cpp:169) drops no report, and
\* no cleared slot is handed out.
SizeMarksLiveSlots ==
    \A s \in Slots :
        output_queue[s].report_size # 0
            <=> \E i \in 1 .. queue_count : SlotOf(i) = s

\* A device that serves requests has its lock and its virtual device, whatever
\* failed while earlier devices were added, so the not-ready paths of the
\* handlers (vhf_device.cpp:58, 77, 105) answer no request.
StartedIsReady ==
    /\ device = "started" => handle /\ output_lock
    /\ reply.status # "DEVICE_NOT_READY"
=============================================================================
