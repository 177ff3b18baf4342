------------------------------- MODULE PipeLink -------------------------------
(***************************************************************************)
(* The named pipe between the service and the UI: PipeServer               *)
(* (ipc/pipe_server.cpp) and PipeClient (ui/PipeClient.cpp).  On each side *)
(* a receiver thread reads messages and now and then sends one itself (the *)
(* service's worker answers a command, the UI's reader asks for the status *)
(* when it has connected), and other threads send: here one of them, which *)
(* in the end calls Stop().                                                *)
(*                                                                         *)
(* External: the pipe.  Both ends are opened without FILE_FLAG_OVERLAPPED, *)
(* so the I/O manager lets a call on a handle wait until the call another  *)
(* thread has pending on it is over: "busy" is the thread whose call that  *)
(* is.  The 8192 bytes of the pipe's buffers are more than these messages  *)
(* need; a reader that lets them fill up is Bridge's PipeFlows.            *)
(***************************************************************************)
EXTENDS Integers, Sequences

CONSTANTS
    MaxStatuses,    \* bound: messages the service's sender sends
    MaxCommands,    \* bound: commands the user gives in one UI
    MaxInstances    \* bound: pipe instances the worker creates

ASSUME PipeAssumption ==
    MaxStatuses \in Nat /\ MaxCommands \in Nat /\ MaxInstances \in Nat \ {0}

VARIABLES
    running_,       \* by side
    connected_,     \* PipeServer's
    pipe_,          \* by side: the number of the open instance, 0 for none
    write_mutex_,   \* by side: the thread that holds it, or "nobody"
    pc, hand,       \* by thread: its next step; the message it sends or reads
    replies,        \* messages the worker has yet to answer with
    sent,           \* by side: messages of its sender so far
    \* the pipe
    instances,      \* instances created so far
    accepted,       \* a client has opened the last one
    busy,           \* by side: the thread with a call pending on the handle
    wire,           \* by side: what is under way to it, oldest first
    torn            \* history: an instance was given up under a half-written message

threadVars == <<pc, hand, replies>>
pipeVars == <<instances, accepted, busy, wire, torn>>
vars == <<running_, connected_, pipe_, write_mutex_, threadVars, sent, pipeVars>>

Side == {"service", "ui"}
Thread == {"worker", "feeder", "reader", "user"}
SideOf(t) == IF t \in {"worker", "feeder"} THEN "service" ELSE "ui"
Peer(s) == IF s = "service" THEN "ui" ELSE "service"
Receivers == {"worker", "reader"}
Senders == {"feeder", "user"}
ReceiverOf(s) == IF s = "service" THEN "worker" ELSE "reader"

\* A message: who sent it, whether a payload follows its header.  The service's
\* messages all have one; of the commands, the requests have none.
Message == [by : Thread, payload : BOOLEAN]
Request(t) == [by |-> t, payload |-> FALSE]
Loaded(t)  == [by |-> t, payload |-> TRUE]
Nothing == Request("reader")

\* What one WriteFile puts on the wire.
Part == [part : {"header", "payload"}, of : Message]

\* The steps of both threads of a side, those of the one that receives, and those of
\* the one that only sends.
SendStep == {"lock", "sendHeader", "sendPayload", "closeLock", "close", "flushWait", "done"}
ReceiverStep == SendStep \cup {"loop", "create", "connect", "connectWait", "header",
                    "headerWait", "payload", "payloadWait", "dispatch", "reply"}
SenderStep == SendStep \cup {"idle", "join"}

TypeOK ==
    /\ running_ \in [Side -> BOOLEAN]
    /\ connected_ \in BOOLEAN
    /\ pipe_ \in [Side -> 0 .. MaxInstances]
    /\ write_mutex_ \in [Side -> Thread \cup {"nobody"}]
    /\ pc \in [Thread -> ReceiverStep \cup SenderStep]
    /\ \A t \in Thread : pc[t] \in (IF t \in Receivers THEN ReceiverStep ELSE SenderStep)
    /\ hand \in [Thread -> Message]
    /\ replies \in 0 .. 2
    /\ sent \in [Side -> Nat]
    /\ sent["service"] <= MaxStatuses /\ sent["ui"] <= MaxCommands
    /\ instances \in 0 .. MaxInstances
    /\ accepted \in BOOLEAN
    /\ busy \in [Side -> Thread \cup {"nobody"}]
    /\ wire \in [Side -> Seq(Part)]
    /\ torn \in BOOLEAN

Init ==
    /\ running_ = [s \in Side |-> TRUE] /\ connected_ = FALSE
    /\ pipe_ = [s \in Side |-> 0]
    /\ write_mutex_ = [s \in Side |-> "nobody"]
    /\ pc = [t \in Thread |-> IF t \in Receivers THEN "loop" ELSE "idle"]
    /\ hand = [t \in Thread |-> Nothing] /\ replies = 0
    /\ sent = [s \in Side |-> 0]
    /\ instances = 0 /\ accepted = FALSE
    /\ busy = [s \in Side |-> "nobody"] /\ wire = [s \in Side |-> <<>>]
    /\ torn = FALSE

-----------------------------------------------------------------------------
(* The pipe, as the code sees it.                                          *)

\* Both ends of one instance are open.
Linked == pipe_["service"] # 0 /\ pipe_["ui"] = pipe_["service"]

\* A call can be made on the handle of t's side.
Free(t) == busy[SideOf(t)] = "nobody"
Pending(t) == busy' = [busy EXCEPT ![SideOf(t)] = t]
Returned(t) == busy' = [busy EXCEPT ![SideOf(t)] = "nobody"]

Goto(t, step) == pc' = [pc EXCEPT ![t] = step]
Holds(t, m) == hand' = [hand EXCEPT ![t] = m]
At(t, step) == pc[t] = step
Invalidate(s) == pipe_' = [pipe_ EXCEPT ![s] = 0]

-----------------------------------------------------------------------------
(* Sending: PipeServer::SendMessage and PipeClient::SendCommand.           *)

\* Mutant: a receiver does not go on receiving.
AfterSendIdle(t) == "idle"

\* Where a thread goes on when a message is sent, or could not be.
AfterSend(t) ==
    CASE t = "worker" -> "reply" [] t = "reader" -> "header" [] OTHER -> "idle"

Unlock(t) == write_mutex_' = [write_mutex_ EXCEPT ![SideOf(t)] = "nobody"]

\* Connected, or the handle is valid, as seen before the lock is taken.
SeemsConnected(t) == IF SideOf(t) = "service" THEN connected_ ELSE pipe_["ui"] # 0

SendBegins(t, m) ==
    /\ Goto(t, IF SeemsConnected(t) THEN "lock" ELSE AfterSend(t))
    /\ Holds(t, IF SeemsConnected(t) THEN m ELSE Nothing)

\* Mutant: nobody waits for the lock.
NeverTaken(s) == TRUE

MutexFree(s) == write_mutex_[s] = "nobody"

Lock(t) ==
    /\ At(t, "lock") /\ MutexFree(SideOf(t))
    /\ write_mutex_' = [write_mutex_ EXCEPT ![SideOf(t)] = t]
    /\ Goto(t, "sendHeader")
    /\ UNCHANGED <<running_, connected_, pipe_, hand, replies, sent, pipeVars>>

Put(t, part) ==
    wire' = [wire EXCEPT ![Peer(SideOf(t))] = Append(@, [part |-> part, of |-> hand[t]])]

\* Mutant: an early return keeps the lock.
Leave(t) == UNCHANGED write_mutex_

SendFailed(t) == Unlock(t)

SendHeader(t) ==
    /\ At(t, "sendHeader")
    /\ \/ /\ pipe_[SideOf(t)] # 0 /\ Free(t) /\ Linked
          /\ Put(t, "header")
          /\ IF hand[t].payload
             THEN Goto(t, "sendPayload") /\ UNCHANGED <<write_mutex_, hand>>
             ELSE Goto(t, AfterSend(t)) /\ Unlock(t) /\ Holds(t, Nothing)
       \/ /\ \/ pipe_[SideOf(t)] = 0
             \/ Free(t) /\ ~Linked
          /\ Goto(t, AfterSend(t)) /\ SendFailed(t) /\ Holds(t, Nothing)
          /\ UNCHANGED wire
    /\ UNCHANGED <<running_, connected_, pipe_, replies, sent, instances, accepted, busy, torn>>

SendPayload(t) ==
    /\ At(t, "sendPayload")
    /\ \/ pipe_[SideOf(t)] # 0 /\ Free(t) /\ Linked /\ Put(t, "payload")
       \/ /\ \/ pipe_[SideOf(t)] = 0
             \/ Free(t) /\ ~Linked
          /\ UNCHANGED wire
    /\ Goto(t, AfterSend(t)) /\ Unlock(t) /\ Holds(t, Nothing)
    /\ UNCHANGED <<running_, connected_, pipe_, replies, sent, instances, accepted, busy, torn>>

-----------------------------------------------------------------------------
(* Receiving: ReadMessage of both sides.                                   *)

\* ReadFile is called, for the header or the payload.
ReadBegins(t) ==
    /\ \/ /\ At(t, "header") /\ pipe_[SideOf(t)] # 0 /\ Free(t)
          /\ Goto(t, "headerWait") /\ Pending(t)
       \/ /\ At(t, "payload") /\ pipe_[SideOf(t)] # 0 /\ Free(t)
          /\ Goto(t, "payloadWait") /\ Pending(t)
       \/ /\ pc[t] \in {"header", "payload"} /\ pipe_[SideOf(t)] = 0
          /\ Goto(t, "closeLock") /\ UNCHANGED busy
    /\ hand' = IF pipe_[SideOf(t)] = 0 THEN [hand EXCEPT ![t] = Nothing] ELSE hand
    /\ UNCHANGED <<running_, connected_, pipe_, write_mutex_, replies, sent, instances,
                   accepted, wire, torn>>

\* It returns with what is on the wire, or fails when nothing can come any more.
ReadReturns(t) ==
    LET w == wire[SideOf(t)]
    IN  /\ pc[t] \in {"headerWait", "payloadWait"}
        /\ \/ /\ w # <<>>
              /\ wire' = [wire EXCEPT ![SideOf(t)] = Tail(w)]
              /\ Holds(t, Head(w).of)
              /\ Goto(t, IF At(t, "headerWait") /\ Head(w).of.payload
                         THEN "payload" ELSE "dispatch")
           \/ /\ w = <<>> /\ ~Linked
              /\ Goto(t, "closeLock") /\ Holds(t, Nothing)
              /\ UNCHANGED wire
        /\ Returned(t)
        /\ UNCHANGED <<running_, connected_, pipe_, write_mutex_, replies, sent, instances,
                       accepted, torn>>

-----------------------------------------------------------------------------
(* ClosePipe of both sides.                                                *)

\* Mutant: Stop() does not join.
AfterCloseDone(t) == IF t \in Receivers THEN "loop" ELSE "done"

AfterClose(t) == IF t \in Receivers THEN "loop" ELSE "join"

\* The worker's connected_ = false comes before its ClosePipe; Stop()'s did.
CloseLock(t) ==
    /\ At(t, "closeLock") /\ MutexFree(SideOf(t))
    /\ write_mutex_' = [write_mutex_ EXCEPT ![SideOf(t)] = t]
    /\ Goto(t, "close")
    /\ connected_' = IF t = "worker" THEN FALSE ELSE connected_
    /\ UNCHANGED <<running_, pipe_, hand, replies, sent, pipeVars>>

\* The UI closes its handle at once, the service flushes the pipe first.
Close(t) ==
    /\ At(t, "close")
    /\ \/ /\ pipe_[SideOf(t)] = 0
          /\ Goto(t, AfterClose(t)) /\ Unlock(t) /\ UNCHANGED <<pipe_, busy>>
       \/ /\ pipe_[SideOf(t)] # 0 /\ Free(t) /\ SideOf(t) = "ui"
          /\ Invalidate("ui")
          /\ Goto(t, AfterClose(t)) /\ Unlock(t) /\ UNCHANGED busy
       \/ /\ pipe_[SideOf(t)] # 0 /\ Free(t) /\ SideOf(t) = "service"
          /\ Pending(t)
          /\ Goto(t, "flushWait") /\ UNCHANGED <<pipe_, write_mutex_>>
    /\ UNCHANGED <<running_, connected_, hand, replies, sent, instances, accepted, wire, torn>>

\* FlushFileBuffers returns when the UI has read everything or is gone;
\* DisconnectNamedPipe and CloseHandle follow.
FlushReturns(t) ==
    /\ At(t, "flushWait")
    /\ wire["ui"] = <<>> \/ ~Linked
    /\ Invalidate("service")
    /\ wire' = [s \in Side |-> <<>>]
    /\ Returned(t) /\ Unlock(t)
    /\ Goto(t, AfterClose(t))
    /\ UNCHANGED <<running_, connected_, hand, replies, sent, instances, accepted, torn>>

-----------------------------------------------------------------------------
(* PipeServer::Run.                                                        *)

RunLoop ==
    /\ At("worker", "loop")
    /\ Goto("worker", IF running_["service"] THEN "create" ELSE "done")
    /\ UNCHANGED <<running_, connected_, pipe_, write_mutex_, hand, replies, sent, pipeVars>>

\* CreateNamedPipeW, without the lock.
CreatePipe ==
    /\ At("worker", "create") /\ instances < MaxInstances
    /\ instances' = instances + 1 /\ accepted' = FALSE
    /\ pipe_' = [pipe_ EXCEPT !["service"] = instances + 1]
    /\ Goto("worker", "connect")
    /\ UNCHANGED <<running_, connected_, write_mutex_, hand, replies, sent, busy, wire, torn>>

\* ConnectNamedPipe; on a handle Stop() has closed it fails.
ConnectBegins ==
    /\ At("worker", "connect")
    /\ \/ pipe_["service"] # 0 /\ Free("worker") /\ Pending("worker")
             /\ Goto("worker", "connectWait")
       \/ pipe_["service"] = 0 /\ Goto("worker", "loop") /\ UNCHANGED busy
    /\ UNCHANGED <<running_, connected_, pipe_, write_mutex_, hand, replies, sent, instances,
                   accepted, wire, torn>>

\* A client that is gone already may make it fail: the handle is closed.  Otherwise
\* HandleConnectedClient looks at running_ first.
ConnectReturns ==
    /\ At("worker", "connectWait") /\ accepted
    /\ \/ /\ Goto("worker", IF running_["service"] THEN "header" ELSE "closeLock")
          /\ connected_' = TRUE /\ UNCHANGED <<pipe_, wire, torn>>
       \/ /\ ~Linked /\ Goto("worker", "loop")
          /\ Invalidate("service") /\ wire' = [s \in Side |-> <<>>]
          /\ torn' = (torn \/ At("feeder", "sendPayload"))
          /\ UNCHANGED connected_
    /\ Returned("worker")
    /\ UNCHANGED <<running_, write_mutex_, hand, replies, sent, instances, accepted>>

\* DispatchCommand.  Before SetOnCommand nobody hears the command; otherwise a request
\* for the status or a HidHide toggle is answered with two messages, any other with one.
DispatchCommand ==
    /\ At("worker", "dispatch")
    /\ replies' \in 0 .. 2
    /\ Goto("worker", "reply") /\ Holds("worker", Nothing)
    /\ UNCHANGED <<running_, connected_, pipe_, write_mutex_, sent, pipeVars>>

\* The next answer; after the last one HandleConnectedClient looks at running_.
Reply ==
    /\ At("worker", "reply")
    /\ \/ /\ replies > 0 /\ replies' = replies - 1
          /\ SendBegins("worker", Loaded("worker"))
       \/ /\ replies = 0
          /\ Goto("worker", IF running_["service"] THEN "header" ELSE "closeLock")
          /\ UNCHANGED <<replies, hand>>
    /\ UNCHANGED <<running_, connected_, pipe_, write_mutex_, sent, pipeVars>>

-----------------------------------------------------------------------------
(* PipeClient::RunReadLoop.                                                *)

RunReadLoop ==
    /\ At("reader", "loop")
    /\ \/ ~running_["ui"] /\ Goto("reader", "done")
       \/ running_["ui"] /\ pipe_["ui"] = 0 /\ Goto("reader", "create")
       \/ running_["ui"] /\ pipe_["ui"] # 0 /\ Goto("reader", "header")
    /\ UNCHANGED <<running_, connected_, pipe_, write_mutex_, hand, replies, sent, pipeVars>>

\* CreateFileW finds an instance nobody has opened, and RequestStatus follows.
OpenPipe ==
    /\ At("reader", "create")
    /\ pipe_["service"] # 0 /\ ~accepted
    /\ pipe_' = [pipe_ EXCEPT !["ui"] = pipe_["service"]]
    /\ accepted' = TRUE
    /\ Goto("reader", "lock")
    /\ Holds("reader", Request("reader"))
    /\ UNCHANGED <<running_, connected_, write_mutex_, replies, sent, instances, busy, wire, torn>>

\* Nothing to open: 300 ms later the loop starts again.
OpenFails ==
    /\ At("reader", "create")
    /\ pipe_["service"] = 0 \/ accepted
    /\ Goto("reader", "loop")
    /\ UNCHANGED <<running_, connected_, pipe_, write_mutex_, hand, replies, sent, pipeVars>>

\* DispatchMessage: the callbacks only post to the window.
DispatchMessage ==
    /\ At("reader", "dispatch")
    /\ Goto("reader", "loop") /\ Holds("reader", Nothing)
    /\ UNCHANGED <<running_, connected_, pipe_, write_mutex_, replies, sent, pipeVars>>

-----------------------------------------------------------------------------
(* The other threads.                                                      *)

SendStatus ==
    /\ At("feeder", "idle") /\ sent["service"] < MaxStatuses
    /\ sent' = [sent EXCEPT !["service"] = @ + 1]
    /\ SendBegins("feeder", Loaded("feeder"))
    /\ UNCHANGED <<running_, connected_, pipe_, write_mutex_, replies, pipeVars>>

SendCommand ==
    /\ At("user", "idle") /\ sent["ui"] < MaxCommands
    /\ sent' = [sent EXCEPT !["ui"] = @ + 1]
    /\ \E m \in {Request("user"), Loaded("user")} :
          SendBegins("user", m)
    /\ UNCHANGED <<running_, connected_, pipe_, write_mutex_, replies, pipeVars>>

\* Stop() of either side.
Stop(t) ==
    /\ t \in Senders /\ At(t, "idle")
    /\ running_' = [running_ EXCEPT ![SideOf(t)] = FALSE]
    /\ connected_' = IF t = "feeder" THEN FALSE ELSE connected_
    /\ Goto(t, "closeLock")
    /\ UNCHANGED <<pipe_, write_mutex_, hand, replies, sent, pipeVars>>

Join(t) ==
    /\ At(t, "join") /\ At(ReceiverOf(SideOf(t)), "done")
    /\ Goto(t, "done")
    /\ UNCHANGED <<running_, connected_, pipe_, write_mutex_, hand, replies, sent, pipeVars>>

\* The UI ends, however it does, with all its handles; another one may be started.
UiReplaced ==
    /\ pipe_["ui"] # 0
    /\ Invalidate("ui")
    /\ running_' = [running_ EXCEPT !["ui"] = TRUE]
    /\ write_mutex_' = [write_mutex_ EXCEPT !["ui"] = "nobody"]
    /\ busy' = [busy EXCEPT !["ui"] = "nobody"]
    /\ pc' = [pc EXCEPT !["reader"] = "loop", !["user"] = "idle"]
    /\ hand' = [hand EXCEPT !["reader"] = Nothing, !["user"] = Nothing]
    /\ sent' = [sent EXCEPT !["ui"] = 0]
    /\ wire' = [wire EXCEPT !["ui"] = <<>>]
    /\ UNCHANGED <<connected_, replies, instances, accepted, torn>>

-----------------------------------------------------------------------------
SendNext(t) == Lock(t) \/ SendHeader(t) \/ SendPayload(t)
ReceiveNext(t) == ReadBegins(t) \/ ReadReturns(t)
CloseNext(t) == CloseLock(t) \/ Close(t) \/ FlushReturns(t)

WorkerNext ==
    \/ SendNext("worker") \/ ReceiveNext("worker") \/ CloseNext("worker")
    \/ RunLoop \/ CreatePipe \/ ConnectBegins \/ ConnectReturns \/ DispatchCommand \/ Reply

ReaderNext ==
    \/ SendNext("reader") \/ ReceiveNext("reader") \/ CloseNext("reader")
    \/ RunReadLoop \/ OpenPipe \/ OpenFails \/ DispatchMessage

\* What a sender has begun it goes on with.
SenderGoesOn(t) == t \in Senders /\ (SendNext(t) \/ CloseNext(t) \/ Join(t))

Next ==
    \/ WorkerNext \/ ReaderNext
    \/ \E t \in Senders : SenderGoesOn(t) \/ Stop(t)
    \/ SendStatus \/ SendCommand \/ UiReplaced

Spec == Init /\ [][Next]_vars

\* Threads are scheduled; nobody has to send, to stop or to end.
FairSpec ==
    /\ Spec
    /\ WF_vars(WorkerNext) /\ WF_vars(ReaderNext)
    /\ \A t \in Senders : WF_vars(SenderGoesOn(t))

-----------------------------------------------------------------------------
\* A message is read as it was sent: where a header is expected a header comes, and
\* where a payload is expected the payload of that message, although headers and
\* payloads are written apart, by two threads, while the worker swaps pipes under them
\* without the lock (pipe_server.cpp:86-95, 144-161; PipeClient.cpp:173-192).  There is
\* one exception, and no other: a sender that saw the connection before the last writes
\* its header into an instance ConnectNamedPipe has not returned for; that call fails
\* because the client is gone, the worker replaces the pipe without the lock
\* (pipe_server.cpp:87-108), and the payload goes first to the next client.
FramesWhole ==
    ~torn => \A s \in Side :
        LET t == ReceiverOf(s)
        IN  /\ pc[t] \in {"header", "headerWait"} /\ wire[s] # <<>>
                 => Head(wire[s]).part = "header"
            /\ pc[t] \in {"payload", "payloadWait"} /\ wire[s] # <<>>
                 => Head(wire[s]) = [part |-> "payload", of |-> hand[t]]

\* A service that was stopped holds no pipe and no lock, so that the next service can
\* make the pipe's only instance (pipe_server.cpp:21-32, 74-110).
StoppedHoldsNothing ==
    pc["feeder"] = "done" =>
        /\ pipe_["service"] = 0
        /\ write_mutex_["service"] = "nobody" /\ busy["service"] = "nobody"

\* When a UI goes away, however it does, the worker makes a new pipe for the next one,
\* although another thread may be sending to the old one with the lock
\* (pipe_server.cpp:74-84, 122-131).
ListensAgain ==
    (accepted /\ ~Linked /\ instances < MaxInstances /\ running_["service"])
        ~> (Linked \/ ~accepted \/ ~running_["service"])

\* "status stream (ServiceStatus)" (README.md:40): a status that is being sent to a
\* connected UI arrives.
StatusStreams ==
    (pc["feeder"] = "sendHeader" /\ Linked) ~> (pc["feeder"] # "sendHeader" \/ ~Linked)
=============================================================================
