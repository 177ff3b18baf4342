--------------------------- MODULE PipeLinkProofs ----------------------------
(***************************************************************************)
(* Proofs about PipeLink, for any number of messages and of instances of   *)
(* the pipe.  First who holds the locks, who has a call pending and which  *)
(* ends of the pipe are open (Control); from that, that a stopped service  *)
(* holds nothing.  Then what is on the wire (Frames): it goes on from what *)
(* the receiver has read last, and ends with what the sender with the lock *)
(* has written last.                                                       *)
(***************************************************************************)
EXTENDS PipeLink, SequenceTheorems, TLAPS

LockedStep == {"sendHeader", "sendPayload", "close", "flushWait"}
CallStep == {"headerWait", "payloadWait", "connectWait", "flushWait"}

\* The lock of a side is held by the thread of it that is between Lock and Unlock.
LocksHeld ==
    /\ \A t \in Thread : write_mutex_[SideOf(t)] = t <=> pc[t] \in LockedStep
    /\ \A s \in Side : write_mutex_[s] = "nobody" \/ SideOf(write_mutex_[s]) = s

\* The call pending on the handle of a side is of the thread of it that waits.
CallsPending ==
    /\ \A t \in Thread : busy[SideOf(t)] = t <=> pc[t] \in CallStep
    /\ \A s \in Side : busy[s] = "nobody" \/ SideOf(busy[s]) = s
    /\ \A t \in Thread : pc[t] = "flushWait" => SideOf(t) = "service"

\* Which ends are open while the threads are where they are.
EndsOpen ==
    /\ \A s \in Side : pipe_[s] <= instances
    /\ pc["worker"] \in {"loop", "create", "done"} => pipe_["service"] = 0
    /\ pc["reader"] = "create" => pipe_["ui"] = 0
    /\ pc["feeder"] = "done" => pc["worker"] = "done"
    /\ ~accepted => pipe_["service"] = 0 \/ pipe_["ui"] # pipe_["service"]
    /\ pc["worker"] \notin {"loop", "create", "connect", "connectWait", "done"} => accepted
    /\ \A t \in Thread :
          pc[t] = "sendPayload" =>
              IF SideOf(t) = "service" THEN torn \/ (pipe_["service"] # 0 /\ accepted)
              ELSE pipe_["ui"] # 0

\* Nothing is under way in an instance that is closed or was not opened yet.
WireEmpty ==
    pipe_["service"] = 0 \/ ~accepted => \A s \in Side : wire[s] = <<>>

Control == TypeOK /\ LocksHeld /\ CallsPending /\ EndsOpen /\ WireEmpty

-----------------------------------------------------------------------------
LEMMA InitControl == Init => Control
<1> SUFFICES ASSUME Init PROVE Control
    OBVIOUS
<1> USE PipeAssumption DEF Init, Side, Thread, SideOf, Receivers
<1>1. TypeOK
    <2>1. Nothing \in Message
        BY DEF Message, Nothing, Request
    <2>2. /\ wire \in [Side -> Seq(Part)]
          /\ sent \in [Side -> Nat] /\ sent["service"] <= MaxStatuses /\ sent["ui"] <= MaxCommands
          /\ pipe_ \in [Side -> 0 .. MaxInstances]
        OBVIOUS
    <2>3. /\ pc \in [Thread -> ReceiverStep \cup SenderStep]
          /\ \A t \in Thread : pc[t] \in (IF t \in Receivers THEN ReceiverStep ELSE SenderStep)
        BY DEF ReceiverStep, SenderStep
    <2>4. /\ running_ \in [Side -> BOOLEAN] /\ {connected_, torn, accepted} \subseteq BOOLEAN
          /\ write_mutex_ \in [Side -> Thread \cup {"nobody"}]
          /\ busy \in [Side -> Thread \cup {"nobody"}]
        OBVIOUS
    <2>5. replies \in 0 .. 2 /\ instances \in 0 .. MaxInstances
        OBVIOUS
    <2>6. hand = [t \in Thread |-> Nothing]
        OBVIOUS
    <2> HIDE DEF Init, Side, Thread, Receivers
    <2>7. hand \in [Thread -> Message]
        BY <2>1, <2>6
    <2> QED
        BY <2>2, <2>3, <2>4, <2>5, <2>7 DEF TypeOK
<1>2. LocksHeld /\ CallsPending
    BY DEF LocksHeld, CallsPending, LockedStep, CallStep
<1>3. EndsOpen /\ WireEmpty
    BY DEF EndsOpen, WireEmpty
<1> QED
    BY <1>1, <1>2, <1>3 DEF Control

LEMMA Messages ==
    /\ Nothing \in Message
    /\ \A t \in Thread : Request(t) \in Message /\ Loaded(t) \in Message
    /\ \A m \in Message : /\ [part |-> "header", of |-> m] \in Part
                          /\ [part |-> "payload", of |-> m] \in Part
BY DEF Message, Nothing, Request, Loaded, Thread, Part

LEMMA AfterSendSteps ==
    \A t \in Thread : AfterSend(t) = IF t = "worker" THEN "reply"
                                     ELSE IF t = "reader" THEN "header" ELSE "idle"
BY DEF AfterSend, Thread

\* Every step keeps the types.
LEMMA TypeStep == ASSUME Control, Next PROVE TypeOK'
<1>0. TypeOK
    BY DEF Control
<1> USE PipeAssumption, AfterSendSteps, Messages DEF Goto, At, Holds, Unlock, Invalidate,
    Pending, Returned
<1>w. wire \in [Side -> Seq(Part)]
    BY <1>0 DEF TypeOK
<1>1. ASSUME NEW t \in Thread, NEW p \in Part
      PROVE  [wire EXCEPT ![Peer(SideOf(t))] = Append(@, p)] \in [Side -> Seq(Part)]
    BY <1>w DEF Side, Peer
<1>g. ASSUME NEW t \in Thread, NEW step \in IF t \in Receivers THEN ReceiverStep ELSE SenderStep,
             pc' = [pc EXCEPT ![t] = step]
      PROVE  /\ pc' \in [Thread -> ReceiverStep \cup SenderStep]
             /\ \A u \in Thread :
                   pc'[u] \in (IF u \in Receivers THEN ReceiverStep ELSE SenderStep)
    BY <1>0, <1>g DEF TypeOK
<1>s. \A t \in Thread : SideOf(t) \in Side
    BY DEF Thread, SideOf, Side
<1>h. hand \in [Thread -> Message]
    BY <1>0 DEF TypeOK
<1>m. write_mutex_ \in [Side -> Thread \cup {"nobody"}]
    BY <1>0 DEF TypeOK
\* A thread that has sent, or could not, forgets the message and leaves the lock.
<1>e. ASSUME NEW t \in Thread,
             hand' = hand \/ hand' = [hand EXCEPT ![t] = Nothing],
             write_mutex_' = write_mutex_ \/ Unlock(t)
      PROVE  hand' \in [Thread -> Message] /\ write_mutex_' \in [Side -> Thread \cup {"nobody"}]
    <2>1. hand' \in [Thread -> Message]
        BY <1>h, <1>e
    <2>2. write_mutex_' \in [Side -> Thread \cup {"nobody"}]
        BY <1>m, <1>s, <1>e
    <2> QED
        BY <2>1, <2>2
<1>2. ASSUME NEW t \in Thread, SendNext(t) PROVE TypeOK'
    <2>1. CASE Lock(t)
        BY <1>0, <2>1 DEF TypeOK, Lock, Side, SideOf, Thread, Receivers, ReceiverStep,
            SenderStep, SendStep, pipeVars
    <2>2. /\ [part |-> "header", of |-> hand[t]] \in Part
          /\ [part |-> "payload", of |-> hand[t]] \in Part
        BY <1>0 DEF TypeOK
    <2>w. ASSUME wire' = wire \/ Put(t, "header") \/ Put(t, "payload")
          PROVE  wire' \in [Side -> Seq(Part)]
        <3>1. CASE wire' = wire
            BY <1>w, <3>1
        <3>2. CASE Put(t, "header")
            BY <1>1, <2>2, <3>2 DEF Put
        <3>3. CASE Put(t, "payload")
            BY <1>1, <2>2, <3>3 DEF Put
        <3> QED
            BY <2>w, <3>1, <3>2, <3>3
    <2>3. CASE SendHeader(t)
        <3>1. wire' \in [Side -> Seq(Part)]
            BY <2>w, <2>3 DEF SendHeader
        <3>2. PICK step \in {"sendPayload", AfterSend(t)} : pc' = [pc EXCEPT ![t] = step]
            BY <2>3 DEF SendHeader
        <3>3. step \in IF t \in Receivers THEN ReceiverStep ELSE SenderStep
            BY DEF Thread, Receivers, ReceiverStep, SenderStep, SendStep
        <3>4. hand' \in [Thread -> Message] /\ write_mutex_' \in [Side -> Thread \cup {"nobody"}]
            BY <1>e, <2>3 DEF SendHeader, SendFailed
        <3>5. UNCHANGED <<running_, connected_, pipe_, replies, sent, instances, accepted, busy,
                          torn>>
            BY <2>3 DEF SendHeader
        <3> QED
            BY <1>0, <1>g, <3>1, <3>2, <3>3, <3>4, <3>5 DEF TypeOK
    <2>4. CASE SendPayload(t)
        <3>1. wire' \in [Side -> Seq(Part)]
            BY <2>w, <2>4 DEF SendPayload
        <3>2. pc' = [pc EXCEPT ![t] = AfterSend(t)]
            BY <2>4 DEF SendPayload
        <3>3. AfterSend(t) \in IF t \in Receivers THEN ReceiverStep ELSE SenderStep
            BY DEF Thread, Receivers, ReceiverStep, SenderStep, SendStep
        <3>4. hand' \in [Thread -> Message] /\ write_mutex_' \in [Side -> Thread \cup {"nobody"}]
            BY <1>e, <2>4 DEF SendPayload
        <3>5. UNCHANGED <<running_, connected_, pipe_, replies, sent, instances, accepted, busy,
                          torn>>
            BY <2>4 DEF SendPayload
        <3> QED
            BY <1>0, <1>g, <3>1, <3>2, <3>3, <3>4, <3>5 DEF TypeOK
    <2> QED
        BY <1>2, <2>1, <2>3, <2>4 DEF SendNext
<1>3. ASSUME NEW t \in Receivers, ReceiveNext(t) PROVE TypeOK'
    <2>1. CASE ReadBegins(t)
        BY <1>0, <2>1 DEF TypeOK, ReadBegins, Side, SideOf, Thread, Receivers, ReceiverStep,
            SenderStep, SendStep
    <2>2. CASE ReadReturns(t)
        <3>1. wire[SideOf(t)] # <<>> => /\ Head(wire[SideOf(t)]).of \in Message
                                        /\ Tail(wire[SideOf(t)]) \in Seq(Part)
            <4>1. wire[SideOf(t)] \in Seq(Part)
                BY <1>w DEF Side, SideOf
            <4>2. wire[SideOf(t)] # <<>> => /\ Head(wire[SideOf(t)]) \in Part
                                            /\ Tail(wire[SideOf(t)]) \in Seq(Part)
                BY <4>1
            <4> QED
                BY <4>2 DEF Part
        <3>2. hand' \in [Thread -> Message] /\ wire' \in [Side -> Seq(Part)]
            <4>1. CASE wire[SideOf(t)] # <<>>
                <5>1. /\ wire' = [wire EXCEPT ![SideOf(t)] = Tail(wire[SideOf(t)])]
                      /\ hand' = [hand EXCEPT ![t] = Head(wire[SideOf(t)]).of]
                    BY <2>2, <4>1 DEF ReadReturns
                <5> QED
                    BY <1>h, <1>w, <3>1, <4>1, <5>1
            <4>2. CASE wire[SideOf(t)] = <<>>
                <5>1. wire' = wire /\ hand' = [hand EXCEPT ![t] = Nothing]
                    BY <2>2, <4>2 DEF ReadReturns
                <5> QED
                    BY <1>h, <1>w, <5>1
            <4> QED
                BY <4>1, <4>2
        <3> QED
            BY <1>0, <2>2, <3>2 DEF TypeOK, ReadReturns, Side, SideOf, Thread, Receivers,
                ReceiverStep, SenderStep, SendStep
    <2> QED
        BY <1>3, <2>1, <2>2 DEF ReceiveNext
<1>4. ASSUME NEW t \in Thread, CloseNext(t) PROVE TypeOK'
    <2>1. CASE CloseLock(t)
        BY <1>0, <2>1 DEF TypeOK, CloseLock, Side, SideOf, Thread, Receivers, ReceiverStep,
            SenderStep, SendStep, pipeVars
    <2>2. CASE Close(t)
        BY <1>0, <2>2 DEF TypeOK, Close, AfterClose, Side, SideOf, Thread, Receivers,
            ReceiverStep, SenderStep, SendStep
    <2>3. CASE FlushReturns(t)
        <3>1. wire' \in [Side -> Seq(Part)]
            BY <2>3 DEF FlushReturns
        <3> QED
            BY <1>0, <2>3, <3>1 DEF TypeOK, FlushReturns, AfterClose, Side, SideOf, Thread,
                Receivers, ReceiverStep, SenderStep, SendStep
    <2> QED
        BY <1>4, <2>1, <2>2, <2>3 DEF CloseNext
<1>5. CASE RunLoop \/ CreatePipe \/ ConnectBegins
    <2>1. CASE RunLoop \/ ConnectBegins
        BY <1>0, <2>1 DEF TypeOK, RunLoop, ConnectBegins, Side, SideOf, Thread, Receivers,
            ReceiverStep, SenderStep, SendStep, pipeVars
    <2>2. CASE CreatePipe
        <3>1. instances + 1 \in 0 .. MaxInstances
            BY <1>0, <2>2 DEF TypeOK, CreatePipe
        <3> QED
            BY <1>0, <2>2, <3>1 DEF TypeOK, CreatePipe, Side, Thread, Receivers,
                ReceiverStep, SenderStep
    <2> QED
        BY <1>5, <2>1, <2>2
<1>6. CASE ConnectReturns
    <2>1. wire' = wire \/ wire' = [s \in Side |-> <<>>]
        BY <1>6 DEF ConnectReturns
    <2>2. wire' \in [Side -> Seq(Part)]
        <3>1. CASE wire' = wire
            BY <1>w, <3>1
        <3>2. CASE wire' = [s \in Side |-> <<>>]
            BY <3>2
        <3> QED
            BY <2>1, <3>1, <3>2
    <2>3. PICK step \in {"header", "closeLock", "loop"} : pc' = [pc EXCEPT !["worker"] = step]
        BY <1>6 DEF ConnectReturns
    <2>4. /\ pc' \in [Thread -> ReceiverStep \cup SenderStep]
          /\ \A t \in Thread :
                pc'[t] \in (IF t \in Receivers THEN ReceiverStep ELSE SenderStep)
        BY <1>0, <2>3 DEF TypeOK, Thread, Receivers, ReceiverStep, SendStep
    <2>5. pipe_' \in [Side -> 0 .. MaxInstances]
        <3>1. pipe_' = pipe_ \/ pipe_' = [pipe_ EXCEPT !["service"] = 0]
            BY <1>6 DEF ConnectReturns
        <3>2. pipe_ \in [Side -> 0 .. MaxInstances] /\ 0 \in 0 .. MaxInstances
            BY <1>0 DEF TypeOK
        <3>3. CASE pipe_' = pipe_
            BY <3>2, <3>3
        <3>4. CASE pipe_' = [pipe_ EXCEPT !["service"] = 0]
            BY <3>2, <3>4
        <3> QED
            BY <3>1, <3>3, <3>4
    <2>6. /\ busy' \in [Side -> Thread \cup {"nobody"}]
          /\ connected_' \in BOOLEAN /\ torn' \in BOOLEAN
          /\ UNCHANGED <<running_, write_mutex_, hand, replies, sent, instances, accepted>>
        BY <1>0, <1>6 DEF TypeOK, ConnectReturns
    <2> QED
        BY <1>0, <2>2, <2>4, <2>5, <2>6 DEF TypeOK
<1>7. CASE DispatchCommand \/ Reply
    BY <1>0, <1>7 DEF TypeOK, DispatchCommand, Reply, SendBegins, Side, SideOf, Thread,
        Receivers, ReceiverStep, SenderStep, SendStep, pipeVars
<1>8. CASE RunReadLoop \/ OpenPipe \/ OpenFails \/ DispatchMessage
    <2>1. CASE RunReadLoop \/ OpenFails \/ DispatchMessage
        BY <1>0, <2>1 DEF TypeOK, RunReadLoop, OpenFails, DispatchMessage, Thread,
            Receivers, ReceiverStep, SenderStep, SendStep, pipeVars
    <2>2. CASE OpenPipe
        BY <1>0, <2>2 DEF TypeOK, OpenPipe, Side, Thread, Receivers, ReceiverStep,
            SenderStep, SendStep
    <2> QED
        BY <1>8, <2>1, <2>2
<1>9. CASE SendStatus \/ SendCommand
    <2>1. PICK t \in {"feeder", "user"}, step \in {"lock", "idle"}, m \in Message :
             pc' = [pc EXCEPT ![t] = step] /\ hand' = [hand EXCEPT ![t] = m]
        BY <1>9 DEF SendStatus, SendCommand, SendBegins, Thread
    <2>2. t \in Thread /\ step \in IF t \in Receivers THEN ReceiverStep ELSE SenderStep
        BY DEF Thread, Receivers, SenderStep, SendStep
    <2>3. hand' \in [Thread -> Message]
        BY <1>0, <2>1, <2>2 DEF TypeOK
    <2>4. /\ sent' \in [Side -> Nat]
          /\ sent'["service"] <= MaxStatuses /\ sent'["ui"] <= MaxCommands
        BY <1>0, <1>9 DEF TypeOK, SendStatus, SendCommand, Side
    <2>5. UNCHANGED <<running_, connected_, pipe_, write_mutex_, replies, pipeVars>>
        BY <1>9 DEF SendStatus, SendCommand
    <2> QED
        BY <1>0, <1>g, <2>1, <2>2, <2>3, <2>4, <2>5 DEF TypeOK, pipeVars
<1>10. ASSUME NEW t \in Senders, Stop(t) \/ Join(t) PROVE TypeOK'
    <2>1. t \in Thread /\ t \notin Receivers
        BY DEF Thread, Senders, Receivers
    <2>2. PICK step \in {"closeLock", "done"} : pc' = [pc EXCEPT ![t] = step]
        BY <1>10 DEF Stop, Join
    <2>3. /\ pc' \in [Thread -> ReceiverStep \cup SenderStep]
          /\ \A u \in Thread :
                pc'[u] \in (IF u \in Receivers THEN ReceiverStep ELSE SenderStep)
        BY <1>0, <2>1, <2>2 DEF TypeOK, SenderStep, SendStep
    <2>4. /\ running_' \in [Side -> BOOLEAN] /\ connected_' \in BOOLEAN
          /\ UNCHANGED <<pipe_, write_mutex_, hand, replies, sent, pipeVars>>
        BY <1>0, <1>10 DEF TypeOK, Stop, Join
    <2> QED
        BY <1>0, <2>3, <2>4 DEF TypeOK, pipeVars
<1>11. CASE UiReplaced
    BY <1>0, <1>11 DEF TypeOK, UiReplaced, Side, SideOf, Thread, Receivers,
        ReceiverStep, SenderStep, SendStep
<1> HIDE DEF Goto, At, Holds, Unlock, Invalidate, Pending, Returned
<1>12. CASE WorkerNext
    BY <1>2, <1>3, <1>4, <1>5, <1>6, <1>7, <1>12 DEF WorkerNext, Thread, Receivers
<1>13. CASE ReaderNext
    BY <1>2, <1>3, <1>4, <1>8, <1>13 DEF ReaderNext, Thread, Receivers
<1>14. ASSUME NEW t \in Senders, SenderGoesOn(t) PROVE TypeOK'
    BY <1>2, <1>4, <1>10, <1>14 DEF SenderGoesOn, Thread, Senders
<1> QED
    BY <1>9, <1>10, <1>11, <1>12, <1>13, <1>14 DEF Next

\* What keeps the locks: a step of one thread that neither takes nor leaves the lock, that
\* takes it, or that leaves it.
LEMMA LockSteps ==
    ASSUME TypeOK, LocksHeld, NEW t \in Thread, NEW step, pc' = [pc EXCEPT ![t] = step],
           \/ UNCHANGED write_mutex_ /\ (pc[t] \in LockedStep <=> step \in LockedStep)
           \/ /\ MutexFree(SideOf(t)) /\ step \in LockedStep
              /\ write_mutex_' = [write_mutex_ EXCEPT ![SideOf(t)] = t]
           \/ pc[t] \in LockedStep /\ Unlock(t) /\ step \notin LockedStep
    PROVE  LocksHeld'
<1> USE DEF TypeOK, LocksHeld, Side, Thread, SideOf
<1>1. CASE UNCHANGED write_mutex_ /\ (pc[t] \in LockedStep <=> step \in LockedStep)
    BY <1>1
<1>2. CASE /\ MutexFree(SideOf(t)) /\ step \in LockedStep
           /\ write_mutex_' = [write_mutex_ EXCEPT ![SideOf(t)] = t]
    BY <1>2 DEF MutexFree
<1>3. CASE pc[t] \in LockedStep /\ Unlock(t) /\ step \notin LockedStep
    BY <1>3 DEF Unlock
<1> QED
    BY <1>1, <1>2, <1>3

\* The same of the calls on the handles.
LEMMA CallSteps ==
    ASSUME TypeOK, CallsPending, NEW t \in Thread, NEW step, pc' = [pc EXCEPT ![t] = step],
           step = "flushWait" => SideOf(t) = "service",
           \/ UNCHANGED busy /\ (pc[t] \in CallStep <=> step \in CallStep)
           \/ Free(t) /\ step \in CallStep /\ Pending(t)
           \/ pc[t] \in CallStep /\ Returned(t) /\ step \notin CallStep
    PROVE  CallsPending'
<1> USE DEF TypeOK, CallsPending, Side, Thread, SideOf
<1>1. CASE UNCHANGED busy /\ (pc[t] \in CallStep <=> step \in CallStep)
    BY <1>1
<1>2. CASE Free(t) /\ step \in CallStep /\ Pending(t)
    BY <1>2 DEF Free, Pending
<1>3. CASE pc[t] \in CallStep /\ Returned(t) /\ step \notin CallStep
    BY <1>3 DEF Returned
<1> QED
    BY <1>1, <1>2, <1>3

\* Every step keeps the locks and the calls.
LEMMA HoldStep == ASSUME Control, Next PROVE LocksHeld' /\ CallsPending'
<1> USE AfterSendSteps DEF Goto, At
<1>0. TypeOK /\ LocksHeld /\ CallsPending
    BY DEF Control
<1> DEFINE Kept == LocksHeld' /\ CallsPending'
<1>1. ASSUME NEW t \in Thread, SendNext(t) PROVE Kept
    <2>1. AfterSend(t) \notin LockedStep \cup CallStep
        BY DEF LockedStep, CallStep
    <2>2. CASE Lock(t)
        BY <1>0, <2>2, LockSteps, CallSteps DEF Lock, LockedStep, CallStep, pipeVars
    <2>3. CASE SendHeader(t)
        BY <1>0, <2>1, <2>3, LockSteps, CallSteps DEF SendHeader, SendFailed, LockedStep,
            CallStep
    <2>4. CASE SendPayload(t)
        BY <1>0, <2>1, <2>4, LockSteps, CallSteps DEF SendPayload, LockedStep, CallStep
    <2> QED
        BY <1>1, <2>2, <2>3, <2>4 DEF SendNext
<1>2. ASSUME NEW t \in Receivers, ReceiveNext(t) PROVE Kept
    <2>1. t \in Thread
        BY DEF Receivers, Thread
    <2>2. CASE ReadBegins(t)
        BY <1>0, <2>1, <2>2, LockSteps, CallSteps DEF ReadBegins, LockedStep, CallStep
    <2>3. CASE ReadReturns(t)
        BY <1>0, <2>1, <2>3, LockSteps, CallSteps DEF ReadReturns, LockedStep, CallStep
    <2> QED
        BY <1>2, <2>2, <2>3 DEF ReceiveNext
<1>3. ASSUME NEW t \in Thread, CloseNext(t) PROVE Kept
    <2>1. AfterClose(t) \notin LockedStep \cup CallStep
        BY DEF AfterClose, LockedStep, CallStep
    <2>2. CASE CloseLock(t)
        BY <1>0, <2>2, LockSteps, CallSteps DEF CloseLock, LockedStep, CallStep, pipeVars
    <2>3. CASE Close(t)
        BY <1>0, <2>1, <2>3, LockSteps, CallSteps DEF Close, LockedStep, CallStep
    <2>4. CASE FlushReturns(t)
        BY <1>0, <2>1, <2>4, LockSteps, CallSteps DEF FlushReturns, LockedStep, CallStep
    <2> QED
        BY <1>3, <2>2, <2>3, <2>4 DEF CloseNext
<1>4. CASE RunLoop \/ CreatePipe \/ ConnectBegins \/ ConnectReturns \/ DispatchCommand \/ Reply
    <2>1. "worker" \in Thread
        BY DEF Thread
    <2>2. CASE RunLoop \/ CreatePipe \/ DispatchCommand
        BY <1>0, <2>1, <2>2, LockSteps, CallSteps DEF RunLoop, CreatePipe, DispatchCommand,
            LockedStep, CallStep, pipeVars
    <2>3. CASE ConnectBegins \/ ConnectReturns
        BY <1>0, <2>1, <2>3, LockSteps, CallSteps DEF ConnectBegins, ConnectReturns,
            LockedStep, CallStep
    <2>4. CASE Reply
        BY <1>0, <2>1, <2>4, LockSteps, CallSteps DEF Reply, SendBegins, LockedStep,
            CallStep, pipeVars
    <2> QED
        BY <1>4, <2>2, <2>3, <2>4
<1>5. CASE RunReadLoop \/ OpenPipe \/ OpenFails \/ DispatchMessage
    <2>1. "reader" \in Thread
        BY DEF Thread
    <2> QED
        BY <1>0, <1>5, <2>1, LockSteps, CallSteps DEF RunReadLoop, OpenPipe, OpenFails,
            DispatchMessage, LockedStep, CallStep, pipeVars
<1>6. CASE SendStatus \/ SendCommand
    <2>1. {"feeder", "user"} \subseteq Thread
        BY DEF Thread
    <2> QED
        BY <1>0, <1>6, <2>1, LockSteps, CallSteps DEF SendStatus, SendCommand, SendBegins,
            LockedStep, CallStep, pipeVars
<1>7. ASSUME NEW t \in Senders, Stop(t) \/ Join(t) PROVE Kept
    <2>1. t \in Thread
        BY DEF Thread, Senders
    <2> QED
        BY <1>0, <1>7, <2>1, LockSteps, CallSteps DEF Stop, Join, LockedStep, CallStep,
            pipeVars
<1>8. CASE UiReplaced
    <2>1. LocksHeld'
        BY <1>0, <1>8 DEF UiReplaced, TypeOK, LocksHeld, LockedStep, Thread, Side, SideOf
    <2>2. CallsPending'
        BY <1>0, <1>8 DEF UiReplaced, TypeOK, CallsPending, CallStep, Thread, Side, SideOf
    <2> QED
        BY <2>1, <2>2
<1> HIDE DEF Goto, At
<1>9. CASE WorkerNext
    BY <1>1, <1>2, <1>3, <1>4, <1>9 DEF WorkerNext, Thread, Receivers
<1>10. CASE ReaderNext
    BY <1>1, <1>2, <1>3, <1>5, <1>10 DEF ReaderNext, Thread, Receivers
<1>11. ASSUME NEW t \in Senders, SenderGoesOn(t) PROVE Kept
    BY <1>1, <1>3, <1>7, <1>11 DEF SenderGoesOn, Thread, Senders
<1> QED
    BY <1>6, <1>7, <1>8, <1>9, <1>10, <1>11 DEF Next

\* Every step keeps what is known of the ends.
LEMMA EndStep == ASSUME Control, Next PROVE EndsOpen' /\ WireEmpty'
<1> USE AfterSendSteps DEF Goto, At
<1>0. TypeOK /\ LocksHeld /\ CallsPending /\ EndsOpen /\ WireEmpty
    BY DEF Control
<1>p. /\ pc \in [Thread -> ReceiverStep \cup SenderStep]
      /\ pipe_ \in [Side -> 0 .. MaxInstances]
      /\ instances \in 0 .. MaxInstances
    BY <1>0 DEF TypeOK
<1>l. Linked => accepted
    BY <1>0 DEF Linked, EndsOpen
\* A thread that goes where nothing is expected of the ends, and leaves them alone.
<1>1. ASSUME NEW t \in Thread, NEW step, pc' = [pc EXCEPT ![t] = step],
             step \notin {"create", "done", "sendPayload"},
             t = "worker" /\ step \notin {"loop", "connect", "connectWait"} =>
                accepted \/ pc["worker"] \notin
                                {"loop", "create", "connect", "connectWait", "done"},
             t = "worker" => pc["worker"] # "done",
             t = "worker" /\ step = "loop" => pipe_["service"] = 0,
             UNCHANGED <<pipe_, instances, accepted, torn>>
      PROVE  EndsOpen'
    BY <1>0, <1>p, <1>1 DEF EndsOpen, Thread, SideOf
<1>2. ASSUME UNCHANGED <<pipe_, accepted, wire>> PROVE WireEmpty'
    BY <1>0, <1>2 DEF WireEmpty
<1>3. ASSUME NEW t \in Thread, SendNext(t) PROVE EndsOpen' /\ WireEmpty'
    <2>1. CASE Lock(t)
        BY <1>1, <1>2, <2>1 DEF Lock, pipeVars
    <2>2. CASE SendHeader(t) /\ pc'[t] # "sendPayload"
        <3>1. pc' = [pc EXCEPT ![t] = AfterSend(t)]
            BY <1>p, <2>2 DEF SendHeader
        <3>2. EndsOpen'
            BY <1>1, <2>2, <3>1 DEF SendHeader
        <3>3. WireEmpty'
            BY <1>0, <1>l, <2>2 DEF SendHeader, WireEmpty, Linked
        <3> QED
            BY <3>2, <3>3
    <2>3. CASE SendHeader(t) /\ pc'[t] = "sendPayload"
        <3>1. pc' = [pc EXCEPT ![t] = "sendPayload"] /\ Linked
            BY <1>p, <2>3 DEF SendHeader
        <3>2. EndsOpen'
            BY <1>0, <1>p, <1>l, <2>3, <3>1 DEF SendHeader, EndsOpen, Linked, Thread, SideOf
        <3>3. WireEmpty'
            BY <1>0, <1>l, <2>3, <3>1 DEF SendHeader, WireEmpty, Linked
        <3> QED
            BY <3>2, <3>3
    <2>4. CASE SendPayload(t)
        <3>1. EndsOpen'
            BY <1>1, <2>4 DEF SendPayload
        <3>2. WireEmpty'
            BY <1>0, <1>l, <2>4 DEF SendPayload, WireEmpty, Linked
        <3> QED
            BY <3>1, <3>2
    <2> QED
        BY <1>3, <2>1, <2>2, <2>3, <2>4 DEF SendNext
<1>4. ASSUME NEW t \in Receivers, ReceiveNext(t) PROVE EndsOpen' /\ WireEmpty'
    <2>1. t \in Thread
        BY DEF Receivers, Thread
    <2>2. CASE ReadBegins(t)
        BY <1>1, <1>2, <2>1, <2>2 DEF ReadBegins
    <2>3. CASE ReadReturns(t)
        <3>1. EndsOpen'
            BY <1>1, <2>1, <2>3 DEF ReadReturns
        <3>2. WireEmpty'
            BY <1>0, <2>1, <2>3 DEF ReadReturns, WireEmpty, Side, SideOf
        <3> QED
            BY <3>1, <3>2
    <2> QED
        BY <1>4, <2>2, <2>3 DEF ReceiveNext
<1>5. ASSUME NEW t \in Thread, CloseNext(t) PROVE EndsOpen' /\ WireEmpty'
    <2>1. CASE CloseLock(t)
        BY <1>1, <1>2, <2>1 DEF CloseLock, pipeVars
    <2>2. AfterClose(t) \in {"loop", "join"} /\ (t = "worker" => AfterClose(t) = "loop")
        BY DEF AfterClose, Receivers
    <2>3. CASE Close(t)
        <3>1. CASE UNCHANGED pipe_
            BY <1>1, <1>2, <2>2, <2>3, <3>1 DEF Close, SideOf
        <3>2. CASE SideOf(t) = "ui" /\ Invalidate("ui") /\ Goto(t, AfterClose(t))
            <4>1. \A u \in Thread : SideOf(u) = "ui" /\ pc[u] = "sendPayload" => u = t
                BY <1>0, <2>3, <3>2 DEF Close, LocksHeld, LockedStep
            <4>2. EndsOpen'
                BY <1>0, <1>p, <2>2, <2>3, <3>2, <4>1 DEF Close, EndsOpen, Invalidate, Side,
                    Thread, SideOf
            <4>3. WireEmpty'
                BY <1>0, <1>p, <2>3, <3>2 DEF Close, WireEmpty, Invalidate, Side
            <4> QED
                BY <4>2, <4>3
        <3> QED
            BY <2>3, <3>1, <3>2 DEF Close
    <2>4. CASE FlushReturns(t)
        <3>1. SideOf(t) = "service" /\ pc[t] = "flushWait"
            BY <1>0, <2>4 DEF FlushReturns, CallsPending
        <3>2. \A u \in Thread : SideOf(u) = "service" => pc[u] # "sendPayload"
            BY <1>0, <3>1 DEF LocksHeld, LockedStep
        <3>3. EndsOpen'
            BY <1>0, <1>p, <2>2, <2>4, <3>1, <3>2 DEF FlushReturns, EndsOpen, Invalidate,
                Side, Thread, SideOf
        <3>4. WireEmpty'
            BY <2>4 DEF FlushReturns, WireEmpty
        <3> QED
            BY <3>3, <3>4
    <2> QED
        BY <1>5, <2>1, <2>3, <2>4 DEF CloseNext
<1>w. "worker" \in Thread
    BY DEF Thread
<1>6. CASE RunLoop
    <2>1. EndsOpen'
        BY <1>0, <1>p, <1>6 DEF RunLoop, EndsOpen, Thread, SideOf, pipeVars
    <2> QED
        BY <1>2, <1>6, <2>1 DEF RunLoop, pipeVars
<1>7. CASE CreatePipe
    <2>1. pipe_["service"] = 0
        BY <1>0, <1>7 DEF CreatePipe, EndsOpen
    <2>2. EndsOpen'
        BY <1>0, <1>p, <1>7, <2>1 DEF CreatePipe, EndsOpen, Thread, Side, SideOf
    <2>3. WireEmpty'
        BY <1>0, <1>7, <2>1 DEF CreatePipe, WireEmpty
    <2> QED
        BY <2>2, <2>3
<1>8. CASE ConnectBegins \/ DispatchCommand \/ Reply
    BY <1>1, <1>2, <1>8, <1>w DEF ConnectBegins, DispatchCommand, Reply, SendBegins,
        pipeVars
<1>9. CASE ConnectReturns
    <2>1. CASE UNCHANGED <<pipe_, wire, torn>> /\ pc'["worker"] # "loop"
        BY <1>1, <1>2, <1>9, <2>1, <1>w, <1>p DEF ConnectReturns
    <2>2. CASE /\ Goto("worker", "loop") /\ Invalidate("service")
               /\ wire' = [s \in Side |-> <<>>]
               /\ torn' = (torn \/ At("feeder", "sendPayload"))
        <3>0. /\ pc' = [pc EXCEPT !["worker"] = "loop"]
              /\ pipe_' = [pipe_ EXCEPT !["service"] = 0]
              /\ pc["feeder"] = "sendPayload" => torn'
              /\ accepted /\ UNCHANGED <<instances, accepted>>
            BY <1>9, <2>2 DEF ConnectReturns, Invalidate
        <3>1. EndsOpen'
            BY <1>0, <1>p, <1>9, <3>0 DEF ConnectReturns, EndsOpen, Thread, Side, SideOf
        <3>2. WireEmpty'
            BY <2>2 DEF WireEmpty
        <3> QED
            BY <3>1, <3>2
    <2> QED
        BY <1>9, <1>w, <1>p, <2>1, <2>2 DEF ConnectReturns
<1>10. CASE RunReadLoop
    <2>1. EndsOpen'
        BY <1>0, <1>p, <1>10 DEF RunReadLoop, EndsOpen, Thread, SideOf, pipeVars
    <2> QED
        BY <1>2, <1>10, <2>1 DEF RunReadLoop, pipeVars
<1>11. CASE OpenPipe
    <2>1. EndsOpen'
        BY <1>0, <1>p, <1>11 DEF OpenPipe, EndsOpen, Thread, Side, SideOf
    <2>2. WireEmpty'
        BY <1>0, <1>p, <1>11 DEF OpenPipe, WireEmpty, Side
    <2> QED
        BY <2>1, <2>2
<1>12. CASE OpenFails \/ DispatchMessage
    <2>1. "reader" \in Thread
        BY DEF Thread
    <2> QED
        BY <1>1, <1>2, <1>12, <2>1 DEF OpenFails, DispatchMessage, pipeVars
<1>13. CASE SendStatus \/ SendCommand
    <2>1. {"feeder", "user"} \subseteq Thread
        BY DEF Thread
    <2> QED
        BY <1>1, <1>2, <1>13, <2>1 DEF SendStatus, SendCommand, SendBegins, pipeVars
<1>14. ASSUME NEW t \in Senders, Stop(t) PROVE EndsOpen' /\ WireEmpty'
    BY <1>1, <1>2, <1>14 DEF Stop, Thread, Senders, pipeVars
<1>15. ASSUME NEW t \in Senders, Join(t) PROVE EndsOpen' /\ WireEmpty'
    <2>1. EndsOpen'
        BY <1>0, <1>p, <1>15 DEF Join, EndsOpen, Thread, Senders, ReceiverOf, SideOf,
            pipeVars
    <2> QED
        BY <1>2, <1>15, <2>1 DEF Join, pipeVars
<1>16. CASE UiReplaced
    <2>1. EndsOpen'
        BY <1>0, <1>p, <1>16 DEF UiReplaced, EndsOpen, Invalidate, Thread, Side, SideOf
    <2>2. WireEmpty'
        BY <1>0, <1>p, <1>16 DEF UiReplaced, WireEmpty, Invalidate, Side, TypeOK
    <2> QED
        BY <2>1, <2>2
<1> HIDE DEF Goto, At
<1>17. CASE WorkerNext
    BY <1>3, <1>4, <1>5, <1>6, <1>7, <1>8, <1>9, <1>17 DEF WorkerNext, Thread, Receivers
<1>18. CASE ReaderNext
    BY <1>3, <1>4, <1>5, <1>10, <1>11, <1>12, <1>18 DEF ReaderNext, Thread, Receivers
<1>19. ASSUME NEW t \in Senders, SenderGoesOn(t) PROVE EndsOpen' /\ WireEmpty'
    BY <1>3, <1>5, <1>15, <1>19 DEF SenderGoesOn, Thread, Senders
<1> QED
    BY <1>13, <1>14, <1>16, <1>17, <1>18, <1>19 DEF Next

LEMMA NextControl == Control /\ [Next]_vars => Control'
<1> SUFFICES ASSUME Control, [Next]_vars PROVE Control'
    OBVIOUS
<1>1. CASE Next
    BY <1>1, TypeStep, HoldStep, EndStep DEF Control
<1>2. CASE UNCHANGED vars
    BY <1>2 DEF vars, threadVars, pipeVars, Control, TypeOK, LocksHeld, CallsPending,
        EndsOpen, WireEmpty
<1> QED
    BY <1>1, <1>2

LEMMA ControlHolds == Spec => []Control
BY InitControl, NextControl, PTL DEF Spec

-----------------------------------------------------------------------------
(* What is on the wire.                                                    *)

Complete == [part |-> "payload", of |-> Nothing]

\* A header that is followed by a payload.
Owes(p) == p.part = "header" /\ p.of.payload

\* q can come after p.
Follows(p, q) == IF Owes(p) THEN q = [part |-> "payload", of |-> p.of] ELSE q.part = "header"

\* w can come after prev.
Framed(prev, w) ==
    \A i \in 1 .. Len(w) : Follows(IF i = 1 THEN prev ELSE w[i - 1], w[i])

LastOf(prev, w) == IF w = <<>> THEN prev ELSE w[Len(w)]

\* What the receiver of a side has read last, as far as it matters.
Prev(s) ==
    LET r == ReceiverOf(s)
    IN  IF pc[r] \in {"payload", "payloadWait"} THEN [part |-> "header", of |-> hand[r]]
        ELSE Complete

\* The receiver can go on to read what is there.
Listening(s) ==
    \/ pipe_[s] # 0
    \/ pc[ReceiverOf(s)] \in {"lock", "sendHeader", "sendPayload", "header", "headerWait",
                              "payload", "payloadWait"}

Frames ==
    ~torn => \A s \in Side :
        /\ pc[ReceiverOf(s)] \in {"payload", "payloadWait"} => hand[ReceiverOf(s)].payload
        /\ Listening(s) => Framed(Prev(s), wire[s])
        /\ Linked =>
              LET last == LastOf(Prev(s), wire[s])
              IN  /\ \A t \in Thread :
                        SideOf(t) # s /\ pc[t] = "sendPayload"
                            => last = [part |-> "header", of |-> hand[t]] /\ hand[t].payload
                  /\ (\A t \in Thread : SideOf(t) # s => pc[t] # "sendPayload") => ~Owes(last)

LEMMA FramedEmpty == ASSUME NEW p PROVE Framed(p, <<>>) /\ LastOf(p, <<>>) = p
BY DEF Framed, LastOf

LEMMA FramedAppend ==
    ASSUME NEW p, NEW w \in Seq(Part), NEW q \in Part, Framed(p, w), Follows(LastOf(p, w), q)
    PROVE  Framed(p, Append(w, q)) /\ LastOf(p, Append(w, q)) = q
<1> DEFINE x == Append(w, q)
<1>1. /\ Len(x) = Len(w) + 1 /\ x # <<>> /\ x[Len(w) + 1] = q
      /\ \A i \in 1 .. Len(w) : x[i] = w[i]
    OBVIOUS
<1>2. ASSUME NEW i \in 1 .. Len(x) PROVE Follows(IF i = 1 THEN p ELSE x[i - 1], x[i])
    <2>1. CASE i \in 1 .. Len(w)
        <3>1. x[i] = w[i] /\ (i # 1 => x[i - 1] = w[i - 1])
            BY <1>1, <2>1
        <3> QED
            BY <2>1, <3>1 DEF Framed
    <2>2. CASE i = Len(w) + 1
        <3>1. LastOf(p, w) = IF i = 1 THEN p ELSE x[i - 1]
            BY <1>1, <2>2 DEF LastOf
        <3> QED
            BY <1>1, <2>2, <3>1
    <2> QED
        BY <1>1, <2>1, <2>2
<1> QED
    BY <1>1, <1>2 DEF Framed, LastOf

\* The first part has been read, and r stands for it.
LEMMA FramedTail ==
    ASSUME NEW p, NEW r, NEW w \in Seq(Part), w # <<>>, Framed(p, w),
           r = Head(w) \/ (~Owes(r) /\ ~Owes(Head(w)))
    PROVE  /\ Follows(p, Head(w))
           /\ Framed(r, Tail(w))
           /\ LastOf(r, Tail(w)) = LastOf(p, w)
              \/ (~Owes(LastOf(r, Tail(w))) /\ ~Owes(LastOf(p, w)))
<1>0. Tail(w) = <<>> => Len(w) = 1
    <2>1. Tail(w) \in Seq(Part) /\ Len(Tail(w)) = Len(w) - 1 /\ Len(w) \in Nat
        OBVIOUS
    <2>2. Tail(w) = <<>> => Len(Tail(w)) = 0
        BY EmptySeq, Zenon
    <2> QED
        BY <2>1, <2>2
<1>1. /\ Len(w) \in Nat /\ Len(w) # 0 /\ Head(w) = w[1]
      /\ Len(Tail(w)) = Len(w) - 1
      /\ \A i \in 1 .. Len(Tail(w)) : Tail(w)[i] = w[i + 1]
    OBVIOUS
<1>2. Follows(p, Head(w))
    BY <1>1 DEF Framed
<1>3. ASSUME NEW i \in 1 .. Len(Tail(w))
      PROVE  Follows(IF i = 1 THEN r ELSE Tail(w)[i - 1], Tail(w)[i])
    <2>1. i + 1 \in 1 .. Len(w) /\ i + 1 # 1 /\ (i + 1) - 1 = i
        BY <1>1
    <2>2. Follows(w[i], w[i + 1])
        BY <2>1 DEF Framed
    <2>3. CASE i = 1
        BY <1>1, <2>2, <2>3 DEF Follows
    <2>4. CASE i # 1
        <3>1. i - 1 \in 1 .. Len(Tail(w)) /\ (i - 1) + 1 = i
            BY <1>1, <2>4
        <3>2. Tail(w)[i - 1] = w[i] /\ Tail(w)[i] = w[i + 1]
            BY <1>1, <3>1
        <3> QED
            BY <2>2, <2>4, <3>2
    <2> QED
        BY <2>3, <2>4
<1>4. Framed(r, Tail(w))
    BY <1>3 DEF Framed
<1>5. LastOf(p, w) = w[Len(w)]
    BY DEF LastOf
<1>6. CASE Tail(w) = <<>>
    <2>1. Len(w) = 1
        BY <1>0, <1>6
    <2> QED
        BY <1>1, <1>2, <1>4, <1>5, <1>6, <2>1 DEF LastOf
<1>7. CASE Tail(w) # <<>>
    <2>1. Len(Tail(w)) \in 1 .. Len(Tail(w)) /\ Len(Tail(w)) + 1 = Len(w)
        BY <1>1, <1>7
    <2>2. LastOf(r, Tail(w)) = w[Len(w)]
        BY <1>1, <1>7, <2>1 DEF LastOf
    <2> QED
        BY <1>2, <1>4, <1>5, <2>2
<1> QED
    BY <1>6, <1>7

-----------------------------------------------------------------------------
PayloadStep == {"payload", "payloadWait"}

LEMMA Sides ==
    /\ \A s \in Side : ReceiverOf(s) \in Thread /\ SideOf(ReceiverOf(s)) = s
    /\ \A t \in Thread : /\ SideOf(t) \in Side /\ Peer(SideOf(t)) \in Side
                         /\ \A s \in Side : s # SideOf(t) => s = Peer(SideOf(t))
                         /\ Peer(SideOf(t)) # SideOf(t)
    /\ \A t \in Receivers : t = ReceiverOf(SideOf(t))
BY DEF Side, Thread, SideOf, ReceiverOf, Receivers, Peer

LEMMA OwesComplete == ~Owes(Complete)
BY DEF Owes, Complete

LEMMA InitFrames == Init => Frames
<1> SUFFICES ASSUME Init, NEW s \in Side
             PROVE  /\ pc[ReceiverOf(s)] \notin PayloadStep
                    /\ Framed(Prev(s), wire[s])
                    /\ ~Linked
    BY DEF Frames, PayloadStep
<1>1. pc[ReceiverOf(s)] = "loop"
    BY DEF Init, Side, Thread, ReceiverOf, Receivers
<1>2. wire[s] = <<>> /\ ~Linked
    BY DEF Init, Linked, Side
<1> QED
    BY <1>1, <1>2, FramedEmpty DEF PayloadStep

\* A step of one thread that neither writes nor reads, and no sender's between the two
\* parts of a message.
LEMMA FramesKept ==
    ASSUME TypeOK, Frames, UNCHANGED <<pipe_, wire, torn>>,
           NEW t \in Thread, NEW step, pc' = [pc EXCEPT ![t] = step],
           "sendPayload" \notin {pc[t], step},
           pc[t] \in PayloadStep <=> step \in PayloadStep,
           \A u \in Thread : u # t \/ pc[t] \in PayloadStep => hand'[u] = hand[u],
           \A s \in Side : Listening(s)' => Listening(s) \/ wire[s] = <<>>
    PROVE  Frames'
<1> SUFFICES ASSUME ~torn PROVE Frames'
    BY DEF Frames
<1>0. pc \in [Thread -> ReceiverStep \cup SenderStep]
    BY DEF TypeOK
<1>1. /\ \A u \in Thread : pc'[u] = "sendPayload" <=> pc[u] = "sendPayload"
      /\ \A u \in Thread : pc[u] = "sendPayload" => hand'[u] = hand[u]
      /\ \A u \in Thread : pc'[u] \in PayloadStep <=> pc[u] \in PayloadStep
      /\ \A u \in Thread : pc[u] \in PayloadStep => hand'[u] = hand[u]
    BY <1>0
<1>2. ASSUME NEW s \in Side PROVE Prev(s)' = Prev(s)
    BY <1>1, Sides DEF Prev, PayloadStep
<1>3. Linked' <=> Linked
    BY DEF Linked
<1>4. ASSUME NEW s \in Side
      PROVE  /\ (pc[ReceiverOf(s)] \in PayloadStep => hand[ReceiverOf(s)].payload)'
             /\ (Listening(s) => Framed(Prev(s), wire[s]))'
    BY <1>1, <1>2, Sides, FramedEmpty DEF Frames, PayloadStep
<1>5. ASSUME NEW s \in Side, Linked'
      PROVE  /\ \A u \in Thread :
                    SideOf(u) # s /\ pc'[u] = "sendPayload"
                        => /\ LastOf(Prev(s), wire[s])' = [part |-> "header", of |-> hand'[u]]
                           /\ hand'[u].payload
             /\ (\A u \in Thread : SideOf(u) # s => pc'[u] # "sendPayload")
                    => ~Owes(LastOf(Prev(s), wire[s])')
    BY <1>1, <1>2, <1>3, <1>5 DEF Frames
<1> QED
    BY <1>4, <1>5 DEF Frames, PayloadStep

\* A step after which the ends are not linked.
LEMMA FramesUnlinked ==
    ASSUME ~Linked', torn => torn',
           ~torn => \A s \in Side :
                /\ (pc[ReceiverOf(s)] \in PayloadStep => hand[ReceiverOf(s)].payload)'
                /\ Listening(s)' => Framed(Prev(s)', wire'[s])
    PROVE  Frames'
BY DEF Frames, PayloadStep

\* A thread writes a part of a message.
LEMMA FramesWrite ==
    ASSUME Control, Frames, NEW t \in Thread, SendHeader(t) \/ SendPayload(t), UNCHANGED pipe_,
           NEW part \in {"header", "payload"}, Put(t, part), Linked,
           part = "header" <=> pc[t] = "sendHeader",
           NEW step, pc' = [pc EXCEPT ![t] = step],
           step \notin PayloadStep,
           step = "sendPayload" <=> part = "header" /\ hand[t].payload,
           hand' = hand \/ (step # "sendPayload" /\ hand' = [hand EXCEPT ![t] = Nothing])
    PROVE  Frames'
<1> SUFFICES ASSUME ~torn PROVE Frames'
    BY DEF Frames, SendHeader, SendPayload
<1> DEFINE me == SideOf(t)
           peer == Peer(SideOf(t))
           q == [part |-> part, of |-> hand[t]]
<1>0. /\ pc \in [Thread -> ReceiverStep \cup SenderStep] /\ hand \in [Thread -> Message]
      /\ wire \in [Side -> Seq(Part)]
    BY DEF Control, TypeOK
<1>s. me \in Side /\ peer \in Side /\ me # peer /\ \A s \in Side : s = me \/ s = peer
    BY Sides
<1>q. q \in Part
    BY <1>0, Messages
<1>1. wire' = [wire EXCEPT ![peer] = Append(wire[peer], q)]
    BY <1>0, <1>s DEF Put
<1>2. pc[t] \in {"sendHeader", "sendPayload"}
    BY DEF SendHeader, SendPayload, At
<1>3. \A u \in Thread : SideOf(u) = me /\ pc[u] = "sendPayload" => u = t
    BY <1>2 DEF Control, LocksHeld, LockedStep
<1>4. Linked' /\ torn' = torn
    BY DEF Linked, SendHeader, SendPayload
<1>5. \A u \in Thread : /\ u # t => pc'[u] = pc[u] /\ hand'[u] = hand[u]
                        /\ pc'[t] = step
    BY <1>0
<1>6. ASSUME NEW s \in Side PROVE Prev(s)' = Prev(s)
    BY <1>2, <1>5, Sides DEF Prev, PayloadStep
<1>7. \A s \in Side : pc'[ReceiverOf(s)] \in PayloadStep => hand'[ReceiverOf(s)].payload
    BY <1>2, <1>5, Sides DEF Frames, PayloadStep
<1>9. pipe_["service"] # 0 /\ pipe_["ui"] # 0
    BY DEF Linked
<1>10. \A s \in Side : Listening(s)
    BY <1>9 DEF Listening, Side
<1>11. Framed(Prev(peer), wire[peer])
    BY <1>s, <1>10 DEF Frames
<1>12. Follows(LastOf(Prev(peer), wire[peer]), q)
    <2>1. CASE pc[t] = "sendHeader"
        <3>1. \A u \in Thread : SideOf(u) # peer => pc[u] # "sendPayload"
            BY <1>s, <1>3, <2>1, Sides
        <3>2. ~Owes(LastOf(Prev(peer), wire[peer]))
            BY <1>s, <3>1 DEF Frames
        <3> QED
            BY <2>1, <3>2 DEF Follows
    <2>2. CASE pc[t] = "sendPayload"
        <3>1. /\ LastOf(Prev(peer), wire[peer]) = [part |-> "header", of |-> hand[t]]
              /\ hand[t].payload
            BY <1>s, <2>2 DEF Frames
        <3>2. part = "payload"
            BY <2>2
        <3> QED
            BY <3>1, <3>2 DEF Follows, Owes
    <2> QED
        BY <1>2, <2>1, <2>2
<1>13. /\ Framed(Prev(peer), Append(wire[peer], q))
       /\ LastOf(Prev(peer), Append(wire[peer], q)) = q
    BY <1>0, <1>s, <1>q, <1>11, <1>12, FramedAppend
<1>14. wire'[peer] = Append(wire[peer], q) /\ wire'[me] = wire[me]
    BY <1>0, <1>s, <1>1
<1>15. /\ Framed(Prev(peer), wire[peer])'
       /\ LastOf(Prev(peer), wire[peer])' = q
    BY <1>s, <1>6, <1>13, <1>14
<1>16. \A u \in Thread : SideOf(u) # peer /\ pc'[u] = "sendPayload"
                            => u = t /\ step = "sendPayload"
    BY <1>s, <1>3, <1>5, Sides
<1>17. ASSUME step = "sendPayload"
       PROVE  q = [part |-> "header", of |-> hand'[t]] /\ hand'[t].payload
    BY <1>17
<1>18. ASSUME step # "sendPayload" PROVE ~Owes(q)
    BY <1>18 DEF Owes
<1>19. /\ Framed(Prev(me), wire[me])'
       /\ LastOf(Prev(me), wire[me])' = LastOf(Prev(me), wire[me])
    BY <1>s, <1>6, <1>10, <1>14 DEF Frames
<1>20. \A u \in Thread : SideOf(u) # me =>
            (pc'[u] = "sendPayload" <=> pc[u] = "sendPayload") /\ hand'[u] = hand[u]
    BY <1>5
<1>21. ASSUME NEW s \in Side PROVE (Listening(s) => Framed(Prev(s), wire[s]))'
    BY <1>s, <1>15, <1>19
<1>22. /\ \A u \in Thread :
             SideOf(u) # peer /\ pc'[u] = "sendPayload"
                 => /\ LastOf(Prev(peer), wire[peer])' = [part |-> "header", of |-> hand'[u]]
                    /\ hand'[u].payload
       /\ (\A u \in Thread : SideOf(u) # peer => pc'[u] # "sendPayload")
             => ~Owes(LastOf(Prev(peer), wire[peer])')
    <2>1. SideOf(t) # peer
        BY <1>s
    <2> QED
        BY <1>5, <1>15, <1>16, <1>17, <1>18, <2>1
<1>23. /\ \A u \in Thread :
             SideOf(u) # me /\ pc'[u] = "sendPayload"
                 => /\ LastOf(Prev(me), wire[me])' = [part |-> "header", of |-> hand'[u]]
                    /\ hand'[u].payload
       /\ (\A u \in Thread : SideOf(u) # me => pc'[u] # "sendPayload")
             => ~Owes(LastOf(Prev(me), wire[me])')
    BY <1>s, <1>19, <1>20 DEF Frames
<1> HIDE DEF q
<1> QED
    BY <1>s, <1>7, <1>21, <1>22, <1>23 DEF Frames, PayloadStep

\* A receiver reads the first part that is there.
LEMMA FramesRead ==
    ASSUME Control, Frames, NEW t \in Receivers, ReadReturns(t), wire[SideOf(t)] # <<>>
    PROVE  Frames'
<1> SUFFICES ASSUME ~torn PROVE Frames'
    BY DEF Frames, ReadReturns
<1> DEFINE me == SideOf(t)
           w == wire[me]
           step == IF At(t, "headerWait") /\ Head(w).of.payload THEN "payload" ELSE "dispatch"
<1>0. /\ pc \in [Thread -> ReceiverStep \cup SenderStep] /\ hand \in [Thread -> Message]
      /\ wire \in [Side -> Seq(Part)]
    BY DEF Control, TypeOK
<1>1. t \in Thread /\ me \in Side /\ t = ReceiverOf(me)
    BY Sides DEF Receivers, Thread
<1>2. /\ pc[t] \in {"headerWait", "payloadWait"}
      /\ wire' = [wire EXCEPT ![me] = Tail(w)]
      /\ hand' = [hand EXCEPT ![t] = Head(w).of]
      /\ pc' = [pc EXCEPT ![t] = step]
      /\ UNCHANGED <<pipe_, torn>>
    BY DEF ReadReturns, Holds, Goto
<1>3. w \in Seq(Part) /\ w # <<>> /\ Head(w) \in Part
    BY <1>0, <1>1
<1>4. Listening(me) /\ Framed(Prev(me), w)
    BY <1>1, <1>2 DEF Listening, Frames
<1>5. Follows(Prev(me), Head(w))
    BY <1>3, <1>4, FramedTail
<1>6. pc'[t] = step /\ hand'[t] = Head(w).of /\ wire'[me] = Tail(w)
    BY <1>0, <1>1, <1>2
<1>7. /\ Prev(me)' = Head(w) \/ (~Owes(Prev(me)') /\ ~Owes(Head(w)))
      /\ pc'[t] \in PayloadStep => hand'[t].payload
    <2>1. CASE pc[t] = "headerWait"
        <3>1. Head(w).part = "header"
            BY <1>1, <1>5, <2>1, OwesComplete DEF Prev, Follows
        <3>2. Head(w) = [part |-> "header", of |-> Head(w).of]
            BY <1>3, <3>1 DEF Part
        <3>3. CASE Head(w).of.payload
            BY <1>1, <1>6, <2>1, <3>2, <3>3 DEF Prev, At
        <3>4. CASE ~Head(w).of.payload
            BY <1>1, <1>6, <2>1, <3>4, OwesComplete DEF Prev, At, Owes, PayloadStep
        <3> QED
            BY <3>3, <3>4
    <2>2. CASE pc[t] = "payloadWait"
        <3>1. Owes(Prev(me))
            BY <1>1, <2>2 DEF Frames, Prev, Owes
        <3>2. Head(w).part = "payload"
            BY <1>5, <3>1 DEF Follows
        <3>3. ~Owes(Head(w))
            BY <3>2 DEF Owes
        <3>4. pc'[t] = "dispatch"
            BY <1>6, <2>2 DEF At
        <3> QED
            BY <1>1, <3>3, <3>4, OwesComplete DEF Prev, PayloadStep
    <2> QED
        BY <1>2, <2>1, <2>2
<1>8. /\ Framed(Prev(me)', Tail(w))
      /\ \/ LastOf(Prev(me)', Tail(w)) = LastOf(Prev(me), w)
         \/ ~Owes(LastOf(Prev(me)', Tail(w))) /\ ~Owes(LastOf(Prev(me), w))
    BY <1>3, <1>4, <1>7, FramedTail
<1>9. \A u \in Thread : /\ u # t => pc'[u] = pc[u] /\ hand'[u] = hand[u]
                        /\ pc[t] # "sendPayload" /\ pc'[t] # "sendPayload"
    BY <1>0, <1>1, <1>2
<1>10. ASSUME NEW s \in Side, s # me
       PROVE  /\ Prev(s)' = Prev(s) /\ wire'[s] = wire[s] /\ ReceiverOf(s) # t
              /\ Listening(s)' <=> Listening(s)
    BY <1>0, <1>1, <1>2, <1>9, <1>10, Sides DEF Prev, Listening
<1>11. \A s \in Side : pc'[ReceiverOf(s)] \in PayloadStep => hand'[ReceiverOf(s)].payload
    BY <1>1, <1>7, <1>9, <1>10, Sides DEF Frames, PayloadStep
<1>12. ASSUME NEW s \in Side PROVE (Listening(s) => Framed(Prev(s), wire[s]))'
    BY <1>6, <1>8, <1>10 DEF Frames
<1>13. ASSUME NEW s \in Side, Linked'
       PROVE  /\ \A u \in Thread :
                     SideOf(u) # s /\ pc'[u] = "sendPayload"
                         => /\ LastOf(Prev(s), wire[s])' = [part |-> "header", of |-> hand'[u]]
                            /\ hand'[u].payload
              /\ (\A u \in Thread : SideOf(u) # s => pc'[u] # "sendPayload")
                     => ~Owes(LastOf(Prev(s), wire[s])')
    <2>1. Linked
        BY <1>2, <1>13 DEF Linked
    <2>2. /\ \A u \in Thread :
                SideOf(u) # s /\ pc[u] = "sendPayload"
                    => /\ LastOf(Prev(s), wire[s]) = [part |-> "header", of |-> hand[u]]
                       /\ hand[u].payload
          /\ (\A u \in Thread : SideOf(u) # s => pc[u] # "sendPayload")
                => ~Owes(LastOf(Prev(s), wire[s]))
        BY <2>1 DEF Frames
    <2>3. \A u \in Thread : /\ pc'[u] = "sendPayload" <=> pc[u] = "sendPayload"
                            /\ pc[u] = "sendPayload" => hand'[u] = hand[u]
        BY <1>9
    <2>4. CASE s # me
        BY <1>10, <2>2, <2>3, <2>4
    <2>5. CASE s = me
        <3>1. LastOf(Prev(s), wire[s])' = LastOf(Prev(me)', Tail(w))
            BY <1>6, <2>5
        <3>2. ASSUME NEW u \in Thread, SideOf(u) # s, pc[u] = "sendPayload"
              PROVE  LastOf(Prev(s), wire[s])' = LastOf(Prev(me), w)
            <4>1. Owes(LastOf(Prev(me), w))
                <5>1. /\ LastOf(Prev(me), w) = [part |-> "header", of |-> hand[u]]
                      /\ hand[u].payload
                    BY <2>2, <2>5, <3>2
                <5> QED
                    BY <5>1 DEF Owes
            <4> QED
                BY <1>8, <3>1, <4>1
        <3>3. ASSUME ~Owes(LastOf(Prev(me), w)) PROVE ~Owes(LastOf(Prev(s), wire[s])')
            BY <1>8, <3>1, <3>3
        <3> QED
            BY <2>2, <2>3, <2>5, <3>2, <3>3
    <2> QED
        BY <2>4, <2>5
<1> QED
    BY <1>11, <1>12, <1>13 DEF Frames, PayloadStep

\* Every step keeps what is on the wire in order.
LEMMA FramesStep == ASSUME Control, Control', Frames, Next PROVE Frames'
<1> USE AfterSendSteps
<1>0. TypeOK /\ LocksHeld /\ EndsOpen /\ WireEmpty
    BY DEF Control
<1>p. /\ pc \in [Thread -> ReceiverStep \cup SenderStep]
      /\ pipe_ \in [Side -> 0 .. MaxInstances]
    BY <1>0 DEF TypeOK
<1>o. /\ "worker" \in Thread /\ "reader" \in Thread /\ {"feeder", "user"} \subseteq Thread
      /\ ReceiverOf("service") = "worker" /\ ReceiverOf("ui") = "reader"
      /\ {"service", "ui"} = Side
    BY DEF Thread, ReceiverOf, Side
<1>e. \A s \in Side : pipe_["service"] = 0 => wire[s] = <<>>
    BY <1>0 DEF WireEmpty
\* What a receiver will read it is listening for already.
<1>1. ASSUME NEW t \in Thread, NEW step, pc' = [pc EXCEPT ![t] = step],
             t = "reader" /\ step \in {"lock", "sendHeader", "header", "headerWait", "payload",
                                       "payloadWait"}
                => pipe_["ui"] # 0 \/ pc[t] \in {"lock", "sendHeader", "sendPayload", "header",
                                                "headerWait", "payload", "payloadWait"},
             step # "sendPayload",
             UNCHANGED <<pipe_, wire, torn>>
      PROVE  \A s \in Side : Listening(s)' => Listening(s) \/ wire[s] = <<>>
    BY <1>1, <1>p, <1>o, <1>e DEF Listening
<1>2. ASSUME NEW t \in Thread, SendNext(t) PROVE Frames'
    <2>1. CASE Lock(t)
        BY <1>0, <1>1, <2>1, FramesKept DEF Lock, At, Goto, PayloadStep, pipeVars
    <2>2. AfterSend(t) \in {"reply", "header", "idle"}
        OBVIOUS
    <2>3. CASE SendHeader(t) /\ UNCHANGED wire
        <3>1. ~Put(t, "header")
            <4>1. wire \in [Side -> Seq(Part)] /\ Peer(SideOf(t)) \in Side
                BY <1>0, Sides DEF TypeOK
            <4>2. wire[Peer(SideOf(t))] \in Seq(Part)
                BY <4>1
            <4>3. [part |-> "header", of |-> hand[t]] \in Part
                BY <1>0, Messages DEF TypeOK
            <4>4. Append(wire[Peer(SideOf(t))], [part |-> "header", of |-> hand[t]])
                    # wire[Peer(SideOf(t))]
                BY <4>2, <4>3
            <4> QED
                BY <2>3, <4>1, <4>4 DEF Put
        <3>2. /\ pc' = [pc EXCEPT ![t] = AfterSend(t)] /\ pc[t] = "sendHeader"
              /\ hand' = [hand EXCEPT ![t] = Nothing]
              /\ UNCHANGED <<pipe_, wire, torn>>
            BY <2>3, <3>1 DEF SendHeader, At, Goto, Holds
        <3>3. \A u \in Thread : u # t => hand'[u] = hand[u]
            BY <1>0, <3>2 DEF TypeOK
        <3>4. \A s \in Side : Listening(s)' => Listening(s) \/ wire[s] = <<>>
            BY <1>1, <2>2, <3>2
        <3> QED
            BY <1>0, <2>2, <3>2, <3>3, <3>4, FramesKept DEF PayloadStep
    <2>7. pipe_[SideOf(t)] = 0 => ~Linked
        <3>1. SideOf(t) \in {"service", "ui"}
            BY Sides, <1>o
        <3> QED
            BY <3>1 DEF Linked
    <2>4. CASE SendHeader(t) /\ Put(t, "header") /\ Linked
        <3>1. CASE hand[t].payload
            <4>1. /\ pc' = [pc EXCEPT ![t] = "sendPayload"] /\ pc[t] = "sendHeader"
                  /\ hand' = hand /\ UNCHANGED pipe_
                BY <2>4, <2>7, <3>1 DEF SendHeader, At, Goto
            <4>2. /\ "header" \in {"header", "payload"} /\ "sendPayload" \notin PayloadStep
                  /\ "header" = "header" <=> pc[t] = "sendHeader"
                  /\ "sendPayload" = "sendPayload" <=> "header" = "header" /\ hand[t].payload
                BY <3>1, <4>1 DEF PayloadStep
            <4> QED
                BY <2>4, <4>1, <4>2, FramesWrite
        <3>2. CASE ~hand[t].payload
            BY <2>2, <2>4, <3>2, FramesWrite DEF SendHeader, At, Goto, Holds, PayloadStep
        <3> QED
            BY <3>1, <3>2
    <2>5. CASE SendPayload(t) /\ Put(t, "payload") /\ Linked
        BY <2>2, <2>5, FramesWrite DEF SendPayload, At, Goto, Holds, PayloadStep
    <2>6. CASE SendPayload(t) /\ UNCHANGED wire /\ ~Linked
        <3>1. /\ pc' = [pc EXCEPT ![t] = AfterSend(t)] /\ pc[t] = "sendPayload"
              /\ hand' = [hand EXCEPT ![t] = Nothing]
              /\ UNCHANGED <<pipe_, torn>>
            BY <2>6 DEF SendPayload, At, Goto, Holds
        <3>2. \A u \in Thread : (u # t => hand'[u] = hand[u] /\ pc'[u] = pc[u])
                                /\ pc'[t] = AfterSend(t)
            BY <1>0, <1>p, <3>1 DEF TypeOK
        <3>3. ASSUME NEW s \in Side
              PROVE  Prev(s)' = Prev(s) /\ (Listening(s)' => Listening(s) \/ wire[s] = <<>>)
            BY <1>1, <2>2, <2>6, <3>1, <3>2, <3>3, Sides DEF Prev
        <3>4. ASSUME ~torn, NEW s \in Side
              PROVE  /\ (pc[ReceiverOf(s)] \in PayloadStep => hand[ReceiverOf(s)].payload)'
                     /\ Listening(s)' => Framed(Prev(s)', wire'[s])
            BY <2>2, <2>6, <3>1, <3>2, <3>3, <3>4, Sides, FramedEmpty DEF Frames,
                PayloadStep
        <3>5. ~Linked'
            BY <2>6, <3>1 DEF Linked
        <3> QED
            BY <3>1, <3>4, <3>5, FramesUnlinked
    <2> QED
        BY <1>2, <2>1, <2>3, <2>4, <2>5, <2>6, <2>7 DEF SendNext, SendHeader, SendPayload
<1>3. ASSUME NEW t \in Receivers, ReceiveNext(t) PROVE Frames'
    <2>1. t \in Thread /\ t = ReceiverOf(SideOf(t)) /\ SideOf(t) \in Side
        BY Sides DEF Receivers, Thread
    <2>2. CASE ReadBegins(t) /\ pipe_[SideOf(t)] # 0
        <3>1. PICK step \in {"headerWait", "payloadWait"} :
                 /\ pc' = [pc EXCEPT ![t] = step]
                 /\ pc[t] = IF step = "headerWait" THEN "header" ELSE "payload"
            BY <2>2 DEF ReadBegins, At, Goto
        <3>2. hand' = hand /\ UNCHANGED <<pipe_, wire, torn>>
            BY <2>2 DEF ReadBegins
        <3>3. \A s \in Side : Listening(s)' => Listening(s) \/ wire[s] = <<>>
            BY <1>1, <2>1, <3>1, <3>2
        <3> QED
            BY <1>0, <2>1, <3>1, <3>2, <3>3, FramesKept DEF PayloadStep
    <2>3. CASE \/ ReadBegins(t) /\ pipe_[SideOf(t)] = 0
               \/ ReadReturns(t) /\ wire[SideOf(t)] = <<>>
        <3>1. /\ pc' = [pc EXCEPT ![t] = "closeLock"] /\ hand' = [hand EXCEPT ![t] = Nothing]
              /\ UNCHANGED <<pipe_, wire, torn>>
              /\ ~Linked /\ (pipe_[SideOf(t)] = 0 \/ wire[SideOf(t)] = <<>>)
            <4>1. pipe_[SideOf(t)] = 0 => ~Linked
                BY <2>1, <1>o DEF Linked
            <4> QED
                BY <2>3, <4>1 DEF ReadBegins, ReadReturns, At, Goto, Holds
        <3>2. /\ \A u \in Thread : u # t => hand'[u] = hand[u] /\ pc'[u] = pc[u]
              /\ pc'[t] = "closeLock"
            BY <1>0, <1>p, <2>1, <3>1 DEF TypeOK
        <3>3. ASSUME NEW s \in Side, ~torn
              PROVE  /\ (pc[ReceiverOf(s)] \in PayloadStep => hand[ReceiverOf(s)].payload)'
                     /\ Listening(s)' => Framed(Prev(s)', wire'[s])
            <4>1. CASE s = SideOf(t)
                BY <2>1, <3>1, <3>2, <4>1, FramedEmpty DEF Listening, PayloadStep
            <4>2. CASE s # SideOf(t)
                <5>1. ReceiverOf(s) # t
                    BY <4>2, Sides
                <5>2. Prev(s)' = Prev(s) /\ (Listening(s)' <=> Listening(s))
                    BY <3>1, <3>2, <5>1, Sides DEF Prev, Listening
                <5> QED
                    BY <3>1, <3>2, <3>3, <5>1, <5>2, Sides DEF Frames, PayloadStep
            <4> QED
                BY <4>1, <4>2
        <3>4. ~Linked'
            BY <3>1 DEF Linked
        <3> QED
            BY <3>1, <3>3, <3>4, FramesUnlinked
    <2>4. CASE ReadReturns(t) /\ wire[SideOf(t)] # <<>>
        BY <2>4, FramesRead
    <2> QED
        BY <1>3, <2>2, <2>3, <2>4 DEF ReceiveNext
\* A step that closes an end, or opens the service's, and clears what is under way to who
\* can read on.
<1>4. ASSUME ~Linked', torn => torn',
             \A s \in Side : LET r == ReceiverOf(s)
                            IN  /\ \/ pc'[r] = pc[r] /\ hand'[r] = hand[r]
                                   \/ pc'[r] \notin PayloadStep
                                /\ \/ wire'[s] = <<>>
                                   \/ ~Listening(s)'
                                   \/ /\ wire'[s] = wire[s] /\ Listening(s)
                                      /\ pc'[r] = pc[r] /\ hand'[r] = hand[r]
      PROVE  Frames'
    <2>1. ASSUME ~torn, NEW s \in Side
          PROVE  /\ (pc[ReceiverOf(s)] \in PayloadStep => hand[ReceiverOf(s)].payload)'
                 /\ Listening(s)' => Framed(Prev(s)', wire'[s])
        <3>1. (pc[ReceiverOf(s)] \in PayloadStep => hand[ReceiverOf(s)].payload)'
            BY <1>4, <2>1 DEF Frames, PayloadStep
        <3>2. CASE wire'[s] = <<>>
            BY <3>1, <3>2, FramedEmpty
        <3>3. CASE /\ wire'[s] = wire[s] /\ Listening(s)
                   /\ pc'[ReceiverOf(s)] = pc[ReceiverOf(s)]
                   /\ hand'[ReceiverOf(s)] = hand[ReceiverOf(s)]
            <4>1. Prev(s)' = Prev(s)
                BY <3>3 DEF Prev
            <4> QED
                BY <2>1, <3>1, <3>3, <4>1 DEF Frames
        <3> QED
            BY <1>4, <3>1, <3>2, <3>3
    <2> QED
        BY <1>4, <2>1, FramesUnlinked
<1>5. ASSUME NEW t \in Thread, CloseNext(t) PROVE Frames'
    <2>1. AfterClose(t) \in {"loop", "join"}
        BY DEF AfterClose
    <2>2. CASE CloseLock(t)
        BY <1>0, <1>1, <2>2, FramesKept DEF CloseLock, At, Goto, PayloadStep, pipeVars
    <2>3. CASE Close(t) /\ UNCHANGED pipe_
        <3>1. PICK step \in {"loop", "join", "flushWait"} :
                 pc' = [pc EXCEPT ![t] = step] /\ pc[t] = "close"
            BY <1>p, <2>1, <2>3 DEF Close, At, Goto
        <3>2. UNCHANGED <<pipe_, wire, torn, hand>>
            BY <2>3 DEF Close
        <3> QED
            BY <1>0, <1>1, <3>1, <3>2, FramesKept DEF PayloadStep
    <2>4. CASE Close(t) /\ Invalidate("ui") /\ Goto(t, AfterClose(t))
        <3>1. /\ pc[t] = "close" /\ pc' = [pc EXCEPT ![t] = AfterClose(t)]
              /\ pipe_' = [pipe_ EXCEPT !["ui"] = 0]
              /\ UNCHANGED <<wire, torn, hand>>
            BY <2>4 DEF Close, At, Goto, Invalidate
        <3>2. /\ pc'[t] = AfterClose(t) /\ \A u \in Thread : u # t => pc'[u] = pc[u]
              /\ pipe_'["ui"] = 0 /\ pipe_'["service"] = pipe_["service"]
            BY <1>p, <1>o, <3>1
        <3>3. ~Linked'
            BY <3>2 DEF Linked
        <3>4. ASSUME NEW s \in Side
              PROVE  /\ \/ pc'[ReceiverOf(s)] = pc[ReceiverOf(s)]
                        \/ pc'[ReceiverOf(s)] \notin PayloadStep
                     /\ \/ wire'[s] = <<>>
                        \/ ~Listening(s)'
                        \/ Listening(s) /\ pc'[ReceiverOf(s)] = pc[ReceiverOf(s)]
            <4>1. ReceiverOf(s) \in Thread /\ s \in {"ui", "service"}
                BY Sides, <1>o
            <4>2. CASE ReceiverOf(s) = t /\ s = "ui"
                BY <2>1, <3>2, <4>2 DEF Listening, PayloadStep
            <4>3. CASE ReceiverOf(s) = t /\ s = "service"
                <5>1. t = "worker" /\ pc'["worker"] = "loop"
                    BY <1>o, <3>2, <4>3 DEF AfterClose, Receivers
                <5>2. pipe_'["service"] = 0
                    BY <5>1 DEF Control, EndsOpen
                <5> QED
                    BY <3>2, <4>3, <5>1, <5>2 DEF Listening, PayloadStep
            <4>4. CASE ReceiverOf(s) # t
                BY <3>2, <4>1, <4>4 DEF Listening
            <4> QED
                BY <4>2, <4>3, <4>4, <4>1
        <3> QED
            BY <1>4, <3>1, <3>3, <3>4
    <2>5. CASE FlushReturns(t)
        <3>1. /\ \A s \in Side : wire'[s] = <<>>
              /\ pc[t] = "flushWait" /\ pc' = [pc EXCEPT ![t] = AfterClose(t)]
              /\ pipe_' = [pipe_ EXCEPT !["service"] = 0] /\ UNCHANGED <<torn, hand>>
            BY <2>5 DEF FlushReturns, At, Goto, Invalidate
        <3>2. ~Linked'
            BY <1>p, <1>o, <3>1 DEF Linked
        <3>3. \A u \in Thread : pc'[u] = pc[u] \/ pc'[u] \notin PayloadStep
            BY <1>p, <2>1, <3>1 DEF PayloadStep
        <3> QED
            BY <1>4, <3>1, <3>2, <3>3, Sides
    <2> QED
        BY <1>5, <2>2, <2>3, <2>4, <2>5 DEF CloseNext, Close
<1>6. CASE RunLoop \/ ConnectBegins \/ DispatchCommand \/ Reply
    <2>1. PICK step \in {"create", "done", "connectWait", "loop", "reply", "lock", "header",
                        "closeLock"} :
             /\ pc' = [pc EXCEPT !["worker"] = step]
             /\ pc["worker"] \in {"loop", "connect", "dispatch", "reply"}
        BY <1>6, <1>o DEF RunLoop, ConnectBegins, DispatchCommand, Reply, SendBegins, At,
            Goto
    <2>2. UNCHANGED <<pipe_, wire, torn>>
        BY <1>6 DEF RunLoop, ConnectBegins, DispatchCommand, Reply, pipeVars
    <2>3. \A u \in Thread : u # "worker" => hand'[u] = hand[u]
        BY <1>0, <1>6 DEF TypeOK, RunLoop, ConnectBegins, DispatchCommand, Reply,
            SendBegins, Holds
    <2>4. \A s \in Side : Listening(s)' => Listening(s) \/ wire[s] = <<>>
        BY <1>1, <1>o, <2>1, <2>2
    <2> QED
        BY <1>0, <1>o, <2>1, <2>2, <2>3, <2>4, FramesKept DEF PayloadStep
<1>7. CASE CreatePipe
    <2>1. pipe_["service"] = 0 /\ \A s \in Side : wire'[s] = <<>>
        <3>1. pipe_["service"] = 0
            BY <1>0, <1>7 DEF CreatePipe, EndsOpen, At
        <3> QED
            BY <1>e, <1>7, <3>1 DEF CreatePipe
    <2>2. /\ pc' = [pc EXCEPT !["worker"] = "connect"]
          /\ pipe_' = [pipe_ EXCEPT !["service"] = instances + 1]
          /\ UNCHANGED <<torn, hand>>
        BY <1>7 DEF CreatePipe, Goto
    <2>3. ~Linked'
        <3>1. pipe_["ui"] <= instances /\ pipe_["ui"] \in Nat /\ instances \in Nat
            BY <1>0, <1>p, <1>o DEF EndsOpen, TypeOK
        <3>2. pipe_'["service"] = instances + 1 /\ pipe_'["ui"] = pipe_["ui"]
            BY <1>p, <1>o, <2>2
        <3> QED
            BY <3>1, <3>2 DEF Linked
    <2>4. \A u \in Thread : pc'[u] = pc[u] \/ pc'[u] \notin PayloadStep
        BY <1>p, <2>2 DEF PayloadStep
    <2> QED
        BY <1>4, <2>1, <2>2, <2>3, <2>4, Sides
<1>8. CASE ConnectReturns
    <2>1. CASE UNCHANGED <<pipe_, wire, torn>> /\ pc'["worker"] # "loop"
        <3>1. PICK step \in {"header", "closeLock"} :
                 pc' = [pc EXCEPT !["worker"] = step] /\ pc["worker"] = "connectWait"
            BY <1>8, <2>1, <1>p, <1>o DEF ConnectReturns, At, Goto
        <3>2. UNCHANGED hand
            BY <1>8 DEF ConnectReturns
        <3> QED
            BY <1>0, <1>1, <1>o, <2>1, <3>1, <3>2, FramesKept DEF PayloadStep
    <2>2. CASE /\ Goto("worker", "loop") /\ Invalidate("service")
               /\ wire' = [s \in Side |-> <<>>]
               /\ torn' = (torn \/ At("feeder", "sendPayload"))
        <3>1. /\ \A s \in Side : wire'[s] = <<>>
              /\ pc' = [pc EXCEPT !["worker"] = "loop"]
              /\ pipe_' = [pipe_ EXCEPT !["service"] = 0]
              /\ torn => torn'
              /\ UNCHANGED hand
            BY <1>8, <2>2 DEF ConnectReturns, Goto, Invalidate
        <3>2. ~Linked'
            BY <1>p, <1>o, <3>1 DEF Linked
        <3>3. \A u \in Thread : pc'[u] = pc[u] \/ pc'[u] \notin PayloadStep
            BY <1>p, <3>1 DEF PayloadStep
        <3> QED
            BY <1>4, <3>1, <3>2, <3>3, Sides
    <2> QED
        BY <1>8, <1>o, <1>p, <2>1, <2>2 DEF ConnectReturns, Goto
<1>9. CASE RunReadLoop \/ OpenFails \/ DispatchMessage
    <2>1. PICK step \in {"done", "create", "header", "loop"} :
             /\ pc' = [pc EXCEPT !["reader"] = step]
             /\ pc["reader"] \in {"loop", "create", "dispatch"}
             /\ step = "header" => pipe_["ui"] # 0
        BY <1>9 DEF RunReadLoop, OpenFails, DispatchMessage, At, Goto
    <2>2. UNCHANGED <<pipe_, wire, torn>>
        BY <1>9 DEF RunReadLoop, OpenFails, DispatchMessage, pipeVars
    <2>3. \A u \in Thread : u # "reader" => hand'[u] = hand[u]
        BY <1>0, <1>9 DEF TypeOK, RunReadLoop, OpenFails, DispatchMessage, Holds
    <2>4. \A s \in Side : Listening(s)' => Listening(s) \/ wire[s] = <<>>
        BY <1>1, <1>o, <2>1, <2>2
    <2> QED
        BY <1>0, <1>o, <2>1, <2>2, <2>3, <2>4, FramesKept DEF PayloadStep
<1>10. CASE OpenPipe
    <2>1. /\ pc' = [pc EXCEPT !["reader"] = "lock"] /\ pc["reader"] = "create"
          /\ ~accepted /\ UNCHANGED <<wire, torn>>
        BY <1>10 DEF OpenPipe, At, Goto
    <2>2. \A s \in Side : wire'[s] = <<>>
        BY <1>0, <2>1 DEF WireEmpty
    <2>3. ASSUME ~torn PROVE \A t \in Thread : pc'[t] # "sendPayload"
        BY <1>0, <1>p, <2>1, <2>3 DEF EndsOpen
    <2>4. \A s \in Side : pc'[ReceiverOf(s)] \notin PayloadStep
        BY <1>0, <1>p, <1>o, <2>1 DEF EndsOpen, PayloadStep
    <2>5. \A s \in Side : Prev(s)' = Complete
        BY <2>4 DEF Prev, PayloadStep
    <2> QED
        BY <2>1, <2>2, <2>3, <2>4, <2>5, FramedEmpty, OwesComplete DEF Frames, PayloadStep
<1>11. CASE SendStatus \/ SendCommand
    <2>1. PICK t \in {"feeder", "user"}, step \in {"lock", "idle"} :
             /\ pc' = [pc EXCEPT ![t] = step] /\ pc[t] = "idle"
             /\ \E m : hand' = [hand EXCEPT ![t] = m]
        BY <1>11 DEF SendStatus, SendCommand, SendBegins, AfterSend, At, Goto, Holds
    <2>2. UNCHANGED <<pipe_, wire, torn>>
        BY <1>11 DEF SendStatus, SendCommand, pipeVars
    <2>3. t \in Thread /\ \A u \in Thread : u # t => hand'[u] = hand[u]
        BY <1>0, <1>o, <2>1 DEF TypeOK
    <2>4. \A s \in Side : Listening(s)' => Listening(s) \/ wire[s] = <<>>
        BY <1>1, <2>1, <2>2, <2>3
    <2> QED
        BY <1>0, <2>1, <2>2, <2>3, <2>4, FramesKept DEF PayloadStep
<1>12. ASSUME NEW t \in Senders, Stop(t) \/ Join(t) PROVE Frames'
    <2>1. PICK step \in {"closeLock", "done"} :
             pc' = [pc EXCEPT ![t] = step] /\ pc[t] \in {"idle", "join"}
        BY <1>12 DEF Stop, Join, At, Goto
    <2>2. UNCHANGED <<pipe_, wire, torn, hand>> /\ t \in Thread
        BY <1>12, <1>o DEF Stop, Join, Senders, pipeVars
    <2>3. \A s \in Side : Listening(s)' => Listening(s) \/ wire[s] = <<>>
        BY <1>1, <2>1, <2>2
    <2> QED
        BY <1>0, <2>1, <2>2, <2>3, FramesKept DEF PayloadStep
<1>13. CASE UiReplaced
    <2>1. /\ pc' = [pc EXCEPT !["reader"] = "loop", !["user"] = "idle"]
          /\ hand' = [hand EXCEPT !["reader"] = Nothing, !["user"] = Nothing]
          /\ wire' = [wire EXCEPT !["ui"] = <<>>]
          /\ pipe_' = [pipe_ EXCEPT !["ui"] = 0]
          /\ UNCHANGED torn
        BY <1>13 DEF UiReplaced, Invalidate
    <2>2. /\ pc'["worker"] = pc["worker"] /\ hand'["worker"] = hand["worker"]
          /\ pc'["reader"] = "loop" /\ wire'["ui"] = <<>>
          /\ wire'["service"] = wire["service"]
          /\ pipe_'["ui"] = 0 /\ pipe_'["service"] = pipe_["service"]
        BY <1>0, <1>p, <1>o, <2>1 DEF TypeOK
    <2>3. ~Linked'
        BY <2>2 DEF Linked
    <2>4. Listening("service")' => Listening("service")
        BY <1>o, <2>2 DEF Listening
    <2> QED
        BY <1>4, <1>o, <2>1, <2>2, <2>3, <2>4 DEF PayloadStep
<1>14. CASE WorkerNext
    BY <1>2, <1>3, <1>5, <1>6, <1>7, <1>8, <1>14 DEF WorkerNext, Thread, Receivers
<1>15. CASE ReaderNext
    BY <1>2, <1>3, <1>5, <1>9, <1>10, <1>15 DEF ReaderNext, Thread, Receivers
<1>16. ASSUME NEW t \in Senders, SenderGoesOn(t) PROVE Frames'
    BY <1>2, <1>5, <1>12, <1>16 DEF SenderGoesOn, Thread, Senders
<1> QED
    BY <1>11, <1>12, <1>13, <1>14, <1>15, <1>16 DEF Next

LEMMA FramesHold == Spec => []Frames
<1>1. Control /\ Control' /\ Frames /\ [Next]_vars => Frames'
    <2> SUFFICES ASSUME Control, Control', Frames, [Next]_vars PROVE Frames'
        OBVIOUS
    <2>1. CASE UNCHANGED vars
        BY <2>1 DEF vars, threadVars, pipeVars, Frames, Linked, Listening, Prev
    <2> QED
        BY <2>1, FramesStep
<1> QED
    BY <1>1, InitFrames, ControlHolds, PTL DEF Spec

-----------------------------------------------------------------------------
\* The variables have their types: no thread of either side leaves the code, and no more
\* instances are made and messages sent than the bounds allow (pipe_server.cpp,
\* PipeClient.cpp).
THEOREM TypeCorrect == Spec => []TypeOK
<1>1. Control => TypeOK
    BY DEF Control
<1> QED
    BY <1>1, ControlHolds, PTL

\* Stop() of the service leaves no pipe open, no lock held and no call pending
\* (pipe_server.cpp:21-32, 122-131), however many messages are sent.
THEOREM StoppedHoldsNothingCorrect == Spec => []StoppedHoldsNothing
<1>1. ASSUME Control, pc["feeder"] = "done"
      PROVE  /\ pipe_["service"] = 0
             /\ write_mutex_["service"] = "nobody" /\ busy["service"] = "nobody"
    <2>1. pc["worker"] = "done" /\ pipe_["service"] = 0
        BY <1>1 DEF Control, EndsOpen
    <2>2. \A t \in Thread : SideOf(t) = "service" => pc[t] = "done"
        BY <1>1, <2>1 DEF Thread, SideOf
    <2>3. /\ write_mutex_["service"] \in Thread \cup {"nobody"}
          /\ busy["service"] \in Thread \cup {"nobody"} /\ "service" \in Side
        BY <1>1 DEF Control, TypeOK, Side
    <2>4. write_mutex_["service"] = "nobody"
        BY <1>1, <2>2, <2>3 DEF Control, LocksHeld, LockedStep
    <2>5. busy["service"] = "nobody"
        BY <1>1, <2>2, <2>3 DEF Control, CallsPending, CallStep
    <2> QED
        BY <2>1, <2>4, <2>5
<1>2. Control => StoppedHoldsNothing
    BY <1>1 DEF StoppedHoldsNothing
<1> QED
    BY <1>2, ControlHolds, PTL

\* Headers and payloads are read as they were sent, with the one exception "torn" names
\* (pipe_server.cpp:86-108, 144-161; PipeClient.cpp:173-192), for any number of messages
\* and of instances of the pipe.
THEOREM FramesWholeCorrect == Spec => []FramesWhole
<1>1. ASSUME Control, Frames, ~torn, NEW s \in Side, wire[s] # <<>>
      PROVE  LET t == ReceiverOf(s)
             IN  /\ pc[t] \in {"header", "headerWait"} => Head(wire[s]).part = "header"
                 /\ pc[t] \in {"payload", "payloadWait"}
                       => Head(wire[s]) = [part |-> "payload", of |-> hand[t]]
    <2> DEFINE t == ReceiverOf(s)
    <2>1. wire[s] \in Seq(Part)
        BY <1>1 DEF Control, TypeOK
    <2>2. ASSUME Listening(s) PROVE Follows(Prev(s), Head(wire[s]))
        <3>1. Framed(Prev(s), wire[s])
            BY <1>1, <2>2 DEF Frames
        <3> QED
            BY <1>1, <2>1, <3>1, FramedTail
    <2>3. CASE pc[t] \in {"header", "headerWait"}
        BY <2>2, <2>3, OwesComplete DEF Listening, Prev, Follows
    <2>4. CASE pc[t] \in {"payload", "payloadWait"}
        <3>1. hand[t].payload
            BY <1>1, <2>4 DEF Frames
        <3>2. Prev(s) = [part |-> "header", of |-> hand[t]] /\ Listening(s)
            BY <2>4 DEF Prev, Listening
        <3> QED
            BY <2>2, <2>4, <3>1, <3>2 DEF Follows, Owes
    <2> QED
        BY <2>3, <2>4
<1>2. Control /\ Frames => FramesWhole
    BY <1>1 DEF FramesWhole
<1> QED
    BY <1>2, ControlHolds, FramesHold, PTL
=============================================================================
