------------------------ MODULE ServiceProcessProofs -------------------------
(***************************************************************************)
(* Proofs about ServiceProcess, for any number of UI and service           *)
(* processes.  That only a living process has the instance of the pipe     *)
(* (TypeOK) needs to be known of every thread that could make or close     *)
(* one; that the text tells what closing the window does needs to be known *)
(* of the flag behind the text (TextKept).                                 *)
(***************************************************************************)
EXTENDS ServiceProcess, TLAPS

\* A worker outlives no process.
WorkersLive == \A s \in Service : main[s] = "none" => worker[s] = "done"

\* A UI asks only if it has launched something, and launches only while its text is about
\* to change.
TextKept ==
    \A u \in Ui :
        /\ ui[u] \in {"request", "wait"} => launched_by_ui_[u]
        /\ service_state_text_[u] = "external" => ui[u] = "poll" \/ ~launched_by_ui_[u]

\* Only the thread of a living UI opens the pipe.
ClientsLive == \A u \in Ui : running_[u] => ui[u] # "none"

IInv == TypeOK /\ WorkersLive /\ TextKept /\ ClientsLive

-----------------------------------------------------------------------------
LEMMA InitIInv == Init => IInv
<1> SUFFICES ASSUME Init PROVE IInv
    OBVIOUS
<1> USE DEF Init
<1>1. NoOne \notin Ui /\ NoOne \notin Service
    BY ServiceAssumption
<1>2. TypeOK
    BY <1>1 DEF TypeOK, Text
<1>3. WorkersLive /\ TextKept /\ ClientsLive
    BY DEF WorkersLive, TextKept, ClientsLive
<1> QED
    BY <1>2, <1>3 DEF IInv

\* The steps of a UI.
LEMMA UiStep ==
    ASSUME IInv, NEW u \in Ui, UiNext(u)
    PROVE  IInv'
<1> USE ServiceAssumption DEF UiAt, UiGoto
<1>1. CASE StartUi(u) \/ OnRefreshClicked(u)
    BY <1>1 DEF IInv, TypeOK, WorkersLive, TextKept, ClientsLive, StartUi,
        OnRefreshClicked, mainVars, pipeVars
<1>2. ASSUME NEW ok \in BOOLEAN, Ensured(u, ok), ui[u] \in {"ensure", "launch", "poll"},
             UNCHANGED <<launched_by_ui_, process_info_, mainVars, worker, pipeVars>>
      PROVE  IInv'
    <2>1. TextShown(u, ok) \in Text
        BY DEF TextShown, StatusText, Text
    <2>2. TextShown(u, ok) = "external" => ~launched_by_ui_[u]
        BY DEF TextShown, StatusText
    <2> HIDE DEF TextShown
    <2>3. TypeOK'
        BY <1>2, <2>1 DEF IInv, TypeOK, Ensured, mainVars, pipeVars
    <2>4. WorkersLive' /\ TextKept' /\ ClientsLive'
        BY <1>2, <2>2 DEF IInv, TypeOK, WorkersLive, TextKept, ClientsLive, Ensured,
            mainVars, pipeVars
    <2> QED
        BY <2>3, <2>4 DEF IInv
<1>3. CASE EnsureRunning(u)
    <2>1. CASE Ensured(u, TRUE)
        BY <1>2, <1>3, <2>1 DEF EnsureRunning
    <2>2. CASE UiGoto(u, "launch")
        BY <1>3, <2>2 DEF IInv, TypeOK, WorkersLive, TextKept, ClientsLive, EnsureRunning,
            Ensured, mainVars, pipeVars
    <2> QED
        BY <1>3, <2>1, <2>2 DEF EnsureRunning
<1>4. CASE LaunchProcess(u)
    <2>1. PICK s \in Service : Born(s, u) /\ process_info_' = [process_info_ EXCEPT ![u] = s]
        BY <1>4 DEF LaunchProcess
    <2>2. TypeOK'
        BY <1>4, <2>1 DEF IInv, TypeOK, LaunchProcess, Born, Unborn, MainGoto, WorkerGoto,
            pipeVars
    <2>3. WorkersLive' /\ TextKept' /\ ClientsLive'
        BY <1>4, <2>1 DEF IInv, TypeOK, WorkersLive, TextKept, ClientsLive, LaunchProcess,
            Born, MainGoto, WorkerGoto, pipeVars
    <2> QED
        BY <2>2, <2>3 DEF IInv
<1>5. CASE LaunchFails(u)
    BY <1>2, <1>5 DEF LaunchFails
<1>6. CASE Poll(u)
    BY <1>2, <1>6 DEF Poll
<1>7. CASE OpenPipe(u)
    <2>1. ui[u] # "none"
        BY <1>7 DEF IInv, ClientsLive, OpenPipe
    <2> QED
        BY <1>7, <2>1 DEF IInv, TypeOK, WorkersLive, TextKept, ClientsLive, OpenPipe,
            uiVars, mainVars
<1>8. CASE CloseWindow(u)
    BY <1>8 DEF IInv, TypeOK, WorkersLive, TextKept, ClientsLive, CloseWindow, mainVars,
        pipeVars
<1>9. CASE RequestSent(u) \/ RequestFails(u)
    BY <1>9 DEF IInv, TypeOK, WorkersLive, TextKept, ClientsLive, RequestSent, RequestFails,
        mainVars, pipeVars
<1>10. CASE WaitEnds(u)
    BY <1>10 DEF IInv, TypeOK, WorkersLive, TextKept, ClientsLive, WaitEnds, mainVars,
        pipeVars
<1>11. CASE UiEnds(u) \/ UiKilled(u)
    <2>1. UiGone(u)
        BY <1>11 DEF UiEnds, UiKilled
    <2>2. "" \in Text /\ NoOne \notin Ui
        BY DEF Text
    <2>3. client' # NoOne => client' = client /\ client # u
        BY <2>1 DEF UiGone
    <2>4. TypeOK'
        BY <2>1, <2>2, <2>3 DEF IInv, TypeOK, UiGone, mainVars
    <2>5. WorkersLive' /\ TextKept' /\ ClientsLive'
        BY <2>1 DEF IInv, TypeOK, WorkersLive, TextKept, ClientsLive, UiGone, mainVars
    <2> QED
        BY <2>4, <2>5 DEF IInv
<1> QED
    BY <1>1, <1>3, <1>4, <1>5, <1>6, <1>7, <1>8, <1>9, <1>10, <1>11 DEF UiNext

\* The steps of a service.
LEMMA MainStep ==
    ASSUME IInv, NEW s \in Service,
           MainNext(s) \/ UserStarts(s) \/ Quit(s) \/ ServiceKilled(s)
    PROVE  IInv'
<1> USE ServiceAssumption DEF MainGoto, WorkerGoto
<1>0. NoOne \notin Service /\ NoOne \notin Ui
    OBVIOUS
<1>1. CASE WireServiceCallbacks(s) \/ StartBridge(s) \/ StopBegins(s) \/ Quit(s)
    BY <1>1 DEF IInv, TypeOK, WorkersLive, TextKept, ClientsLive, WireServiceCallbacks,
        StartBridge, StopBegins, Quit, uiVars, pipeVars
<1>2. CASE StopCloses(s)
    BY <1>0, <1>2 DEF IInv, TypeOK, WorkersLive, TextKept, ClientsLive, StopCloses, HeldUp,
        NoInstance, uiVars, mainVars
<1>3. CASE UserStarts(s)
    BY <1>3 DEF IInv, TypeOK, WorkersLive, TextKept, ClientsLive, UserStarts, Born, Unborn,
        uiVars, pipeVars
<1>4. CASE ServiceEnds(s)
    BY <1>4 DEF IInv, TypeOK, WorkersLive, TextKept, ClientsLive, ServiceEnds, ServiceGone,
        uiVars, pipeVars
<1>5. CASE ServiceKilled(s) /\ owner = s
    BY <1>0, <1>5 DEF IInv, TypeOK, WorkersLive, TextKept, ClientsLive, ServiceKilled,
        ServiceGone, NoInstance, uiVars
<1>6. CASE ServiceKilled(s) /\ owner # s
    BY <1>6 DEF IInv, TypeOK, WorkersLive, TextKept, ClientsLive, ServiceKilled,
        ServiceGone, uiVars, pipeVars
<1> QED
    BY <1>1, <1>2, <1>3, <1>4, <1>5, <1>6 DEF MainNext

\* The steps of its worker.
LEMMA WorkerStep ==
    ASSUME IInv, NEW s \in Service, WorkerNext(s)
    PROVE  IInv'
<1> USE ServiceAssumption DEF WorkerGoto
<1>0. NoOne \notin Service /\ NoOne \notin Ui
    OBVIOUS
<1>1. ASSUME NEW step \in {"loop", "create", "dispatch", "close", "done"}, WorkerGoto(s, step),
             main[s] # "none", UNCHANGED <<uiVars, mainVars, pipeVars>>
      PROVE  IInv'
    BY <1>1 DEF IInv, TypeOK, WorkersLive, TextKept, ClientsLive, uiVars, mainVars, pipeVars
<1>2. ASSUME owner = s, WorkerGoto(s, "loop"), NoInstance, UNCHANGED <<uiVars, mainVars>>
      PROVE  IInv'
    BY <1>0, <1>2 DEF IInv, TypeOK, WorkersLive, TextKept, ClientsLive, NoInstance, uiVars,
        mainVars
<1>3. ASSUME owner = s, WorkerGoto(s, "read"), UNCHANGED <<uiVars, mainVars, pipeVars>>
      PROVE  IInv'
    BY <1>3 DEF IInv, TypeOK, WorkersLive, TextKept, ClientsLive, uiVars, mainVars, pipeVars
<1>4. worker[s] # "done" => main[s] # "none"
    BY DEF IInv, WorkersLive
<1>5. worker[s] \in {"connect", "read"} => owner = s
    BY DEF IInv, TypeOK
<1> HIDE DEF WorkerGoto
<1>6. CASE RunLoop(s)
    BY <1>1, <1>4, <1>6 DEF RunLoop, RunStep
<1>7. CASE CreatePipe(s)
    <2>1. CASE owner = NoOne
        BY <1>0, <1>4, <1>7, <2>1 DEF IInv, TypeOK, WorkersLive, TextKept, ClientsLive,
            CreatePipe, WorkerGoto, uiVars, mainVars
    <2> QED
        BY <1>1, <1>4, <1>7, <2>1 DEF CreatePipe, AfterCreateFailed
<1>8. CASE ConnectReturns(s)
    <2>1. owner = s /\ main[s] # "none" /\ UNCHANGED <<uiVars, mainVars>>
        BY <1>4, <1>5, <1>8 DEF ConnectReturns
    <2>2. CASE WorkerGoto(s, "loop") /\ NoInstance
        BY <1>2, <2>1, <2>2
    <2>3. CASE WorkerGoto(s, "read") /\ UNCHANGED pipeVars
        BY <1>3, <2>1, <2>3
    <2>4. CASE WorkerGoto(s, "close") /\ UNCHANGED pipeVars
        BY <1>1, <2>1, <2>4
    <2> QED
        BY <1>8, <2>2, <2>3, <2>4 DEF ConnectReturns
<1>9. CASE ReadShutdown(s)
    BY <1>0, <1>5, <1>9 DEF IInv, TypeOK, WorkersLive, TextKept, ClientsLive, ReadShutdown,
        WorkerGoto, uiVars
<1>10. CASE ReadOther(s)
    BY <1>1, <1>4, <1>10 DEF ReadOther
<1>11. CASE ReadFails(s)
    BY <1>1, <1>4, <1>11 DEF ReadFails
<1>12. CASE Dispatched(s)
    <2>1. CASE owner = s /\ Running(s)
        BY <1>3, <1>12, <2>1 DEF Dispatched
    <2>2. CASE ~(owner = s /\ Running(s))
        BY <1>1, <1>4, <1>12, <2>2 DEF Dispatched
    <2> QED
        BY <2>1, <2>2
<1>13. CASE ClosePipe(s)
    BY <1>1, <1>2, <1>4, <1>13 DEF ClosePipe
<1> QED
    BY <1>6, <1>7, <1>8, <1>9, <1>10, <1>11, <1>12, <1>13 DEF WorkerNext

LEMMA NextIInv == IInv /\ [Next]_vars => IInv'
<1> SUFFICES ASSUME IInv, [Next]_vars PROVE IInv'
    OBVIOUS
<1>1. CASE UNCHANGED vars
    BY <1>1 DEF vars, uiVars, mainVars, pipeVars, IInv, TypeOK, WorkersLive, TextKept,
        ClientsLive
<1>2. CASE Next
    BY <1>2, UiStep, MainStep, WorkerStep DEF Next
<1> QED
    BY <1>1, <1>2

LEMMA IInvHolds == Spec => []IInv
BY InitIInv, NextIInv, PTL DEF Spec

-----------------------------------------------------------------------------
\* The variables have their types, only a living service process has the instance of the
\* pipe and its worker waits in no call on a handle that is closed (pipe_server.cpp:21-32,
\* 74-131), and only a living UI is its client.
THEOREM TypeCorrect == Spec => []TypeOK
<1>1. IInv => TypeOK
    BY DEF IInv
<1> QED
    BY <1>1, IInvHolds, PTL

\* Closing a window asks no service to end that the window calls external
\* (service_process.cpp:50-54, 67-75).
THEOREM ExternalLeftAloneCorrect == Spec => []ExternalLeftAlone
<1>1. IInv => ExternalLeftAlone
    BY DEF IInv, TextKept, ExternalLeftAlone
<1> QED
    BY <1>1, IInvHolds, PTL
=============================================================================
