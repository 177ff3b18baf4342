--------------------------- MODULE ServiceProcess ---------------------------
(***************************************************************************)
(* UI processes, service processes and the one pipe name they share:       *)
(* ServiceProcess (ui/service_process.cpp) with the window that drives it  *)
(* (ui/MainWindow.xaml.cpp), and the life of the service from main()'s     *)
(* first statement to its exit (service/main.cpp) with the worker of its   *)
(* PipeServer.  CreateNamedPipeW allows one instance, so at most one       *)
(* service can be reached.                                                 *)
(*                                                                         *)
(* How the two ends of one connection work is PipeLink; here a call on the *)
(* pipe only may have to wait: for a call that another thread has pending  *)
(* on the same handle, or for a client that does not read what is written  *)
(* or flushed.  Such a step may happen at any time, and fairness is        *)
(* assumed for it only once nothing is left to wait for (Prompt).  Time is *)
(* abstract too: a wait with a timeout may end at any moment.              *)
(***************************************************************************)
EXTENDS Integers

CONSTANTS
    Ui,         \* UI processes; the number of one that has ended is used again
    Service,    \* service processes, likewise
    NoOne, TheUser

ASSUME ServiceAssumption ==
    Ui \cap Service = {} /\ {NoOne, TheUser} \cap (Ui \cup Service) = {} /\ NoOne # TheUser

VARIABLES
    \* by UI
    ui,                 \* where its UI thread is
    running_,           \* its PipeClient's
    launched_by_ui_, service_detected_,
    process_info_,      \* the service it has a handle of
    service_state_text_,
    \* by service
    main,               \* where main() is; "none": there is no such process
    worker,             \* where the worker of its PipeServer is
    shutdown_requested,
    launcher,           \* history: who started it
    \* the pipe
    owner,              \* the service that has the instance
    accepted, client,   \* it has been opened; by this UI, which may be gone
    request             \* the UI whose UiShutdownService is in the pipe

uiVars == <<ui, running_, launched_by_ui_, service_detected_, process_info_,
            service_state_text_>>
mainVars == <<main, shutdown_requested, launcher>>
pipeVars == <<owner, accepted, client, request>>
vars == <<uiVars, mainVars, worker, pipeVars>>

Text == {"", "start failed", "not running", "started by UI", "external"}

TypeOK ==
    /\ ui \in [Ui -> {"none", "ensure", "launch", "poll", "open", "request", "wait", "close"}]
    /\ running_ \in [Ui -> BOOLEAN]
    /\ launched_by_ui_ \in [Ui -> BOOLEAN] /\ service_detected_ \in [Ui -> BOOLEAN]
    /\ process_info_ \in [Ui -> Service \cup {NoOne}]
    /\ service_state_text_ \in [Ui -> Text]
    /\ main \in [Service -> {"none", "start", "wired", "run", "stop"}]
    /\ worker \in [Service -> {"loop", "create", "connect", "read", "dispatch", "close", "done"}]
    /\ shutdown_requested \in [Service -> BOOLEAN]
    /\ launcher \in [Service -> Ui \cup {TheUser}]
    /\ owner \in Service \cup {NoOne}
    /\ accepted \in BOOLEAN
    /\ client \in Ui \cup {NoOne} /\ request \in Ui \cup {NoOne}
    \* Only a process has the instance, and a worker that waits in a call on it has.
    /\ owner # NoOne => main[owner] # "none"
    /\ owner = NoOne => ~accepted /\ request = NoOne
    /\ client # NoOne => accepted /\ ui[client] # "none"
    /\ \A s \in Service : worker[s] \in {"connect", "read"} => owner = s

Init ==
    /\ ui = [u \in Ui |-> "none"] /\ running_ = [u \in Ui |-> FALSE]
    /\ launched_by_ui_ = [u \in Ui |-> FALSE] /\ service_detected_ = [u \in Ui |-> FALSE]
    /\ process_info_ = [u \in Ui |-> NoOne] /\ service_state_text_ = [u \in Ui |-> ""]
    /\ main = [s \in Service |-> "none"] /\ worker = [s \in Service |-> "done"]
    /\ shutdown_requested = [s \in Service |-> FALSE]
    /\ launcher = [s \in Service |-> TheUser]
    /\ owner = NoOne /\ accepted = FALSE /\ client = NoOne /\ request = NoOne

-----------------------------------------------------------------------------
(* The pipe and the processes, as the code sees them.                      *)

UiAt(u, step) == ui[u] = step
UiGoto(u, step) == ui' = [ui EXCEPT ![u] = step]
MainGoto(s, step) == main' = [main EXCEPT ![s] = step]
WorkerGoto(s, step) == worker' = [worker EXCEPT ![s] = step]

\* The PipeServer's running_: from Start() to Stop().
Running(s) == main[s] \in {"start", "wired", "run"}

\* WaitNamedPipeW finds an instance, free or (ERROR_SEM_TIMEOUT) in use.
IsPipeReachable == owner # NoOne

\* The instance is closed, whatever is in it is gone.
NoInstance == owner' = NoOne /\ accepted' = FALSE /\ client' = NoOne /\ request' = NoOne

\* A process that no handle refers to can have its number used again.
Unborn(s) == main[s] = "none" /\ \A u \in Ui : process_info_[u] # s

\* A service starts: pipe_server.Start() is its first act.
Born(s, who) ==
    /\ Unborn(s)
    /\ MainGoto(s, "start") /\ WorkerGoto(s, "loop")
    /\ launcher' = [launcher EXCEPT ![s] = who]
    /\ UNCHANGED shutdown_requested

-----------------------------------------------------------------------------
(* The UI: MainWindow over ServiceProcess and PipeClient.                  *)

StartUi(u) ==
    /\ UiAt(u, "none") /\ UiGoto(u, "ensure")
    /\ UNCHANGED <<running_, launched_by_ui_, service_detected_, process_info_,
                   service_state_text_, mainVars, worker, pipeVars>>

StatusText(detected, launched) ==
    IF ~detected THEN "not running" ELSE IF launched THEN "started by UI" ELSE "external"

\* Mutant: a refresh that finds no service leaves the text alone.
TextIfFound(u, ok) ==
    IF ok THEN StatusText(TRUE, launched_by_ui_[u])
    ELSE IF ~running_[u] THEN "start failed" ELSE service_state_text_[u]

TextShown(u, ok) ==
    IF ~running_[u] /\ ~ok THEN "start failed"
    ELSE StatusText(service_detected_[u] \/ ok, launched_by_ui_[u])

\* EnsureRunning returns: to the constructor, which starts the PipeClient, or to
\* OnRefreshClicked.
Ensured(u, ok) ==
    /\ UiGoto(u, "open")
    /\ service_detected_' = [service_detected_ EXCEPT ![u] = @ \/ ok]
    /\ service_state_text_' = [service_state_text_ EXCEPT ![u] = TextShown(u, ok)]
    /\ running_' = [running_ EXCEPT ![u] = TRUE]

\* The pipe is looked for once, then a service is launched.
EnsureRunning(u) ==
    /\ UiAt(u, "ensure")
    /\ \/ IsPipeReachable /\ Ensured(u, TRUE)
       \/ ~IsPipeReachable /\ UiGoto(u, "launch")
             /\ UNCHANGED <<running_, service_detected_, service_state_text_>>
    /\ UNCHANGED <<launched_by_ui_, process_info_, mainVars, worker, pipeVars>>

\* LaunchProcess replaces the handle of a service launched before.
LaunchProcess(u) ==
    /\ UiAt(u, "launch")
    /\ \E s \in Service :
          /\ Born(s, u)
          /\ process_info_' = [process_info_ EXCEPT ![u] = s]
    /\ launched_by_ui_' = [launched_by_ui_ EXCEPT ![u] = TRUE]
    /\ UiGoto(u, "poll")
    /\ UNCHANGED <<running_, service_detected_, service_state_text_, pipeVars>>

\* No dsl_service.exe is found, or it cannot be started.
LaunchFails(u) ==
    /\ UiAt(u, "launch") /\ Ensured(u, FALSE)
    /\ UNCHANGED <<launched_by_ui_, process_info_, mainVars, worker, pipeVars>>

\* The pipe is looked for 30 times in 3 s: it is found, or the time is over.
Poll(u) ==
    /\ UiAt(u, "poll")
    /\ \/ IsPipeReachable /\ Ensured(u, TRUE)
       \/ Ensured(u, FALSE)
    /\ UNCHANGED <<launched_by_ui_, process_info_, mainVars, worker, pipeVars>>

OnRefreshClicked(u) ==
    /\ UiAt(u, "open") /\ UiGoto(u, "ensure")
    /\ UNCHANGED <<running_, launched_by_ui_, service_detected_, process_info_,
                   service_state_text_, mainVars, worker, pipeVars>>

\* The read loop opens a free instance.
OpenPipe(u) ==
    /\ running_[u] /\ client # u
    /\ owner # NoOne /\ ~accepted
    /\ accepted' = TRUE /\ client' = u
    /\ UNCHANGED <<uiVars, mainVars, worker, owner, request>>

\* The window is closed: ~MainWindow calls ShutdownIfLaunched.
CloseWindow(u) ==
    /\ UiAt(u, "open")
    /\ UiGoto(u, IF launched_by_ui_[u] THEN "request" ELSE "close")
    /\ UNCHANGED <<running_, launched_by_ui_, service_detected_, process_info_,
                   service_state_text_, mainVars, worker, pipeVars>>

\* RequestServiceShutdown asks whatever service the pipe leads to.
RequestSent(u) ==
    /\ UiAt(u, "request") /\ client = u
    /\ request' = u
    /\ UiGoto(u, "wait")
    /\ UNCHANGED <<running_, launched_by_ui_, service_detected_, process_info_,
                   service_state_text_, mainVars, worker, owner, accepted, client>>

RequestFails(u) ==
    /\ UiAt(u, "request") /\ client # u
    /\ UiGoto(u, "wait")
    /\ UNCHANGED <<running_, launched_by_ui_, service_detected_, process_info_,
                   service_state_text_, mainVars, worker, pipeVars>>

\* WaitForSingleObject ends with the process, or after 2 s without.
WaitEnds(u) ==
    /\ UiAt(u, "wait")
    /\ UiGoto(u, "close")
    /\ launched_by_ui_' = [launched_by_ui_ EXCEPT ![u] = FALSE]
    /\ service_detected_' = [service_detected_ EXCEPT ![u] = FALSE]
    /\ UNCHANGED <<running_, process_info_, service_state_text_, mainVars, worker, pipeVars>>

\* What is left of a UI process that has ended.
UiGone(u) ==
    /\ UiGoto(u, "none")
    /\ running_' = [running_ EXCEPT ![u] = FALSE]
    /\ launched_by_ui_' = [launched_by_ui_ EXCEPT ![u] = FALSE]
    /\ service_detected_' = [service_detected_ EXCEPT ![u] = FALSE]
    /\ process_info_' = [process_info_ EXCEPT ![u] = NoOne]
    /\ service_state_text_' = [service_state_text_ EXCEPT ![u] = ""]
    /\ client' = IF client = u THEN NoOne ELSE client
    /\ UNCHANGED <<mainVars, worker, owner, accepted, request>>

\* pipe_client_.Stop(), ~ServiceProcess, and the process ends.
UiEnds(u) == UiAt(u, "close") /\ UiGone(u)

\* It is ended from outside: no destructor runs.
UiKilled(u) == ~UiAt(u, "none") /\ ~UiAt(u, "close") /\ UiGone(u)

-----------------------------------------------------------------------------
(* The service: main().                                                    *)

\* A service started by hand, in whichever mode.
UserStarts(s) ==
    /\ Born(s, TheUser)
    /\ UNCHANGED <<uiVars, pipeVars>>

\* The driver is there, or a fallback is allowed; WireServiceCallbacks.
WireServiceCallbacks(s) ==
    /\ main[s] = "start" /\ MainGoto(s, "wired")
    /\ UNCHANGED <<uiVars, shutdown_requested, launcher, worker, pipeVars>>

StartBridge(s) ==
    /\ main[s] = "wired" /\ MainGoto(s, "run")
    /\ UNCHANGED <<uiVars, shutdown_requested, launcher, worker, pipeVars>>

\* Stop() of the PipeServer begins: no driver, no controller, or the end of the loop.
\* The threads of the bridge have been joined.
StopBegins(s) ==
    /\ main[s] \in {"start", "wired"} \/ (main[s] = "run" /\ shutdown_requested[s])
    /\ MainGoto(s, "stop")
    /\ UNCHANGED <<uiVars, shutdown_requested, launcher, worker, pipeVars>>

\* "quit" at the console.
Quit(s) ==
    /\ main[s] = "run" /\ launcher[s] = TheUser
    /\ MainGoto(s, "stop")
    /\ UNCHANGED <<uiVars, shutdown_requested, launcher, worker, pipeVars>>

\* Mutant: the handle is closed under the worker's call.
NeverHeldUp(s) == FALSE

HeldUp(s) == worker[s] \in {"connect", "read"}

\* Its ClosePipe: held up by a call the worker has pending on the handle, and by a client
\* that does not read what is flushed (no fairness, see MainSure).
StopCloses(s) ==
    /\ main[s] = "stop" /\ owner = s /\ ~HeldUp(s)
    /\ NoInstance
    /\ UNCHANGED <<uiVars, mainVars, worker>>

ServiceGone(s) ==
    /\ MainGoto(s, "none") /\ WorkerGoto(s, "done")
    /\ shutdown_requested' = [shutdown_requested EXCEPT ![s] = FALSE]
    /\ launcher' = [launcher EXCEPT ![s] = TheUser]
    /\ UNCHANGED uiVars

\* The worker is joined and main() returns.
ServiceEnds(s) ==
    /\ main[s] = "stop" /\ worker[s] = "done" /\ owner # s
    /\ ServiceGone(s) /\ UNCHANGED pipeVars

\* The process is killed or crashes.
ServiceKilled(s) ==
    /\ main[s] # "none" /\ ServiceGone(s)
    /\ IF owner = s THEN NoInstance ELSE UNCHANGED pipeVars

-----------------------------------------------------------------------------
(* The service: PipeServer::Run.                                           *)

\* Mutant: the loop does not look at running_.
RunForEver(s) == "create"

RunStep(s) == IF Running(s) THEN "create" ELSE "done"

RunLoop(s) ==
    /\ main[s] # "none" /\ worker[s] = "loop" /\ WorkerGoto(s, RunStep(s))
    /\ UNCHANGED <<uiVars, mainVars, pipeVars>>

\* Mutant: the worker gives up.
AfterCreateGivesUp(s) == "done"

AfterCreateFailed(s) == "loop"

\* CreateNamedPipeW; it fails while another service has the only instance.
CreatePipe(s) ==
    /\ worker[s] = "create"
    /\ \/ /\ owner = NoOne /\ owner' = s
          /\ WorkerGoto(s, "connect") /\ UNCHANGED <<accepted, client, request>>
       \/ /\ owner # NoOne
          /\ WorkerGoto(s, AfterCreateFailed(s)) /\ UNCHANGED pipeVars
    /\ UNCHANGED <<uiVars, mainVars>>

\* ConnectNamedPipe returns, and running_ is looked at; it may fail if the UI is gone,
\* and then the handle is closed without a flush.
ConnectReturns(s) ==
    /\ worker[s] = "connect" /\ accepted
    /\ \/ WorkerGoto(s, IF Running(s) THEN "read" ELSE "close") /\ UNCHANGED pipeVars
       \/ client = NoOne /\ WorkerGoto(s, "loop") /\ NoInstance
    /\ UNCHANGED <<uiVars, mainVars>>

\* Mutant: a read fails at once when the other end is closed.
ReadableIfLinked == request # NoOne /\ client # NoOne

\* What was written before the other end was closed can still be read.
Readable == request # NoOne

\* A shutdown command is read; before SetOnCommand nobody hears it.
ReadShutdown(s) ==
    /\ worker[s] = "read" /\ Readable
    /\ request' = NoOne
    /\ shutdown_requested' = [shutdown_requested EXCEPT ![s] = @ \/ main[s] # "start"]
    /\ WorkerGoto(s, "dispatch")
    /\ UNCHANGED <<uiVars, main, launcher, owner, accepted, client>>

\* Another command of the UI is read; all of them come before its shutdown command.
ReadOther(s) ==
    /\ worker[s] = "read" /\ client # NoOne /\ ~Readable
    /\ WorkerGoto(s, "dispatch")
    /\ UNCHANGED <<uiVars, mainVars, pipeVars>>

\* The read fails: the client has gone.
ReadFails(s) ==
    /\ worker[s] = "read" /\ client = NoOne /\ ~Readable
    /\ WorkerGoto(s, "close")
    /\ UNCHANGED <<uiVars, mainVars, pipeVars>>

\* The callback has returned: its replies have been written, or could not be.  The handle
\* may have been closed by Stop() meanwhile; then there is nothing to read.
Dispatched(s) ==
    /\ worker[s] = "dispatch"
    /\ WorkerGoto(s, IF owner = s /\ Running(s) THEN "read" ELSE "close")
    /\ UNCHANGED <<uiVars, mainVars, pipeVars>>

\* What is left is flushed and the handle closed, unless Stop() has done so.
ClosePipe(s) ==
    /\ worker[s] = "close" /\ WorkerGoto(s, "loop")
    /\ IF owner = s THEN NoInstance ELSE UNCHANGED pipeVars
    /\ UNCHANGED <<uiVars, mainVars>>

-----------------------------------------------------------------------------
UiNext(u) ==
    \/ StartUi(u) \/ EnsureRunning(u) \/ LaunchProcess(u) \/ LaunchFails(u) \/ Poll(u)
    \/ OnRefreshClicked(u) \/ OpenPipe(u) \/ CloseWindow(u) \/ RequestSent(u)
    \/ RequestFails(u) \/ WaitEnds(u) \/ UiEnds(u) \/ UiKilled(u)

MainNext(s) ==
    \/ WireServiceCallbacks(s) \/ StartBridge(s) \/ StopBegins(s) \/ StopCloses(s)
    \/ ServiceEnds(s)

WorkerNext(s) ==
    \/ RunLoop(s) \/ CreatePipe(s) \/ ConnectReturns(s) \/ ReadShutdown(s) \/ ReadOther(s)
    \/ ReadFails(s) \/ Dispatched(s) \/ ClosePipe(s)

Next ==
    \/ \E u \in Ui : UiNext(u)
    \/ \E s \in Service :
          \/ MainNext(s) \/ WorkerNext(s)
          \/ UserStarts(s) \/ Quit(s) \/ ServiceKilled(s)

Spec == Init /\ [][Next]_vars

\* A call on the pipe returns in any case: there is no instance of it, or its client has
\* gone.  Of a client that is there nothing is known: it may neither read nor write.
Prompt(s) == owner = s => accepted /\ client = NoOne

\* The worker's own steps; its other calls on the pipe only if nothing can hold them up.
WorkerSure(s) ==
    \/ RunLoop(s) \/ CreatePipe(s) \/ ConnectReturns(s)
    \/ Prompt(s) /\ (ReadShutdown(s) \/ ReadFails(s) \/ Dispatched(s) \/ ClosePipe(s))

\* main() writes to a client (or joins the input thread, which does), and flushes in
\* Stop(); while the worker waits for a client nothing is written (connected_ is FALSE),
\* and a write waits for the read that the worker has pending.
MainSure(s) ==
    MainNext(s) /\ (worker[s] = "connect" \/ (Prompt(s) /\ worker[s] # "read"))

\* The threads of a service are scheduled; nothing is assumed of a UI.  Strong fairness
\* for main(): a call that was held up goes on when what held it up has gone, although the
\* worker may be in its next wait soon after.
FairSpec ==
    /\ Spec
    /\ \A s \in Service : SF_vars(MainSure(s)) /\ WF_vars(WorkerSure(s))

-----------------------------------------------------------------------------
\* A service that the window calls external is not told to end when the window closes,
\* whatever was launched and refreshed before (service_process.cpp:50-54, 67-75,
\* MainWindow.xaml.cpp:79-84, 100-107).
ExternalLeftAlone ==
    \A u \in Ui : ui[u] \in {"request", "wait"} => service_state_text_[u] # "external"

\* The name of the pipe never stays without an instance while a service runs: one that
\* lost the race for the only instance takes over when the other service is gone
\* (pipe_server.cpp:74-84).
PipeServedAgain ==
    \A s \in Service : []<>(owner # NoOne \/ ~Running(s))

\* A UI asks a service to shut down and goes: its command is not lost with it.  If the
\* command is in the pipe of a service that hears commands (a callback is set, and
\* ConnectNamedPipe has returned), the service sets the flag, behind whatever it is still
\* answering, unless it stops anyway.  While the UI is there and reads none of the answers
\* nothing is promised; and the flag is all that is: what follows from it is
\* StopWaitsOnlyForClient (service_process.cpp:50-61, MainWindow.xaml.cpp:79-84,
\* pipe_server.cpp:112-142, main.cpp:160).
ShutdownArrives ==
    \A s \in Service :
        (/\ owner = s /\ worker[s] \in {"read", "dispatch"} /\ main[s] \in {"wired", "run"}
         /\ request # NoOne /\ client = NoOne)
            ~> (shutdown_requested[s] \/ ~Running(s))

\* Its Stop() has begun, or must follow: a service that a UI launched runs in the
\* background and looks at the flag.  (One started by hand may sit in getline.)
Stopping(s) ==
    \/ main[s] = "stop"
    \/ shutdown_requested[s] /\ launcher[s] # TheUser /\ main[s] # "none"

\* A service that is to stop ends, unless from some moment on it waits for ever on one and
\* the same instance of the pipe: for a client to open it, or for the client that is there
\* (to write, or to read what it was sent).  A client that has gone, however it went,
\* holds up neither the worker nor Stop(), and a service that lost the race for the pipe
\* ends in any case (pipe_server.cpp:21-32, 74-131, 153-157, main.cpp:180-182, 228-232).
StopWaitsOnlyForClient ==
    \A s \in Service :
        <>[]Stopping(s) => <>[](owner = s /\ (accepted => client # NoOne))
=============================================================================
