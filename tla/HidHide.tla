-------------------------------- MODULE HidHide --------------------------------
(***************************************************************************)
(* HidHideManager (service/hidhide_manager.cpp) and the three places that  *)
(* turn the integration on and off: the UI's command on the pipe's worker, *)
(* the console's on the main thread, and the callback main() makes when    *)
(* the controller has been found (service/main.cpp, hidhide_helpers.cpp).  *)
(*                                                                         *)
(* External: HidHide itself, reached through its command line program.  A  *)
(* run of it that takes more than 5 s is given up and goes on by itself.   *)
(***************************************************************************)
EXTENDS Integers, FiniteSets

CONSTANTS
    MaxToggles,     \* bound: toggles of each thread
    MaxLate         \* bound: commands with a run that is given up

ASSUME HidHideAssumption == MaxToggles \in Nat /\ MaxLate \in Nat

VARIABLES
    console,                        \* ServiceMode::Console
    hidhide_integration_enabled,    \* main()'s flag
    \* HidHideManager
    mutex_,                         \* the thread that holds it, or "nobody"
    integration_enabled_, operation_ok_,
    app_whitelisted_, device_hidden_,
    path_known_, instance_known_,   \* the controller's two strings are not empty
    \* by thread: its step, the value it sets, what the operations returned so far,
    \* and the toggles it has made
    pc, enabled, ok, toggles,
    world,                          \* HidHide: what it was told
    late, gaveUp,                   \* commands given up and still going; how many ever were
    overtaken,                      \* history: since the last operation began, one of them
                                    \* told HidHide the opposite
    raced                           \* history: opposite toggles overlapped

managerVars == <<integration_enabled_, operation_ok_, app_whitelisted_, device_hidden_,
                 path_known_, instance_known_>>
threadVars == <<pc, enabled, ok, toggles, raced>>
hidhideVars == <<world, late, gaveUp, overtaken>>
vars == <<console, hidhide_integration_enabled, mutex_, managerVars, threadVars,
          hidhideVars>>

Thread == {"worker", "main"}
\* "main" sends a status, starts the bridge (a failure ends the service, and is left
\* out), makes the callback of the controller it found, then serves the console.
Step == {"path", "flag", "idle", "query", "lock", "app", "device", "cloak", "unlock",
         "status", "send"}
\* The steps of SetIntegrationEnabled under the lock.
Locked == {"app", "device", "cloak", "unlock"}

World == [whitelisted : BOOLEAN, hidden : BOOLEAN, cloak : BOOLEAN]
Command == {"whitelisted", "hidden", "cloak"} \X BOOLEAN

TypeOK ==
    /\ console \in BOOLEAN /\ hidhide_integration_enabled \in BOOLEAN
    /\ mutex_ \in Thread \cup {"nobody"}
    /\ \A t \in Thread : pc[t] \in Locked => mutex_ = t
    /\ integration_enabled_ \in BOOLEAN /\ operation_ok_ \in BOOLEAN
    /\ app_whitelisted_ \in BOOLEAN /\ device_hidden_ \in BOOLEAN
    /\ path_known_ \in BOOLEAN /\ instance_known_ \in BOOLEAN
    /\ pc \in [Thread -> Step]
    /\ enabled \in [Thread -> BOOLEAN] /\ ok \in [Thread -> BOOLEAN]
    /\ toggles \in [Thread -> 0 .. MaxToggles]
    /\ world \in World
    /\ late \subseteq Command /\ gaveUp \in 0 .. MaxLate
    /\ overtaken \in BOOLEAN /\ raced \in BOOLEAN

\* HidHide may still be set up by an earlier service: nothing undoes it at exit.
Init ==
    /\ console \in BOOLEAN /\ hidhide_integration_enabled = FALSE
    /\ mutex_ = "nobody"
    /\ integration_enabled_ = FALSE /\ operation_ok_ = FALSE
    /\ app_whitelisted_ = FALSE /\ device_hidden_ = FALSE
    /\ path_known_ = FALSE /\ instance_known_ = FALSE
    /\ pc = [worker |-> "idle", main |-> "status"]
    /\ enabled = [t \in Thread |-> FALSE] /\ ok = [t \in Thread |-> FALSE]
    /\ toggles = [t \in Thread |-> 0]
    /\ world \in {[whitelisted |-> FALSE, hidden |-> FALSE, cloak |-> FALSE],
                  [whitelisted |-> TRUE, hidden |-> TRUE, cloak |-> TRUE]}
    /\ late = {} /\ gaveUp = 0 /\ overtaken = FALSE /\ raced = FALSE

Goto(t, step) == pc' = [pc EXCEPT ![t] = step]

\* The callback of the controller that was found asks for no status, it sends a line.
InCallback(t) == t = "main" /\ toggles[t] = 0
Return(t) == Goto(t, IF InCallback(t) THEN "send" ELSE "status")

At(t, step) == pc[t] = step

-----------------------------------------------------------------------------
(* HidHide.                                                                *)

Told(w, c) == [w EXCEPT ![c[1]] = c[2]]

\* A run of the program that was given up takes effect after all, or fails.
LateRun ==
    \E c \in late :
        /\ late' = late \ {c}
        /\ \/ UNCHANGED <<world, overtaken>>
           \/ /\ world' = Told(world, c)
              /\ overtaken' = (overtaken \/ (c[1] # "whitelisted" /\ c[2] # integration_enabled_))
        /\ UNCHANGED <<console, hidhide_integration_enabled, mutex_, managerVars, threadVars,
                       gaveUp>>

\* TryRunCli with two spellings of a command: one of them is done and reported as
\* done, or both fail; a run that is given up counts as failing.
TryRunCli(c, result) ==
    /\ \/ UNCHANGED <<late, gaveUp>>
       \/ gaveUp < MaxLate /\ gaveUp' = gaveUp + 1 /\ late' = late \cup {c}
    /\ world' = IF result THEN Told(world, c) ELSE world
    /\ UNCHANGED overtaken

-----------------------------------------------------------------------------
(* SetIntegrationEnabled.                                                  *)

\* QueryServiceStatus, before the lock is taken: HidHide is installed, started and stopped
\* at any time.
QueryServiceStatus(t) ==
    /\ At(t, "query")
    /\ \E ready \in BOOLEAN : ok' = [ok EXCEPT ![t] = ready]
    /\ Goto(t, "lock")
    /\ UNCHANGED <<console, hidhide_integration_enabled, mutex_, managerVars, enabled, toggles,
                   raced, hidhideVars>>

\* Mutant: the lock is not taken.
NobodyLocks == TRUE

MutexFree == mutex_ = "nobody"

\* Mutant: the value is stored only when HidHide is ready.
StoreEnabledWhenReady(t) ==
    integration_enabled_' = IF ok[t] THEN enabled[t] ELSE integration_enabled_

StoreEnabled(t) == integration_enabled_' = enabled[t]

\* The lock, and what comes before the first command; the instance id may not resolve.
\* When HidHide was not running nothing more is done.
Begin(t) ==
    /\ At(t, "lock") /\ MutexFree
    /\ StoreEnabled(t) /\ operation_ok_' = FALSE /\ overtaken' = FALSE
    /\ IF ok[t]
       THEN /\ mutex_' = t /\ Goto(t, "app")
            /\ instance_known_' \in IF path_known_ THEN {TRUE, instance_known_} ELSE {instance_known_}
       ELSE /\ Return(t)
            /\ UNCHANGED <<mutex_, instance_known_>>
    /\ UNCHANGED <<console, hidhide_integration_enabled, app_whitelisted_, device_hidden_,
                   path_known_, enabled, ok, toggles, raced, world, late, gaveUp>>

EnsureAppWhitelisted(t) ==
    /\ At(t, "app")
    /\ \E result \in BOOLEAN :
          /\ TryRunCli(<<"whitelisted", TRUE>>, result)
          /\ app_whitelisted_' = (app_whitelisted_ \/ result)
          /\ ok' = [ok EXCEPT ![t] = result]
    /\ Goto(t, "device")
    /\ UNCHANGED <<console, hidhide_integration_enabled, mutex_, integration_enabled_,
                   operation_ok_, device_hidden_, path_known_, instance_known_, enabled,
                   toggles, raced>>

\* The device is hidden even if the service itself could not be whitelisted.
SetDeviceHidden(t) ==
    /\ At(t, "device")
    /\ \/ /\ ~instance_known_
          /\ ok' = [ok EXCEPT ![t] = FALSE]
          /\ UNCHANGED <<device_hidden_, hidhideVars>>
       \/ /\ instance_known_
          /\ \E result \in BOOLEAN :
                /\ TryRunCli(<<"hidden", enabled[t]>>, result)
                /\ device_hidden_' = IF result THEN enabled[t] ELSE device_hidden_
                /\ ok' = [ok EXCEPT ![t] = ok[t] /\ result]
    /\ Goto(t, "cloak")
    /\ UNCHANGED <<console, hidhide_integration_enabled, mutex_, integration_enabled_,
                   operation_ok_, app_whitelisted_, path_known_, instance_known_, enabled,
                   toggles, raced>>

\* Mutant: the last result is returned for all.
LastResult(t, result) == result

AllOk(t, result) == ok[t] /\ result

SetCloakEnabled(t) ==
    /\ At(t, "cloak")
    /\ \E result \in BOOLEAN :
          /\ TryRunCli(<<"cloak", enabled[t]>>, result)
          /\ ok' = [ok EXCEPT ![t] = AllOk(t, result)]
    /\ Goto(t, "unlock")
    /\ UNCHANGED <<console, hidhide_integration_enabled, mutex_, managerVars, enabled, toggles,
                   raced>>

\* Mutant: the lock is kept.
KeepLock == UNCHANGED mutex_

ReleaseLock == mutex_' = "nobody"

Finish(t) ==
    /\ At(t, "unlock")
    /\ operation_ok_' = ok[t]
    /\ ReleaseLock
    /\ Return(t)
    /\ UNCHANGED <<console, hidhide_integration_enabled, integration_enabled_, app_whitelisted_,
                   device_hidden_, path_known_, instance_known_, enabled, ok, toggles,
                   raced, hidhideVars>>

-----------------------------------------------------------------------------
(* The callers.                                                            *)

\* It has set or read the flag and not yet taken the lock.
OnItsWay(t) == pc[t] \in {"query", "lock"}

\* HandleUiHidHideCommand and HandleHidHideConsoleCommand: the flag is set first.
Toggle(t, value) ==
    /\ At(t, "idle") /\ toggles[t] < MaxToggles
    /\ t = "main" => console
    /\ hidhide_integration_enabled' = value
    /\ enabled' = [enabled EXCEPT ![t] = value]
    /\ toggles' = [toggles EXCEPT ![t] = @ + 1]
    /\ raced' = (raced \/ \E u \in Thread : OnItsWay(u) /\ enabled[u] # value)
    /\ Goto(t, "query")
    /\ UNCHANGED <<console, mutex_, managerVars, ok, hidhideVars>>

\* The UI's and the console's request of the status.
RequestStatus(t) ==
    /\ At(t, "idle")
    /\ t = "main" => console
    /\ Goto(t, "status")
    /\ UNCHANGED <<console, hidhide_integration_enabled, mutex_, managerVars, enabled, ok,
                   toggles, raced, hidhideVars>>

\* QueryStatus reads what the manager has cached under its lock; what is sent has the
\* flag in place of the manager's integration_enabled_.
QueryStatus(t) ==
    /\ At(t, "status") /\ MutexFree
    /\ Goto(t, "send")
    /\ UNCHANGED <<console, hidhide_integration_enabled, mutex_, managerVars, enabled, ok,
                   toggles, raced, hidhideVars>>

\* SendHidHideStatus, and the line behind it or of the callback: writes to the pipe, which
\* may wait for the worker's read and for a UI that does not read.  main() goes on from its
\* first status to the controller.
SendHidHideStatus(t) ==
    /\ At(t, "send")
    /\ Goto(t, IF t = "main" /\ ~path_known_ THEN "path" ELSE "idle")
    /\ UNCHANGED <<console, hidhide_integration_enabled, mutex_, managerVars, enabled, ok,
                   toggles, raced, hidhideVars>>

\* SetOnControllerConnected: SetControllerInterfacePath ...
SetControllerInterfacePath ==
    /\ At("main", "path") /\ MutexFree
    /\ path_known_' = TRUE /\ instance_known_' = FALSE
    /\ Goto("main", "flag")
    /\ UNCHANGED <<console, hidhide_integration_enabled, mutex_, integration_enabled_,
                   operation_ok_, app_whitelisted_, device_hidden_, enabled, ok, toggles,
                   raced, hidhideVars>>

\* ... and, if the flag is set, SetIntegrationEnabled(true).
ControllerConnected ==
    /\ At("main", "flag")
    /\ IF hidhide_integration_enabled
       THEN Goto("main", "query") /\ enabled' = [enabled EXCEPT !["main"] = TRUE]
       ELSE Goto("main", "send") /\ UNCHANGED enabled
    /\ UNCHANGED <<console, hidhide_integration_enabled, mutex_, managerVars, ok, toggles,
                   raced, hidhideVars>>

-----------------------------------------------------------------------------

\* The steps of a command or callback that has begun, up to its call on the pipe.
Work(t) ==
    \/ QueryServiceStatus(t) \/ Begin(t)
    \/ EnsureAppWhitelisted(t) \/ SetDeviceHidden(t) \/ SetCloakEnabled(t)
    \/ Finish(t) \/ QueryStatus(t)

Callback == SetControllerInterfacePath \/ ControllerConnected

Requests(t) == RequestStatus(t) \/ \E value \in BOOLEAN : Toggle(t, value)

Next ==
    \/ Callback
    \/ \E t \in Thread : Work(t) \/ SendHidHideStatus(t) \/ Requests(t)
    \/ LateRun

Spec == Init /\ [][Next]_vars

\* The threads go on; nobody has to ask for anything, nothing given up has to finish, and
\* a call on the pipe need not return.  The mutex need not be fair: no thread takes it more
\* often than MaxToggles allows.
FairSpec ==
    /\ Spec
    /\ WF_vars(Callback)
    /\ \A t \in Thread : WF_vars(Work(t))

-----------------------------------------------------------------------------
(* Properties.                                                             *)

\* "Operation ok" is true of HidHide itself: the service is whitelisted, the controller is
\* hidden and the cloak is on exactly as the manager was told, whichever thread told it
\* last, however the two came one after the other, and although a run was given up and its
\* variant was tried.  There is one way to break it: a run given up earlier goes on and
\* tells HidHide the opposite after the operation has begun (hidhide_manager.cpp:186-208,
\* 255-287).
OkMeansDone ==
    mutex_ = "nobody" /\ operation_ok_ /\ ~overtaken =>
        /\ world = [whitelisted |-> TRUE, hidden |-> integration_enabled_,
                    cloak |-> integration_enabled_]
        /\ device_hidden_ = integration_enabled_

\* Every toggle, and the callback of the controller, gets through HidHide to its call on
\* the pipe, also when both threads are at it, when runs of the program fail or are given
\* up, and when the other thread waits in its own call for ever: nobody takes the manager's
\* lock to the pipe (hidhide_manager.cpp:239-287, main.cpp:146-150, 196-204).
CommandsReachSend == \A t \in Thread : At(t, "query") ~> At(t, "send")

\* The UI "displays resulting state" (docs/architecture.md:71): the flag every status
\* carries is the value the manager was last told, unless two threads toggled to
\* opposite values at a time.  Then, and only then, the order in which they set the flag,
\* outside the manager's lock, need not be the order in which they reach the manager
\* (main.cpp:146-149, hidhide_helpers.cpp:28-40, hidhide_manager.cpp:264-267).
FlagIsResult ==
    ~raced /\ (\A t \in Thread : ~OnItsWay(t)) =>
        hidhide_integration_enabled = integration_enabled_
=============================================================================
