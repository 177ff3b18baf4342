------------------------------ MODULE HidHideProofs ------------------------------
(***************************************************************************)
(* Proofs about HidHide, for any number of toggles and of runs given up:   *)
(* its type invariant with the mutual exclusion it contains, and what "the *)
(* operation was ok" says of HidHide itself.                               *)
(***************************************************************************)
EXTENDS HidHide, TLAPS

\* What the thread at work has been told so far, step by step: as long as every result
\* was good, the commands that have been run are in effect.
Done(t) ==
    /\ At(t, "device") /\ ok[t] => world.whitelisted
    /\ At(t, "cloak") /\ ok[t] =>
        /\ world.whitelisted /\ world.hidden = enabled[t] /\ device_hidden_ = enabled[t]
    /\ At(t, "unlock") /\ ok[t] =>
        /\ world.whitelisted /\ world.hidden = enabled[t] /\ device_hidden_ = enabled[t]
        /\ world.cloak = enabled[t]

\* The manager's value is that of the thread that holds the lock: what a late run tells
\* HidHide, unless it is the opposite of that, is what the thread has told or will tell.
HolderTold == \A t \in Thread : pc[t] \in Locked => integration_enabled_ = enabled[t]

\* Nobody takes the service off the whitelist, late or not.
LateWhitelists == \A c \in late : c[1] = "whitelisted" => c[2]

\* The parts above make OkMeansDone inductive.
IInv ==
    /\ TypeOK
    /\ HolderTold
    /\ LateWhitelists
    /\ ~overtaken => \A t \in Thread : Done(t)
    /\ OkMeansDone

-----------------------------------------------------------------------------
(* Types.                                                                  *)

\* A run of the program, given up or not, leaves HidHide and the list of runs well-typed.
LEMMA RunTyped ==
    ASSUME TypeOK, NEW c \in Command, NEW result \in BOOLEAN, TryRunCli(c, result)
    PROVE  world' \in World /\ late' \subseteq Command /\ gaveUp' \in 0 .. MaxLate
           /\ overtaken' \in BOOLEAN
<1>1. world' \in World
  <2>1. c[1] \in {"whitelisted", "hidden", "cloak"} /\ c[2] \in BOOLEAN
    BY DEF Command
  <2>2. QED BY <2>1 DEF TypeOK, TryRunCli, Told, World
<1>2. late' \subseteq Command /\ gaveUp' \in 0 .. MaxLate
  BY HidHideAssumption DEF TypeOK, TryRunCli
<1>3. overtaken' \in BOOLEAN
  BY DEF TypeOK, TryRunCli
<1>4. QED BY <1>1, <1>2, <1>3

\* TypeOK is inductive: in particular a thread between Begin and Finish holds the lock.
LEMMA TypeStep == TypeOK /\ [Next]_vars => TypeOK'
<1>1. SUFFICES ASSUME TypeOK, [Next]_vars PROVE TypeOK'
  OBVIOUS
<1> USE HidHideAssumption DEF TypeOK, Thread, Step, Locked, At, Goto
<1>2. CASE LateRun
  BY <1>1, <1>2 DEF LateRun, Told, World, Command, managerVars, threadVars
<1>3. ASSUME NEW t \in Thread, QueryServiceStatus(t) PROVE TypeOK'
  BY <1>1, <1>3 DEF QueryServiceStatus, managerVars, hidhideVars
<1>4. ASSUME NEW t \in Thread, Begin(t) PROVE TypeOK'
  <2>1. \A u \in Thread : pc[u] \notin Locked
    BY <1>1, <1>4 DEF Begin, MutexFree
  <2>2. /\ integration_enabled_' \in BOOLEAN /\ operation_ok_' \in BOOLEAN
        /\ instance_known_' \in BOOLEAN
    BY <1>1, <1>4 DEF Begin, StoreEnabled
  <2>3. /\ mutex_' \in Thread \cup {"nobody"} /\ pc' \in [Thread -> Step]
        /\ \A u \in Thread : pc'[u] \in Locked => mutex_' = u
    <3>1. CASE ok[t]
      BY <1>1, <1>4, <2>1, <3>1 DEF Begin
    <3>2. CASE ~ok[t]
      BY <1>1, <1>4, <2>1, <3>2 DEF Begin, Return
    <3>3. QED BY <3>1, <3>2
  <2>4. QED BY <1>1, <1>4, <2>2, <2>3 DEF Begin
<1>5. ASSUME NEW t \in Thread, EnsureAppWhitelisted(t) PROVE TypeOK'
  <2>1. PICK result \in BOOLEAN :
            /\ TryRunCli(<<"whitelisted", TRUE>>, result)
            /\ app_whitelisted_' = (app_whitelisted_ \/ result)
            /\ ok' = [ok EXCEPT ![t] = result]
    BY <1>5 DEF EnsureAppWhitelisted
  <2>2. /\ world' \in World
        /\ late' \subseteq Command /\ gaveUp' \in 0 .. MaxLate /\ overtaken' \in BOOLEAN
    <3>1. <<"whitelisted", TRUE>> \in Command
      BY DEF Command
    <3>2. QED BY <1>1, <2>1, <3>1, RunTyped
  <2>3. /\ pc' \in [Thread -> Step] /\ ok' \in [Thread -> BOOLEAN]
        /\ app_whitelisted_' \in BOOLEAN
        /\ \A u \in Thread : pc'[u] \in Locked => mutex_ = u
    BY <1>1, <1>5, <2>1 DEF EnsureAppWhitelisted
  <2>4. QED BY <1>1, <1>5, <2>2, <2>3 DEF EnsureAppWhitelisted
<1>6. ASSUME NEW t \in Thread, SetDeviceHidden(t) PROVE TypeOK'
  <2>1. CASE ~instance_known_
    <3>1. /\ pc' \in [Thread -> Step] /\ ok' \in [Thread -> BOOLEAN]
          /\ \A u \in Thread : pc'[u] \in Locked => mutex_ = u
      BY <1>1, <1>6, <2>1 DEF SetDeviceHidden
    <3>2. QED BY <1>1, <1>6, <2>1, <3>1 DEF SetDeviceHidden, hidhideVars
  <2>2. CASE instance_known_
    <3>1. PICK result \in BOOLEAN :
              /\ TryRunCli(<<"hidden", enabled[t]>>, result)
              /\ device_hidden_' = IF result THEN enabled[t] ELSE device_hidden_
              /\ ok' = [ok EXCEPT ![t] = ok[t] /\ result]
      BY <1>6, <2>2 DEF SetDeviceHidden
    <3>2. /\ world' \in World
          /\ late' \subseteq Command /\ gaveUp' \in 0 .. MaxLate /\ overtaken' \in BOOLEAN
      <4>1. <<"hidden", enabled[t]>> \in Command
        BY <1>1 DEF Command
      <4>2. QED BY <1>1, <3>1, <4>1, RunTyped
    <3>3. device_hidden_' \in BOOLEAN /\ ok' \in [Thread -> BOOLEAN]
      BY <1>1, <3>1
    <3>4. QED BY <1>1, <1>6, <3>2, <3>3 DEF SetDeviceHidden
  <2>3. QED BY <2>1, <2>2
<1>7. ASSUME NEW t \in Thread, SetCloakEnabled(t) PROVE TypeOK'
  BY <1>1, <1>7 DEF SetCloakEnabled, TryRunCli, Told, World, Command, AllOk, managerVars
<1>8. ASSUME NEW t \in Thread, Finish(t) PROVE TypeOK'
  BY <1>1, <1>8 DEF Finish, ReleaseLock, Return, InCallback, hidhideVars
<1>9. ASSUME NEW t \in Thread, QueryStatus(t) PROVE TypeOK'
  BY <1>1, <1>9 DEF QueryStatus, MutexFree, managerVars, hidhideVars
<1>10. ASSUME NEW t \in Thread, RequestStatus(t) PROVE TypeOK'
  BY <1>1, <1>10 DEF RequestStatus, managerVars, hidhideVars
<1>11. ASSUME NEW t \in Thread, NEW value \in BOOLEAN, Toggle(t, value) PROVE TypeOK'
  BY <1>1, <1>11 DEF Toggle, managerVars, hidhideVars
<1>12. ASSUME NEW t \in Thread, SendHidHideStatus(t) PROVE TypeOK'
  BY <1>1, <1>12 DEF SendHidHideStatus, managerVars, hidhideVars
<1>13. CASE SetControllerInterfacePath
  BY <1>1, <1>13 DEF SetControllerInterfacePath, MutexFree, hidhideVars
<1>14. CASE ControllerConnected
  <2>1. CASE hidhide_integration_enabled
    <3>1. pc' = [pc EXCEPT !["main"] = "query"] /\ enabled' = [enabled EXCEPT !["main"] = TRUE]
      BY <1>14, <2>1 DEF ControllerConnected
    <3>2. pc' \in [Thread -> Step] /\ enabled' \in [Thread -> BOOLEAN]
          /\ \A t \in Thread : pc'[t] \in Locked => mutex_ = t
      BY <1>1, <3>1
    <3>3. QED BY <1>1, <1>14, <3>2 DEF ControllerConnected, managerVars, hidhideVars
  <2>2. CASE ~hidhide_integration_enabled
    BY <1>1, <1>14, <2>2 DEF ControllerConnected, managerVars, hidhideVars
  <2>3. QED BY <2>1, <2>2
<1>15. CASE UNCHANGED vars
  BY <1>1, <1>15 DEF vars, managerVars, threadVars, hidhideVars
<1>16. QED
  BY <1>1, <1>2, <1>3, <1>4, <1>5, <1>6, <1>7, <1>8, <1>9, <1>10, <1>11, <1>12, <1>13, <1>14, <1>15
  DEF Next, Callback, Work, Requests

\* The start, with HidHide as an earlier service left it.
LEMMA InitTyped == Init => TypeOK
<1>1. SUFFICES ASSUME Init PROVE TypeOK
  OBVIOUS
<1>2. world \in World
  <2>1. [whitelisted |-> FALSE, hidden |-> FALSE, cloak |-> FALSE] \in World
    BY DEF World
  <2>2. [whitelisted |-> TRUE, hidden |-> TRUE, cloak |-> TRUE] \in World
    BY DEF World
  <2>3. QED BY <1>1, <2>1, <2>2 DEF Init
<1>3. late \subseteq Command /\ gaveUp \in 0 .. MaxLate
  BY <1>1, HidHideAssumption DEF Init
<1>4. pc \in [Thread -> Step] /\ \A t \in Thread : pc[t] \notin Locked
  BY <1>1 DEF Init, Thread, Step, Locked
<1>5. enabled \in [Thread -> BOOLEAN] /\ ok \in [Thread -> BOOLEAN]
  BY <1>1 DEF Init
<1>6. toggles \in [Thread -> 0 .. MaxToggles]
  BY <1>1, HidHideAssumption DEF Init
<1>7. QED BY <1>1, <1>2, <1>3, <1>4, <1>5, <1>6 DEF Init, TypeOK

\* The manager's lock excludes, and every variable keeps its type, for any bounds.
THEOREM TypeCorrect == Spec => []TypeOK
BY InitTyped, TypeStep, PTL DEF Spec

-----------------------------------------------------------------------------
(* "Operation ok" means done.                                              *)

\* The only command about the whitelist puts the service on it.
LEMMA LateStep == ASSUME TypeOK, LateWhitelists, [Next]_vars PROVE LateWhitelists'
<1> USE DEF LateWhitelists
<1>1. CASE LateRun
  BY <1>1 DEF LateRun
<1>2. ASSUME NEW c, NEW result, TryRunCli(c, result), c[1] = "whitelisted" => c[2]
      PROVE  LateWhitelists'
  BY <1>2 DEF TryRunCli
<1>3. ASSUME UNCHANGED late PROVE LateWhitelists'
  BY <1>3
<1>4. ASSUME NEW t \in Thread, EnsureAppWhitelisted(t) PROVE LateWhitelists'
  <2>1. PICK result \in BOOLEAN : TryRunCli(<<"whitelisted", TRUE>>, result)
    BY <1>4 DEF EnsureAppWhitelisted
  <2>2. QED BY <1>2, <2>1
<1>5. ASSUME NEW t \in Thread, SetDeviceHidden(t) PROVE LateWhitelists'
  <2>1. CASE UNCHANGED hidhideVars
    BY <1>3, <2>1 DEF hidhideVars
  <2>2. CASE ~UNCHANGED hidhideVars
    <3>1. PICK result \in BOOLEAN : TryRunCli(<<"hidden", enabled[t]>>, result)
      BY <1>5, <2>2 DEF SetDeviceHidden
    <3>2. QED BY <1>2, <3>1
  <2>3. QED BY <2>1, <2>2
<1>6. ASSUME NEW t \in Thread, SetCloakEnabled(t) PROVE LateWhitelists'
  <2>1. PICK result \in BOOLEAN : TryRunCli(<<"cloak", enabled[t]>>, result)
    BY <1>6 DEF SetCloakEnabled
  <2>2. QED BY <1>2, <2>1
<1>7. QED
  BY <1>1, <1>3, <1>4, <1>5, <1>6 DEF Next, Callback, Work, Requests, QueryServiceStatus,
     Begin, Finish, QueryStatus, SendHidHideStatus, RequestStatus, Toggle,
     SetControllerInterfacePath, ControllerConnected, vars, hidhideVars

\* The thread that works under the lock goes on with the value it put into the manager.
LEMMA HolderStep ==
    ASSUME TypeOK, TypeOK', HolderTold, [Next]_vars PROVE HolderTold'
<1> USE DEF HolderTold, TypeOK, Thread, Step, Locked, At, Goto
<1>1. ASSUME NEW t \in Thread, Work(t) PROVE HolderTold'
  BY <1>1 DEF Work, QueryServiceStatus, Begin, EnsureAppWhitelisted, SetDeviceHidden,
     SetCloakEnabled, Finish, QueryStatus, StoreEnabled, MutexFree, Return, InCallback, managerVars
<1>2. ASSUME NEW t \in Thread, Requests(t) PROVE HolderTold'
  BY <1>2 DEF Requests, RequestStatus, Toggle, managerVars
<1>3. CASE Callback
  BY <1>3 DEF Callback, SetControllerInterfacePath, ControllerConnected, MutexFree, managerVars
<1>4. ASSUME NEW t \in Thread, SendHidHideStatus(t) PROVE HolderTold'
  BY <1>4 DEF SendHidHideStatus, managerVars
<1>5. CASE LateRun \/ UNCHANGED vars
  BY <1>5 DEF LateRun, vars, managerVars, threadVars
<1>6. QED BY <1>1, <1>2, <1>3, <1>4, <1>5 DEF Next

\* A thread that does not work under the lock finds nothing done, and one that does
\* keeps its own value, its result and the lock: only its own commands reach HidHide.
LEMMA DoneStep ==
    ASSUME TypeOK, TypeOK', HolderTold, LateWhitelists, ~overtaken',
           ~overtaken => \A t \in Thread : Done(t),
           [Next]_vars
    PROVE  \A t \in Thread : Done(t)'
<1>1. CASE \E s \in Thread : Begin(s)
  <2>1. PICK s \in Thread : Begin(s)
    BY <1>1
  <2>2. \A t \in Thread : pc[t] \notin Locked
    BY <2>1 DEF Begin, MutexFree, TypeOK, Thread
  <2>3. \A t \in Thread : t # s => pc'[t] = pc[t]
    BY <2>1 DEF Begin, Goto, Return, TypeOK
  <2>4. pc'[s] \notin {"device", "cloak", "unlock"}
    BY <2>1 DEF Begin, Goto, Return, InCallback, TypeOK
  <2>5. QED BY <2>2, <2>3, <2>4 DEF Done, At, Locked
<1>2. ASSUME ~(\E s \in Thread : Begin(s)) PROVE ~overtaken
  BY <1>2 DEF Next, Callback, Work, Requests, QueryServiceStatus, EnsureAppWhitelisted,
     SetDeviceHidden, SetCloakEnabled, TryRunCli, Finish, QueryStatus, SendHidHideStatus,
     RequestStatus, Toggle, SetControllerInterfacePath, ControllerConnected, LateRun, vars,
     hidhideVars
<1> SUFFICES ASSUME ~(\E s \in Thread : Begin(s)), \A t \in Thread : Done(t)
             PROVE  \A t \in Thread : Done(t)'
  BY <1>1, <1>2
<1> USE DEF Done, TypeOK, Thread, Step, Locked, At, Goto
<1>3. ASSUME NEW s \in Thread, EnsureAppWhitelisted(s) PROVE \A t \in Thread : Done(t)'
  <2>1. PICK result \in BOOLEAN :
            /\ TryRunCli(<<"whitelisted", TRUE>>, result)
            /\ ok' = [ok EXCEPT ![s] = result]
    BY <1>3 DEF EnsureAppWhitelisted
  <2>2. result => world'.whitelisted
    BY <2>1 DEF TryRunCli, Told, World
  <2>3. QED BY <1>3, <2>1, <2>2 DEF EnsureAppWhitelisted
<1>4. ASSUME NEW s \in Thread, SetDeviceHidden(s) PROVE \A t \in Thread : Done(t)'
  <2>1. CASE ~instance_known_
    BY <1>4, <2>1 DEF SetDeviceHidden
  <2>2. CASE instance_known_
    <3>1. PICK result \in BOOLEAN :
              /\ TryRunCli(<<"hidden", enabled[s]>>, result)
              /\ device_hidden_' = IF result THEN enabled[s] ELSE device_hidden_
              /\ ok' = [ok EXCEPT ![s] = ok[s] /\ result]
      BY <1>4, <2>2 DEF SetDeviceHidden
    <3>2. result => world'.hidden = enabled[s] /\ world'.whitelisted = world.whitelisted
      BY <3>1 DEF TryRunCli, Told, World
    <3>3. QED BY <1>4, <3>1, <3>2 DEF SetDeviceHidden
  <2>3. QED BY <2>1, <2>2
<1>5. ASSUME NEW s \in Thread, SetCloakEnabled(s) PROVE \A t \in Thread : Done(t)'
  <2>1. PICK result \in BOOLEAN :
            /\ TryRunCli(<<"cloak", enabled[s]>>, result)
            /\ ok' = [ok EXCEPT ![s] = ok[s] /\ result]
    BY <1>5 DEF SetCloakEnabled, AllOk
  <2>2. result => /\ world'.cloak = enabled[s] /\ world'.hidden = world.hidden
                  /\ world'.whitelisted = world.whitelisted
    BY <2>1 DEF TryRunCli, Told, World
  <2>3. QED BY <1>5, <2>1, <2>2 DEF SetCloakEnabled, managerVars
<1>6. ASSUME NEW s \in Thread,
             QueryServiceStatus(s) \/ Finish(s) \/ QueryStatus(s) \/ SendHidHideStatus(s)
      PROVE  \A t \in Thread : Done(t)'
  <2>1. \A t \in Thread : t # s => UNCHANGED <<pc[t], ok[t], enabled[t]>>
    BY <1>6 DEF QueryServiceStatus, Finish, QueryStatus, SendHidHideStatus,
       Return, managerVars
  <2>2. UNCHANGED <<world, device_hidden_>>
    BY <1>6 DEF QueryServiceStatus, Finish, QueryStatus, SendHidHideStatus,
       managerVars, hidhideVars
  <2>3. pc'[s] \notin {"device", "cloak", "unlock"}
    BY <1>6 DEF QueryServiceStatus, Finish, QueryStatus, SendHidHideStatus,
       Return, InCallback
  <2>4. QED BY <2>1, <2>2, <2>3
<1>7. ASSUME NEW s \in Thread, Requests(s) PROVE \A t \in Thread : Done(t)'
  BY <1>7 DEF Requests, RequestStatus, Toggle, managerVars, hidhideVars
<1>8. CASE Callback
  BY <1>8 DEF Callback, SetControllerInterfacePath, ControllerConnected, managerVars,
     hidhideVars
<1>9. CASE LateRun
  <2>1. PICK c \in late :
            /\ \/ UNCHANGED <<world, overtaken>>
               \/ /\ world' = Told(world, c)
                  /\ overtaken' = (overtaken \/ (c[1] # "whitelisted" /\ c[2] # integration_enabled_))
            /\ UNCHANGED <<managerVars, threadVars>>
    BY <1>9 DEF LateRun
  <2>2. UNCHANGED <<pc, ok, enabled, device_hidden_>>
    BY <2>1 DEF managerVars, threadVars
  <2>3. CASE UNCHANGED world
    BY <2>2, <2>3
  <2>4. CASE world' = Told(world, c) /\ c[1] = "whitelisted"
    <3>1. /\ world'.whitelisted /\ world'.hidden = world.hidden
          /\ world'.cloak = world.cloak
      BY <2>4 DEF Told, World, LateWhitelists
    <3>2. QED BY <2>2, <3>1
  <2>5. CASE world' = Told(world, c) /\ c[1] # "whitelisted" /\ ~UNCHANGED world
    <3>1. c[2] = integration_enabled_
      BY <2>1, <2>5
    <3>2. /\ world'.whitelisted = world.whitelisted
          /\ world'.hidden \in {world.hidden, integration_enabled_}
          /\ world'.cloak \in {world.cloak, integration_enabled_}
      BY <2>5, <3>1 DEF Told, World, Command
    <3>3. QED BY <2>2, <3>2 DEF HolderTold
  <2>6. QED BY <2>1, <2>3, <2>4, <2>5
<1>10. CASE UNCHANGED vars
  BY <1>10 DEF vars, managerVars, threadVars, hidhideVars
<1>11. QED BY <1>3, <1>4, <1>5, <1>6, <1>7, <1>8, <1>9, <1>10 DEF Next, Work

\* The manager says "ok" when it lets go of the lock, and what it then says stays true
\* until another thread takes it.
LEMMA OkStep ==
    ASSUME IInv, TypeOK', [Next]_vars
    PROVE  OkMeansDone'
<1> SUFFICES ASSUME mutex_' = "nobody", operation_ok_', ~overtaken'
             PROVE  /\ world' = [whitelisted |-> TRUE, hidden |-> integration_enabled_',
                                 cloak |-> integration_enabled_']
                    /\ device_hidden_' = integration_enabled_'
  BY DEF OkMeansDone
<1>1. ASSUME NEW t \in Thread, Begin(t) PROVE FALSE
  BY <1>1 DEF Begin
<1>2. ASSUME NEW t \in Thread, Finish(t) PROVE
        /\ world' = [whitelisted |-> TRUE, hidden |-> integration_enabled_',
                     cloak |-> integration_enabled_']
        /\ device_hidden_' = integration_enabled_'
  <2>1. /\ At(t, "unlock") /\ ok[t]
        /\ UNCHANGED <<world, integration_enabled_, device_hidden_, overtaken>>
    BY <1>2 DEF Finish, hidhideVars
  <2>2. Done(t)
    BY <2>1 DEF IInv
  <2>3. /\ world.whitelisted /\ world.hidden = enabled[t] /\ world.cloak = enabled[t]
        /\ device_hidden_ = enabled[t]
    BY <2>1, <2>2 DEF Done
  <2>4. integration_enabled_ = enabled[t]
    BY <2>1 DEF IInv, HolderTold, At, Locked
  <2>5. world = [whitelisted |-> world.whitelisted, hidden |-> world.hidden,
                 cloak |-> world.cloak] /\ world.whitelisted \in BOOLEAN
    BY DEF IInv, TypeOK, World
  <2>6. QED BY <2>1, <2>3, <2>4, <2>5
<1>3. ASSUME NEW t \in Thread,
             EnsureAppWhitelisted(t) \/ SetDeviceHidden(t) \/ SetCloakEnabled(t)
      PROVE  FALSE
  BY <1>3 DEF IInv, TypeOK, Thread, At, Locked, EnsureAppWhitelisted, SetDeviceHidden,
     SetCloakEnabled, managerVars
<1>4. CASE UNCHANGED <<mutex_, operation_ok_, integration_enabled_, device_hidden_, world,
                       overtaken>>
  BY <1>4 DEF IInv, OkMeansDone
<1>5. CASE LateRun
  <2>1. PICK c \in late :
            /\ \/ UNCHANGED <<world, overtaken>>
               \/ /\ world' = Told(world, c)
                  /\ overtaken' = (overtaken \/ (c[1] # "whitelisted" /\ c[2] # integration_enabled_))
            /\ UNCHANGED <<mutex_, managerVars>>
    BY <1>5 DEF LateRun
  <2>2. UNCHANGED <<mutex_, operation_ok_, integration_enabled_, device_hidden_>>
    BY <2>1 DEF managerVars
  <2>3. CASE UNCHANGED <<world, overtaken>>
    BY <1>4, <2>2, <2>3
  <2>4. CASE /\ world' = Told(world, c) /\ ~overtaken
             /\ c[1] = "whitelisted" \/ c[2] = integration_enabled_
    <3>1. /\ world = [whitelisted |-> TRUE, hidden |-> integration_enabled_,
                      cloak |-> integration_enabled_]
          /\ device_hidden_ = integration_enabled_
      BY <2>2, <2>4 DEF IInv, OkMeansDone
    <3>2. /\ c[1] \in {"whitelisted", "hidden", "cloak"} /\ c[2] \in BOOLEAN
          /\ c[1] = "whitelisted" => c[2]
          /\ integration_enabled_ \in BOOLEAN
      BY <2>1 DEF IInv, TypeOK, LateWhitelists, Command
    <3>3. Told(world, c) = world
      <4>1. CASE c[1] = "whitelisted"
        <5>1. Told(world, c) = [world EXCEPT !["whitelisted"] = TRUE]
          BY <3>2, <4>1 DEF Told
        <5>2. QED BY <3>1, <5>1
      <4>2. CASE c[1] = "hidden"
        <5>1. Told(world, c) = [world EXCEPT !["hidden"] = integration_enabled_]
          BY <2>4, <4>2 DEF Told
        <5>2. QED BY <3>1, <5>1
      <4>3. CASE c[1] = "cloak"
        <5>1. Told(world, c) = [world EXCEPT !["cloak"] = integration_enabled_]
          BY <2>4, <4>3 DEF Told
        <5>2. QED BY <3>1, <5>1
      <4>4. QED BY <3>2, <4>1, <4>2, <4>3
    <3>4. QED BY <2>2, <2>4, <3>1, <3>3
  <2>5. QED BY <2>1, <2>3, <2>4
<1>6. QED
  BY <1>1, <1>2, <1>3, <1>4, <1>5 DEF Next, Callback, Work, Requests, QueryServiceStatus,
     QueryStatus, SendHidHideStatus, RequestStatus, Toggle, SetControllerInterfacePath,
     ControllerConnected, vars, managerVars, hidhideVars

\* IInv is inductive.
LEMMA IInvStep == IInv /\ [Next]_vars => IInv'
<1>1. SUFFICES ASSUME IInv, [Next]_vars PROVE IInv'
  OBVIOUS
<1>2. TypeOK'
  BY <1>1, TypeStep DEF IInv
<1>3. LateWhitelists'
  BY <1>1, LateStep DEF IInv
<1>4. HolderTold'
  BY <1>1, <1>2, HolderStep DEF IInv
<1>5. (~overtaken => \A t \in Thread : Done(t))'
  BY <1>1, <1>2, DoneStep DEF IInv
<1>6. OkMeansDone'
  BY <1>1, <1>2, OkStep
<1>7. QED BY <1>2, <1>3, <1>4, <1>5, <1>6 DEF IInv

\* "Operation ok" is true of HidHide itself, whatever two threads do, however often, and
\* whatever is given up, until a late run tells HidHide the opposite (HidHideManager::SetIntegrationEnabled, hidhide_manager.cpp).
THEOREM OkMeansDoneCorrect == Spec => []OkMeansDone
<1>1. ASSUME Init PROVE IInv
  <2>1. TypeOK
    BY <1>1, InitTyped
  <2>2. QED
    BY <1>1, <2>1 DEF Init, IInv, HolderTold, LateWhitelists, Done, At, OkMeansDone, Thread,
       Locked
<1>2. IInv => OkMeansDone
  BY DEF IInv
<1>3. QED BY <1>1, <1>2, IInvStep, PTL DEF Spec

-----------------------------------------------------------------------------
(* What the UI shows.                                                      *)

\* As long as no opposite toggles overlapped, whoever is on the way to the manager
\* brings it the value of the flag.
FlagInv ==
    ~raced =>
        /\ \A t \in Thread : OnItsWay(t) => enabled[t] = hidhide_integration_enabled
        /\ (\A t \in Thread : ~OnItsWay(t)) =>
                hidhide_integration_enabled = integration_enabled_

\* FlagInv is inductive: a toggle is the only step that changes the flag, and Begin the
\* only one that changes the manager's value.
LEMMA FlagStep ==
    ASSUME TypeOK, TypeOK', FlagInv, [Next]_vars PROVE FlagInv'
<1> USE DEF FlagInv, TypeOK, Thread, Step, OnItsWay, At, Goto
<1>1. ASSUME NEW t \in Thread, NEW value \in BOOLEAN, Toggle(t, value) PROVE FlagInv'
  <2>1. SUFFICES ASSUME ~raced' PROVE FlagInv'
    OBVIOUS
  <2>2. ~raced /\ \A u \in Thread : OnItsWay(u) => enabled[u] = value
    BY <1>1, <2>1 DEF Toggle
  <2>3. hidhide_integration_enabled' = value /\ enabled' = [enabled EXCEPT ![t] = value]
    BY <1>1 DEF Toggle
  <2>4. pc' = [pc EXCEPT ![t] = "query"]
    BY <1>1 DEF Toggle
  <2>5. QED BY <2>2, <2>3, <2>4
<1>2. ASSUME NEW t \in Thread, Begin(t) PROVE FlagInv'
  <2>1. integration_enabled_' = enabled[t] /\ OnItsWay(t)
        /\ UNCHANGED <<raced, enabled, hidhide_integration_enabled>>
    BY <1>2 DEF Begin, StoreEnabled
  <2>2. \A u \in Thread : u # t => pc'[u] = pc[u]
    BY <1>2 DEF Begin, Return
  <2>3. QED BY <2>1, <2>2
<1>3. ASSUME NEW t \in Thread, QueryServiceStatus(t) PROVE FlagInv'
  BY <1>3 DEF QueryServiceStatus, managerVars
<1>4. ASSUME NEW t \in Thread,
             EnsureAppWhitelisted(t) \/ SetDeviceHidden(t) \/ SetCloakEnabled(t)
                \/ Finish(t) \/ QueryStatus(t) \/ SendHidHideStatus(t) \/ RequestStatus(t)
      PROVE  FlagInv'
  <2>1. UNCHANGED <<raced, enabled, hidhide_integration_enabled, integration_enabled_>>
    BY <1>4 DEF EnsureAppWhitelisted, SetDeviceHidden, SetCloakEnabled, Finish, QueryStatus,
       SendHidHideStatus, RequestStatus, managerVars
  <2>2. ~OnItsWay(t) /\ ~OnItsWay(t)' /\ \A u \in Thread : u # t => pc'[u] = pc[u]
    BY <1>4 DEF EnsureAppWhitelisted, SetDeviceHidden, SetCloakEnabled, Finish, QueryStatus,
       SendHidHideStatus, RequestStatus, Return, InCallback
  <2>3. QED BY <2>1, <2>2
<1>5. CASE SetControllerInterfacePath
  BY <1>5 DEF SetControllerInterfacePath
<1>6. CASE ControllerConnected
  <2>1. CASE hidhide_integration_enabled
    BY <1>6, <2>1 DEF ControllerConnected, managerVars
  <2>2. CASE ~hidhide_integration_enabled
    BY <1>6, <2>2 DEF ControllerConnected, managerVars
  <2>3. QED BY <2>1, <2>2
<1>7. CASE LateRun \/ UNCHANGED vars
  BY <1>7 DEF LateRun, vars, managerVars, threadVars
<1>8. QED
  BY <1>1, <1>2, <1>3, <1>4, <1>5, <1>6, <1>7 DEF Next, Callback, Work, Requests

\* The UI is shown what the manager was last told, unless opposite toggles of the UI and
\* the console overlapped, for any number of toggles.
THEOREM FlagIsResultCorrect == Spec => []FlagIsResult
<1>1. Init => FlagInv
  BY DEF Init, FlagInv, OnItsWay, Thread
<1>2. FlagInv => FlagIsResult
  BY DEF FlagInv, FlagIsResult
<1>3. TypeOK /\ TypeOK' /\ FlagInv /\ [Next]_vars => FlagInv'
  BY FlagStep
<1>4. QED BY <1>1, <1>2, <1>3, TypeCorrect, PTL DEF Spec
=============================================================================
