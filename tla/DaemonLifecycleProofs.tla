----------------------- MODULE DaemonLifecycleProofs -----------------------
(***************************************************************************)
(* What holds of the daemon's life for any number of crashes, failures and *)
(* updates.                                                                *)
(***************************************************************************)
EXTENDS DaemonLifecycle, TLAPS

\* The types of the daemon's state (proxy_runner.go, dns_activation.go,
\* auto_update.go).
THEOREM TypeCorrect == Spec => []TypeOK
<1>1. Init => TypeOK
  <2>1. 0 \in 0 .. MaxMishaps
    BY MishapsAssumption
  <2> QED BY <2>1 DEF Init, TypeOK
<1>2. TypeOK /\ [Next]_vars => TypeOK'
  <2> SUFFICES ASSUME TypeOK, [Next]_vars PROVE TypeOK'
    OBVIOUS
  <2> USE DEF TypeOK, NoProcess, daemonVars
  <2>1. CASE Manager
    BY <2>1 DEF Manager, Launch, StartFails, StartReturns, Stop, StopReturns
  <2>2. CASE Serving \/ DnsHook \/ WatchHook
    BY <2>2 DEF Serving, ListenerEnds, Join, DnsHook, DnsHookStarts, DnsHookSkips,
                Activate, WatchEnds, Restore, WatchHook
  <2>3. ASSUME NEW kind, Mishap(kind) PROVE mishaps' \in 0 .. MaxMishaps
    BY <2>3, MishapsAssumption DEF Mishap
  <2>4. CASE Updater
    BY <2>3, <2>4 DEF Updater, UpdaterEnds, NoUpdate, Updated, Relaunch
  <2>5. CASE Command
    BY <2>5 DEF Command, CommandChecks, CommandActivates, CommandStopped, CommandRestores
  <2>6. CASE Crash \/ ListenerFails
    BY <2>3, <2>6 DEF Crash, ListenerFails
  <2>7. CASE ManagerStop \/ Reactivate \/ UpdateDue \/ CommandStart \/ CommandStop
    BY <2>7 DEF ManagerStop, Reactivate, UpdateDue, CommandStart, CommandStop
  <2>8. CASE UNCHANGED vars
    BY <2>8 DEF vars
  <2> QED BY <2>1, <2>2, <2>4, <2>5, <2>6, <2>7, <2>8 DEF Next
<1> QED BY <1>1, <1>2, PTL DEF Spec

\* Unless the command line sets DNS at the same time, the runner has restored
\* what its hook activated when Stop returns, however crashes, failing listeners,
\* network changes and updates interleave with it, in every scenario
\* (proxy_runner.go 29-50, 72-81, dns_activation.go 30-41).
THEOREM StopJoinsRestore == Spec => []RestoredBeforeStopped
<1>1. Init => RestoredInv
  BY DEF Init, RestoredInv, HookOwnsDNS, RestoredBeforeStopped
<1>2. RestoredInv /\ [Next]_vars => RestoredInv'
  <2> SUFFICES ASSUME RestoredInv, [Next]_vars PROVE RestoredInv'
    OBVIOUS
  <2> USE DEF RestoredInv, HookOwnsDNS, RestoredBeforeStopped, NoProcess, daemonVars
  <2>1. CASE Manager
    BY <2>1 DEF Manager, Launch, StartFails, StartReturns, Stop, StopReturns
  <2>2. CASE Serving \/ WatchHook
    BY <2>2 DEF Serving, ListenerEnds, Join, WatchHook
  <2>3. CASE DnsHook
    BY <2>3 DEF DnsHook, DnsHookStarts, DnsHookSkips, Activate, WatchEnds, Restore
  <2>4. CASE Updater
    BY <2>4 DEF Updater, UpdaterEnds, NoUpdate, Updated, Relaunch
  <2>5. CASE Crash \/ ListenerFails
    BY <2>5 DEF Crash, ListenerFails
  <2>6. CASE ManagerStop \/ Reactivate \/ UpdateDue
    BY <2>6 DEF ManagerStop, Reactivate, UpdateDue
  <2>7. CASE Command \/ CommandStart \/ CommandStop
    BY <2>7 DEF Command, CommandChecks, CommandActivates, CommandStopped,
                CommandRestores, CommandStart, CommandStop
  <2>8. CASE UNCHANGED vars
    BY <2>8 DEF vars
  <2> QED BY <2>1, <2>2, <2>3, <2>4, <2>5, <2>6, <2>7, <2>8 DEF Next
<1>3. RestoredInv => RestoredBeforeStopped
  BY DEF RestoredInv
<1> QED BY <1>1, <1>2, <1>3, PTL DEF Spec
-----------------------------------------------------------------------------
(* Outages.                                                                *)

\* A listener that may fail late comes with neither crashes nor commands: a
\* process that goes on without a proxy is not replaced.
Sheltered ==
  \A s \in Scenarios : \/ s \subseteq {"crash", "earlyFailure", "update", "commandLine"}
                       \/ s \subseteq {"earlyFailure", "lateFailure", "managerStop"}

\* What the goroutines of a process know of each other.
Process ==
  /\ proc = "down" <=> serve = "none"
  /\ serve = "none" => dnsHook = "none"
  /\ ready <=> proc \in {"running", "stopping"}
  /\ serve \in {"joining", "stopped"} => cancelled
  /\ serve = "stopped" => dnsHook \in {"done", "skipped"}

\* Where listeners do not fail late, only a stop command takes the proxy away for
\* good, and it restores DNS.
WhileCommanded ==
  /\ proc = "running" => serve = "serving" /\ ~cancelled
  /\ proc = "starting" /\ serve = "serving" => ~cancelled
  /\ proc = "stopping" => cli = "stopping"
  /\ cli = "checked" => wanted
  /\ cli = "stopping" => ~wanted
  /\ ~wanted => cli = "stopping" \/ (proc = "down" /\ (cli = "restoring" \/ dns = "default"))

\* Where the process ends only as it should, its hook follows what it set.
WhileManaged ==
  /\ cli = "idle" /\ updater \notin {"applying", "exit"}
  /\ dns = "loopback" => dnsHook \in {"watching", "restore"}

OutInv ==
  /\ Process
  /\ may \subseteq {"crash", "earlyFailure", "update", "commandLine"} => WhileCommanded
  /\ may \subseteq {"earlyFailure", "lateFailure", "managerStop"} => WhileManaged

\* A scenario does not change.
LEMMA MayStays == [Next]_vars => UNCHANGED may
BY DEF Next, vars, Manager, Launch, StartFails, StartReturns, Stop, StopReturns, Serving,
       ListenerEnds, Join, DnsHook, DnsHookStarts, DnsHookSkips, Activate, WatchEnds,
       Restore, WatchHook, Updater, UpdaterEnds, NoUpdate, Updated, Relaunch, Command,
       CommandChecks, CommandActivates, CommandStopped, CommandRestores, Crash,
       ManagerStop, ListenerFails, Reactivate, UpdateDue, CommandStart, CommandStop

\* The goroutines of a process follow each other in every scenario.
LEMMA ProcessStep == TypeOK /\ Process /\ [Next]_vars => Process'
<1> SUFFICES ASSUME TypeOK, Process, [Next]_vars PROVE Process'
  OBVIOUS
<1> USE DEF Process, TypeOK, NoProcess, daemonVars
<1>1. CASE Manager
  BY <1>1 DEF Manager, Launch, StartFails, StartReturns, Stop, StopReturns
<1>2. CASE Serving \/ WatchHook
  BY <1>2 DEF Serving, ListenerEnds, Join, WatchHook
<1>3. CASE DnsHook
  BY <1>3 DEF DnsHook, DnsHookStarts, DnsHookSkips, Activate, WatchEnds, Restore
<1>4. CASE Updater
  BY <1>4 DEF Updater, UpdaterEnds, NoUpdate, Updated, Relaunch
<1>5. CASE Crash \/ ListenerFails
  BY <1>5 DEF Crash, ListenerFails
<1>6. CASE ManagerStop \/ Reactivate \/ UpdateDue
  BY <1>6 DEF ManagerStop, Reactivate, UpdateDue
<1>7. CASE Command \/ CommandStart \/ CommandStop
  <2>1. UNCHANGED <<proc, cancelled, serve, ready, dnsHook>>
    BY <1>7 DEF Command, CommandChecks, CommandActivates, CommandStopped,
                CommandRestores, CommandStart, CommandStop
  <2> QED BY <2>1
<1>8. CASE UNCHANGED vars
  BY <1>8 DEF vars
<1> QED BY <1>1, <1>2, <1>3, <1>4, <1>5, <1>6, <1>7, <1>8 DEF Next

\* Commands, crashes, updates and listeners that fail early.
LEMMA CommandedStep ==
  ASSUME TypeOK, Process, WhileCommanded, [Next]_vars,
         may \subseteq {"crash", "earlyFailure", "update", "commandLine"}
  PROVE  WhileCommanded'
<1> USE DEF Process, WhileCommanded, TypeOK, NoProcess, daemonVars
<1>0. "lateFailure" \notin may /\ "managerStop" \notin may
  OBVIOUS
<1>1. CASE Manager
  <2>1. CASE Launch \/ StartFails
    BY <2>1 DEF Launch, StartFails
  <2>2. CASE StartReturns
    BY <1>0, <2>2 DEF StartReturns
  <2>3. CASE Stop
    BY <2>3 DEF Stop
  <2>4. CASE StopReturns
    BY <2>4 DEF StopReturns
  <2> QED BY <1>1, <2>1, <2>2, <2>3, <2>4 DEF Manager
<1>2. CASE Serving \/ WatchHook
  BY <1>2 DEF Serving, ListenerEnds, Join, WatchHook
<1>3. CASE DnsHook
  BY <1>3 DEF DnsHook, DnsHookStarts, DnsHookSkips, Activate, WatchEnds, Restore
<1>4. CASE Updater
  BY <1>4 DEF Updater, UpdaterEnds, NoUpdate, Updated, Relaunch
<1>5. CASE Crash
  BY <1>5 DEF Crash
<1>6. CASE ListenerFails
  <2>1. ~ready
    BY <1>0, <1>6 DEF ListenerFails, Mishap
  <2> QED BY <1>6, <2>1 DEF ListenerFails
<1>7. CASE ManagerStop \/ Reactivate \/ UpdateDue
  BY <1>0, <1>7 DEF ManagerStop, Reactivate, UpdateDue
<1>8. CASE Command
  BY <1>8 DEF Command, CommandChecks, CommandActivates, CommandStopped, CommandRestores
<1>9. CASE CommandStart \/ CommandStop
  <2>1. CASE CommandStart
    <3>1. cli = "idle" /\ cli' = "started" /\ UNCHANGED <<proc, cancelled, serve, dns>>
      BY <2>1 DEF CommandStart
    <3>2. wanted' = TRUE \/ wanted' = wanted
      BY <2>1 DEF CommandStart
    <3>3. CASE wanted' = TRUE
      BY <3>1, <3>3
    <3>4. CASE wanted' = wanted
      BY <3>1, <3>4
    <3> QED BY <3>2, <3>3, <3>4
  <2>2. CASE CommandStop
    BY <2>2 DEF CommandStop
  <2> QED BY <1>9, <2>1, <2>2
<1>10. CASE UNCHANGED vars
  BY <1>10 DEF vars
<1> QED BY <1>1, <1>2, <1>3, <1>4, <1>5, <1>6, <1>7, <1>8, <1>9, <1>10 DEF Next

\* Stops by the service manager and listeners that fail at any time.
LEMMA ManagedStep ==
  ASSUME TypeOK, Process, WhileManaged, [Next]_vars,
         may \subseteq {"earlyFailure", "lateFailure", "managerStop"}
  PROVE  WhileManaged'
<1> USE DEF Process, WhileManaged, TypeOK, NoProcess, daemonVars
<1>0. "crash" \notin may /\ "update" \notin may /\ "commandLine" \notin may
  OBVIOUS
<1>1. CASE Manager
  <2>1. CASE Launch
    BY <2>1 DEF Launch
  <2>2. CASE StartFails \/ StopReturns
    <3>1. dns = "default"
      BY <2>2 DEF StartFails, StopReturns
    <3> QED BY <2>2, <3>1 DEF StartFails, StopReturns
  <2>3. CASE StartReturns \/ Stop
    BY <2>3 DEF StartReturns, Stop
  <2> QED BY <1>1, <2>1, <2>2, <2>3 DEF Manager
<1>2. CASE Serving \/ WatchHook
  BY <1>2 DEF Serving, ListenerEnds, Join, WatchHook
<1>3. CASE DnsHook
  BY <1>3 DEF DnsHook, DnsHookStarts, DnsHookSkips, Activate, WatchEnds, Restore
<1>4. CASE Updater
  BY <1>4 DEF Updater, UpdaterEnds, NoUpdate, Updated, Relaunch
<1>5. CASE Crash \/ CommandStart \/ CommandStop \/ UpdateDue
  BY <1>0, <1>5 DEF Crash, Mishap, CommandStart, CommandStop, UpdateDue
<1>6. CASE Command
  BY <1>6 DEF Command, CommandChecks, CommandActivates, CommandStopped, CommandRestores
<1>7. CASE ManagerStop \/ Reactivate \/ ListenerFails
  BY <1>7 DEF ManagerStop, Reactivate, ListenerFails
<1>8. CASE UNCHANGED vars
  BY <1>8 DEF vars
<1> QED BY <1>1, <1>2, <1>3, <1>4, <1>5, <1>6, <1>7, <1>8 DEF Next

\* For any number of crashes, failures and updates, whenever the system asks a
\* proxy that is not there, something is due that ends it: a launch, the end of a
\* Start that failed, the hook's restore or that of a stop command
\* (proxy_runner.go 33-81, dns_activation.go 30-41, control.go 81-85). Without
\* Sheltered it is false: a listener that fails late, after a crash and before its
\* hook began, leaves a process that nobody replaces.
THEOREM NoLastingOutage ==
  ASSUME Sheltered PROVE Spec => []OutageIsMended
<1>1. Init => OutInv
  BY DEF Init, OutInv, Process, WhileCommanded, WhileManaged
<1>2. TypeOK /\ OutInv /\ [Next]_vars => OutInv'
  BY MayStays, ProcessStep, CommandedStep, ManagedStep DEF OutInv
<1>3. TypeOK /\ OutInv => OutageIsMended
  <2> SUFFICES ASSUME TypeOK, OutInv, ~Available PROVE OutageIsMended
    BY DEF OutageIsMended
  <2>1. dns = "loopback" /\ serve # "serving"
    BY DEF TypeOK, Available
  <2>2. WhileCommanded \/ WhileManaged
    BY DEF OutInv, TypeOK, Sheltered
  <2>3. CASE WhileCommanded
    BY <2>1, <2>3 DEF WhileCommanded, OutInv, Process, OutageIsMended, TypeOK
  <2>4. CASE WhileManaged
    BY <2>1, <2>4 DEF WhileManaged, OutInv, Process, OutageIsMended, TypeOK
  <2> QED BY <2>2, <2>3, <2>4
<1> QED BY TypeCorrect, <1>1, <1>2, <1>3, PTL DEF Spec
=============================================================================
