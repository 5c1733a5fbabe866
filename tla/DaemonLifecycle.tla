--------------------------- MODULE DaemonLifecycle ---------------------------
(***************************************************************************)
(* The daemon's process and the system DNS setting: the proxy runner       *)
(* (internal/runtime/proxy_runner.go), the ready hook that points system   *)
(* DNS at the proxy and restores it (dns_activation.go), the updater that  *)
(* ends the process (auto_update.go), the service manager that launches    *)
(* and stops it, and the start and stop commands of the command line       *)
(* (internal/service/control.go).                                          *)
(***************************************************************************)
EXTENDS Naturals

CONSTANTS
  Scenarios,    \* the sets of events that may happen together
  MaxMishaps    \* bound: crashes, listener failures and updates

Events == {"crash", "earlyFailure", "lateFailure", "update", "commandLine",
           "managerStop"}

ASSUME ScenariosAssumption == Scenarios \subseteq SUBSET Events
ASSUME MishapsAssumption == MaxMishaps \in Nat

VARIABLES
  may,         \* the events of this scenario; it does not change
  wanted,      \* the service manager wants the daemon to run
  proc,        \* the process: down, in Start, running, in Stop
  cancelled,   \* the context of the runner is done
  serve,       \* the goroutine that listens, then joins the ready hooks
  ready,       \* the channel ready is closed
  dnsHook,     \* manageSystemDNS; "skipped" when its body never ran
  watchHook,   \* the other ready hook, mgr.watch
  updater,     \* watchUpdates
  dns,         \* what the system resolves with
  cli,         \* the start or stop command
  mishaps

daemonVars == <<cancelled, serve, ready, dnsHook, watchHook, updater>>
vars == <<may, wanted, proc, cancelled, serve, ready, dnsHook, watchHook, updater,
          dns, cli, mishaps>>

TypeOK ==
  /\ may \in Scenarios
  /\ wanted \in BOOLEAN
  /\ proc \in {"down", "starting", "running", "stopping"}
  /\ cancelled \in BOOLEAN
  /\ serve \in {"none", "serving", "joining", "stopped"}
  /\ ready \in BOOLEAN
  /\ dnsHook \in {"none", "waiting", "activate", "watching", "restore", "done", "skipped"}
  /\ watchHook \in {"none", "waiting", "watching", "done"}
  /\ updater \in {"none", "waiting", "applying", "exit", "done"}
  /\ dns \in {"default", "loopback"}
  /\ cli \in {"idle", "started", "checked", "stopping", "restoring"}
  /\ mishaps \in 0 .. MaxMishaps

NoProcess ==
  /\ cancelled' = FALSE /\ serve' = "none" /\ ready' = FALSE
  /\ dnsHook' = "none" /\ watchHook' = "none" /\ updater' = "none"

Init ==
  /\ may \in Scenarios
  /\ wanted = TRUE /\ proc = "down" /\ dns = "default" /\ cli = "idle"
  /\ cancelled = FALSE /\ serve = "none" /\ ready = FALSE
  /\ dnsHook = "none" /\ watchHook = "none" /\ updater = "none"
  /\ mishaps = 0

Mishap(kind) ==
  /\ kind \in may
  /\ mishaps < MaxMishaps
  /\ mishaps' = mishaps + 1

-----------------------------------------------------------------------------
(* The service manager and the process.                                    *)

\* Start spawns the init hook, the ready hooks and the serving goroutine.
Launch ==
  /\ wanted /\ proc = "down"
  /\ proc' = "starting"
  /\ cancelled' = FALSE /\ serve' = "serving" /\ ready' = FALSE
  /\ dnsHook' = "waiting" /\ watchHook' = "waiting" /\ updater' = "waiting"
  /\ UNCHANGED <<may, wanted, dns, cli, mishaps>>

\* Start's select: the listener stopped, its error ends the process ...
StartFails ==
  /\ proc = "starting" /\ serve = "stopped"
  /\ proc' = "down"
  /\ NoProcess
  /\ UNCHANGED <<may, wanted, dns, cli, mishaps>>

\* ... or five seconds are over. A listener that fails just as they end may go
\* unnoticed, which counts as a late failure.
StartReturns ==
  /\ proc = "starting"
  /\ serve = "serving" \/ "lateFailure" \in may
  /\ proc' = "running"
  /\ ready' = TRUE
  /\ UNCHANGED <<may, wanted, cancelled, serve, dnsHook, watchHook, updater, dns, cli, mishaps>>

\* The manager's signal makes the service library call Stop.
Stop ==
  /\ proc = "running" /\ ~wanted
  /\ proc' = "stopping"
  /\ cancelled' = TRUE
  /\ UNCHANGED <<may, wanted, serve, ready, dnsHook, watchHook, updater, dns, cli, mishaps>>

StopReturns ==
  /\ proc = "stopping" /\ serve = "stopped"
  /\ proc' = "down"
  /\ NoProcess
  /\ UNCHANGED <<may, wanted, dns, cli, mishaps>>

Crash ==
  /\ Mishap("crash")
  /\ proc # "down"
  /\ proc' = "down"
  /\ NoProcess
  /\ UNCHANGED <<may, wanted, dns, cli>>

\* Stopped by hand or with the machine, without the command line.
ManagerStop ==
  /\ "managerStop" \in may
  /\ wanted
  /\ wanted' = FALSE
  /\ UNCHANGED <<may, proc, daemonVars, dns, cli, mishaps>>

-----------------------------------------------------------------------------
(* The serving goroutine.                                                  *)

\* Mutant: the context is not cancelled when the listener stops by itself.
ListenerFailsQuietly ==
  /\ serve = "serving"
  /\ Mishap(IF ready THEN "lateFailure" ELSE "earlyFailure")
  /\ serve' = "joining"
  /\ UNCHANGED <<may, wanted, proc, cancelled, ready, dnsHook, watchHook, updater, dns, cli>>

ListenerFails ==
  /\ serve = "serving"
  /\ Mishap(IF ready THEN "lateFailure" ELSE "earlyFailure")
  /\ serve' = "joining"
  /\ cancelled' = TRUE
  /\ UNCHANGED <<may, wanted, proc, ready, dnsHook, watchHook, updater, dns, cli>>

ListenerEnds ==
  /\ serve = "serving" /\ cancelled
  /\ serve' = "joining"
  /\ UNCHANGED <<may, wanted, proc, cancelled, ready, dnsHook, watchHook, updater, dns, cli, mishaps>>

\* Mutant: the hooks are not waited for.
JoinNothing ==
  /\ serve = "joining"
  /\ serve' = "stopped"
  /\ UNCHANGED <<may, wanted, proc, cancelled, ready, dnsHook, watchHook, updater, dns, cli, mishaps>>

\* hooks.Wait, then close(p.stopped).
Join ==
  /\ serve = "joining"
  /\ dnsHook \in {"done", "skipped"} /\ watchHook = "done"
  /\ serve' = "stopped"
  /\ UNCHANGED <<may, wanted, proc, cancelled, ready, dnsHook, watchHook, updater, dns, cli, mishaps>>

-----------------------------------------------------------------------------
(* The ready hooks. The context is looked at once more before the body.    *)

DnsHookStarts ==
  /\ dnsHook = "waiting" /\ ready /\ ~cancelled
  /\ dnsHook' = "activate"
  /\ UNCHANGED <<may, wanted, proc, cancelled, serve, ready, watchHook, updater, dns, cli, mishaps>>

DnsHookSkips ==
  /\ dnsHook = "waiting" /\ cancelled
  /\ dnsHook' = "skipped"
  /\ UNCHANGED <<may, wanted, proc, cancelled, serve, ready, watchHook, updater, dns, cli, mishaps>>

\* Best effort: a failure is logged.
Activate ==
  /\ dnsHook = "activate"
  /\ dnsHook' = "watching"
  /\ dns' \in {"loopback", dns}
  /\ UNCHANGED <<may, wanted, proc, cancelled, serve, ready, watchHook, updater, cli, mishaps>>

\* A network change is handled even if the context is done as well.
Reactivate ==
  /\ dnsHook = "watching"
  /\ dns' \in {"loopback", dns}
  /\ UNCHANGED <<may, wanted, proc, daemonVars, cli, mishaps>>

\* Mutant: the restore is not deferred.
WatchEndsOnly ==
  /\ dnsHook = "watching" /\ cancelled
  /\ dnsHook' = "done"
  /\ UNCHANGED <<may, wanted, proc, cancelled, serve, ready, watchHook, updater, dns, cli, mishaps>>

WatchEnds ==
  /\ dnsHook = "watching" /\ cancelled
  /\ dnsHook' = "restore"
  /\ UNCHANGED <<may, wanted, proc, cancelled, serve, ready, watchHook, updater, dns, cli, mishaps>>

\* Best effort as well; that the platform's restore works is assumed here.
Restore ==
  /\ dnsHook = "restore"
  /\ dnsHook' = "done"
  /\ dns' = "default"
  /\ UNCHANGED <<may, wanted, proc, cancelled, serve, ready, watchHook, updater, cli, mishaps>>

WatchHook ==
  /\ \/ watchHook = "waiting" /\ ready /\ ~cancelled /\ watchHook' = "watching"
     \/ watchHook \in {"waiting", "watching"} /\ cancelled /\ watchHook' = "done"
  /\ UNCHANGED <<may, wanted, proc, cancelled, serve, ready, dnsHook, updater, dns, cli, mishaps>>

-----------------------------------------------------------------------------
(* The updater, an init hook: cancelled, but not joined.                   *)

\* The first check is due minutes after the five seconds of Start.
UpdateDue ==
  /\ "update" \in may
  /\ updater = "waiting" /\ proc # "starting"
  /\ updater' = "applying"
  /\ UNCHANGED <<may, wanted, proc, cancelled, serve, ready, dnsHook, watchHook, dns, cli, mishaps>>

UpdaterEnds ==
  /\ updater = "waiting" /\ cancelled
  /\ updater' = "done"
  /\ UNCHANGED <<may, wanted, proc, cancelled, serve, ready, dnsHook, watchHook, dns, cli, mishaps>>

\* Apply does not look at the context.
NoUpdate ==
  /\ updater = "applying"
  /\ updater' = "waiting"
  /\ UNCHANGED <<may, wanted, proc, cancelled, serve, ready, dnsHook, watchHook, dns, cli, mishaps>>

Updated ==
  /\ updater = "applying"
  /\ Mishap("update")
  /\ updater' = "exit"
  /\ UNCHANGED <<may, wanted, proc, cancelled, serve, ready, dnsHook, watchHook, dns, cli>>

\* relaunch is os.Exit.
Relaunch ==
  /\ updater = "exit"
  /\ proc' = "down"
  /\ NoProcess
  /\ UNCHANGED <<may, wanted, dns, cli, mishaps>>

-----------------------------------------------------------------------------
(* The command line: ServiceStart and ServiceStop.                         *)

\* The error of Start is ignored.
CommandStart ==
  /\ "commandLine" \in may
  /\ cli = "idle"
  /\ cli' = "started"
  /\ wanted' \in {TRUE, wanted}
  /\ UNCHANGED <<may, proc, daemonVars, dns, mishaps>>

CommandChecks ==
  /\ cli = "started"
  /\ cli' = IF proc = "down" THEN "idle" ELSE "checked"
  /\ UNCHANGED <<may, wanted, proc, daemonVars, dns, mishaps>>

CommandActivates ==
  /\ cli = "checked"
  /\ cli' = "idle"
  /\ dns' \in {"loopback", dns}
  /\ UNCHANGED <<may, wanted, proc, daemonVars, mishaps>>

\* An error of Stop is returned only after DNS has been restored.
CommandStop ==
  /\ "commandLine" \in may
  /\ cli = "idle"
  /\ \/ cli' = "stopping" /\ wanted' = FALSE
     \/ cli' = "restoring" /\ UNCHANGED wanted
  /\ UNCHANGED <<may, proc, daemonVars, dns, mishaps>>

\* Mutant: DNS is left to the daemon's hook.
CommandStoppedOnly ==
  /\ cli = "stopping" /\ proc = "down"
  /\ cli' = "idle"
  /\ UNCHANGED <<may, wanted, proc, daemonVars, dns, mishaps>>

CommandStopped ==
  /\ cli = "stopping" /\ proc = "down"
  /\ cli' = "restoring"
  /\ UNCHANGED <<may, wanted, proc, daemonVars, dns, mishaps>>

CommandRestores ==
  /\ cli = "restoring"
  /\ cli' = "idle"
  /\ dns' = "default"
  /\ UNCHANGED <<may, wanted, proc, daemonVars, mishaps>>

-----------------------------------------------------------------------------
Manager == Launch \/ StartFails \/ StartReturns \/ Stop \/ StopReturns
Serving == ListenerEnds \/ Join
DnsHook == DnsHookStarts \/ DnsHookSkips \/ Activate \/ WatchEnds \/ Restore
Updater == UpdaterEnds \/ NoUpdate \/ Updated \/ Relaunch
Command == CommandChecks \/ CommandActivates \/ CommandStopped \/ CommandRestores

Next ==
  \/ Manager \/ Serving \/ DnsHook \/ WatchHook \/ Updater \/ Command
  \/ Crash \/ ManagerStop \/ ListenerFails \/ Reactivate \/ UpdateDue
  \/ CommandStart \/ CommandStop

\* Every goroutine that can go on does, the five seconds pass, the manager
\* launches what it wants to run and delivers its signal.
Fairness ==
  /\ WF_vars(Manager) /\ WF_vars(Serving) /\ WF_vars(DnsHook)
  /\ WF_vars(WatchHook) /\ WF_vars(Updater) /\ WF_vars(Command)

Spec     == Init /\ [][Next]_vars
FairSpec == Spec /\ Fairness

-----------------------------------------------------------------------------
(* Properties.                                                             *)

\* "Ready hooks own system DNS and must finish restoring it before Stop
\* returns" (proxy_runner.go 29-31): when the runner has stopped, its hook has
\* either never touched DNS, or has restored it for good (nobody else touches it
\* while the command line is not used).
RestoredBeforeStopped ==
  "commandLine" \notin may /\ serve = "stopped" =>
    dnsHook = "skipped" \/ (dnsHook = "done" /\ dns = "default")

\* Why: the hook's last act is to restore, and only it touches DNS.
HookOwnsDNS ==
  "commandLine" \notin may => cli = "idle" /\ (dnsHook = "done" => dns = "default")

RestoredInv == HookOwnsDNS /\ RestoredBeforeStopped

\* Names can be resolved.
Available ==
  \/ dns = "default"
  \/ serve = "serving"

\* An outage ends: whatever crashes, fails to listen or is replaced by an
\* update, and whenever the service is started or stopped meanwhile, the system
\* does not keep asking a proxy that is not there.
OutageEnds == ~Available ~> Available

\* The same at each moment: while the system asks a proxy that is not there, the
\* service manager is about to launch one, one that could not listen is on its way
\* out of Start, the hook is about to restore DNS, or a stop command has yet to
\* (proxy_runner.go 33-81, dns_activation.go 30-41, control.go 81-85).
OutageIsMended ==
  ~Available =>
    \/ wanted /\ (proc = "down" \/ (proc = "starting" /\ cancelled))
    \/ dnsHook = "restore" \/ (dnsHook = "watching" /\ cancelled)
    \/ cli \in {"stopping", "restoring"}

\* manageSystemDNS is "restoring defaults when the proxy stops"
\* (dns_activation.go 30-31): once the service manager has stopped the daemon,
\* the system is sooner or later left with its own DNS.
StopRestoresDNS == proc = "stopping" ~> dns = "default"

\* ServiceStart "starts the service when needed and strictly re-applies system
\* DNS" (control.go 52): once the command found the service running, the proxy
\* serves, unless somebody stops the service.
StartServes == cli = "checked" ~> serve = "serving" \/ ~wanted
=============================================================================
