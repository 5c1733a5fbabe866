------------------------------- MODULE Install -------------------------------
(***************************************************************************)
(* The commands that install, remove, start, stop and upgrade the service  *)
(* (internal/service/install.go, control.go, systemd_unit.go), step by     *)
(* step, with the rollback of an install that fails, beside the daemon and *)
(* the service manager. A service is known by the profile it was installed *)
(* for. The daemon is followed as far as its proxy and its hook on system  *)
(* DNS go; DaemonLifecycle has the rest. Restoring system DNS works, as    *)
(* there; how it fails is the subject of LinuxSystemDNS.                   *)
(***************************************************************************)
EXTENDS Naturals

CONSTANTS
  Profiles, None,
  Scenarios,    \* the sets of mishaps that may happen together
  MaxMishaps    \* bound: how many of them happen

Mishaps  == {"step", "kill", "crash", "foreign"}
Commands == {"install", "uninstall", "start", "stop", "upgrade"}

ASSUME ProfilesAssumption  ==
  None \notin Profiles /\ None \notin [profile : Profiles, restart : BOOLEAN]
ASSUME ScenariosAssumption == Scenarios \subseteq SUBSET Mishaps
ASSUME MishapsAssumption   == MaxMishaps \in Nat

VARIABLES
  may,       \* the mishaps of this scenario; it does not change
  unit,      \* the registered service: its profile, and whether it has Restart=always
  wanted,    \* the service manager was asked to run it
  daemon,    \* the daemon: down, binding, serving, or managing system DNS as well
  runs,      \* the profile it was started with
  dns,       \* what the system resolves with
  stored,    \* the profile in install_state.json
  token,     \* a token is stored
  foreign,   \* another program holds port 53
  cmd,       \* the command under way and what it remembers
  pc,        \* the step it is at
  before,    \* the service and the state file as they were when it began
  mishaps

host == <<unit, wanted, daemon, runs, dns, stored, token, foreign>>
vars == <<may, host, cmd, pc, before, mishaps>>

Units     == [profile : Profiles, restart : BOOLEAN] \cup {None}
Maybe     == Profiles \cup {None}
NoCommand == [kind |-> "none", profile |-> None, dns |-> FALSE, installed |-> FALSE,
              running |-> FALSE, state |-> None, spent |-> 0]
Nothing   == [unit |-> None, running |-> FALSE, stored |-> None]
Forward   == {"assess", "stop", "restore", "remove", "port", "register", "patch", "launch",
              "withdraw", "token", "preflight", "activate", "persist", "forget", "restart"}
Backward  == {"undoStop", "undoRestore", "undoRemove", "recover", "relaunch", "probe",
              "reactivate", "strict"}

TypeOK ==
  /\ may \in Scenarios
  /\ unit \in Units /\ runs \in Maybe /\ stored \in Maybe
  /\ wanted \in BOOLEAN /\ token \in BOOLEAN /\ foreign \in BOOLEAN
  /\ daemon \in {"down", "binding", "serving", "managing"}
  /\ (daemon = "down") = (runs = None)
  /\ dns \in {"default", "loopback"}
  /\ cmd \in [kind : Commands \cup {"none"}, profile : Maybe, dns : BOOLEAN,
              installed : BOOLEAN, running : BOOLEAN, state : Maybe, spent : 0 .. MaxMishaps]
  /\ pc \in {"idle", "failed"} \cup Forward \cup Backward
  /\ (pc = "idle") = (cmd = NoCommand)
  /\ before \in [unit : Units, running : BOOLEAN, stored : Maybe]
  /\ mishaps \in 0 .. MaxMishaps

Up      == daemon # "down"
Serving == daemon \in {"serving", "managing"}

Init ==
  /\ may \in Scenarios
  /\ \E p \in Profiles :
       \/ /\ unit = None /\ stored = None /\ wanted = FALSE
       \/ /\ unit = [profile |-> p, restart |-> TRUE] /\ stored \in {p, None}
          /\ wanted \in BOOLEAN
  /\ daemon = IF wanted THEN "managing" ELSE "down"
  /\ runs = IF wanted THEN unit.profile ELSE None
  /\ dns = IF wanted THEN "loopback" ELSE "default"
  /\ token = FALSE /\ foreign = FALSE
  /\ cmd = NoCommand /\ pc = "idle" /\ before = Nothing /\ mishaps = 0

Mishap(kind) ==
  /\ kind \in may /\ mishaps < MaxMishaps
  /\ mishaps' = mishaps + 1

Goto(next) == pc' = next /\ UNCHANGED <<may, cmd, before>>

\* Rollback begins: what went wrong up to here is accounted for.
Undo == cmd' = [cmd EXCEPT !.spent = mishaps'] /\ pc' = "undoStop" /\ UNCHANGED <<may, before>>

Return == pc' = "idle" /\ cmd' = NoCommand /\ before' = Nothing /\ UNCHANGED may

-----------------------------------------------------------------------------
(* The service manager, the daemon and the other program.                  *)

quiet == <<may, cmd, pc, before>>

Bind ==
  /\ daemon = "binding" /\ ~foreign
  /\ daemon' = "serving"
  /\ UNCHANGED <<quiet, unit, wanted, runs, dns, stored, token, foreign, mishaps>>

\* The process ends when it cannot bind.
BindFails ==
  /\ daemon = "binding" /\ foreign
  /\ daemon' = "down" /\ runs' = None
  /\ UNCHANGED <<quiet, unit, wanted, dns, stored, token, foreign, mishaps>>

Crash ==
  /\ Up /\ Mishap("crash")
  /\ daemon' = "down" /\ runs' = None
  /\ UNCHANGED <<quiet, unit, wanted, dns, stored, token, foreign>>

\* What Restart=always is for.
Restarted ==
  /\ unit # None /\ wanted /\ ~Up
  /\ unit.restart
  /\ daemon' = "binding" /\ runs' = unit.profile
  /\ UNCHANGED <<quiet, unit, wanted, dns, stored, token, foreign, mishaps>>

\* The ready hook, five seconds after the start ...
Hook ==
  /\ daemon = "serving"
  /\ daemon' = "managing"
  /\ \/ dns' = "loopback" /\ UNCHANGED mishaps
     \/ Mishap("step") /\ UNCHANGED dns
  /\ UNCHANGED <<quiet, unit, wanted, runs, stored, token, foreign>>

\* ... and after a network change.
HookAgain ==
  /\ daemon = "managing" /\ dns = "default"
  /\ dns' = "loopback"
  /\ UNCHANGED <<quiet, unit, wanted, daemon, runs, stored, token, foreign, mishaps>>

ForeignComes ==
  /\ ~foreign /\ ~Serving /\ Mishap("foreign")
  /\ foreign' = TRUE
  /\ UNCHANGED <<quiet, unit, wanted, daemon, runs, dns, stored, token>>

ForeignGoes ==
  /\ foreign
  /\ foreign' = FALSE
  /\ UNCHANGED <<quiet, unit, wanted, daemon, runs, dns, stored, token, mishaps>>

-----------------------------------------------------------------------------
(* What the commands do to the host. Each may fail and then changes nothing. *)

Works   == UNCHANGED mishaps
Fails   == Mishap("step") /\ UNCHANGED host

\* svc.Stop; the daemon's hook has restored DNS when the process ends.
SvcStop ==
  /\ Works
  /\ wanted' = FALSE /\ daemon' = "down" /\ runs' = None
  /\ dns' = IF daemon = "managing" THEN "default" ELSE dns
  /\ UNCHANGED <<unit, stored, token, foreign>>

\* svc.Uninstall removes the registration; a process it has stays.
SvcUninstall ==
  /\ Works
  /\ unit' = None
  /\ UNCHANGED <<wanted, daemon, runs, dns, stored, token, foreign>>

\* svc.Install writes the unit of the service library, without Restart=always.
SvcInstall(p) ==
  /\ Works
  /\ unit' = [profile |-> p, restart |-> FALSE]
  /\ UNCHANGED <<wanted, daemon, runs, dns, stored, token, foreign>>

\* Mutant: what the process runs is not kept.
SvcStartAnew ==
  /\ Works
  /\ wanted' = TRUE /\ daemon' = "binding"
  /\ UNCHANGED <<unit, runs, dns, stored, token, foreign>>

\* A service that is up already is left alone.
SvcStart ==
  /\ Works
  /\ wanted' = TRUE
  /\ daemon' = IF Up THEN daemon ELSE "binding"
  /\ runs' = IF Up THEN runs ELSE unit.profile
  /\ UNCHANGED <<unit, dns, stored, token, foreign>>

SetDNS(setting) ==
  /\ Works
  /\ dns' = setting
  /\ UNCHANGED <<unit, wanted, daemon, runs, stored, token, foreign>>

\* Not between a stop and the restore that follows: a service stopped in its
\* first five seconds has no hook yet, and would leave the host without DNS.
Kill ==
  /\ pc \notin {"idle", "restore", "undoRestore"}
  /\ Mishap("kill")
  /\ Return
  /\ UNCHANGED host

-----------------------------------------------------------------------------
(* The steps that several commands have. Errors are ignored or warned of.  *)

\* Mutant: ensureSystemdRestartPolicy is not called.
PatchForgotten ==
  /\ pc = "patch"
  /\ Works /\ UNCHANGED host
  /\ Goto(IF cmd.kind = "upgrade" THEN "restart" ELSE "launch")

\* ensureSystemdRestartPolicy.
Patch ==
  /\ pc = "patch"
  /\ \/ /\ Works
        /\ unit' = IF unit = None THEN None ELSE [unit EXCEPT !.restart = TRUE]
        /\ UNCHANGED <<wanted, daemon, runs, dns, stored, token, foreign>>
     \/ Fails
  /\ Goto(IF cmd.kind = "upgrade" THEN "restart" ELSE "launch")

StopService ==
  /\ pc = "stop"
  /\ SvcStop \/ Fails
  /\ Goto("restore")

\* restoreSystemDNSBestEffort, restoreSystemDNSWithWarnings.
RestoreDNS ==
  /\ pc = "restore"
  /\ SetDNS("default")
  /\ IF cmd.kind = "stop" THEN Return ELSE Goto("remove")

-----------------------------------------------------------------------------
(* InstallDetailed.                                                        *)

\* resolveSystemDNS comes first ...
Install(p) ==
  /\ pc = "idle"
  /\ cmd' = [NoCommand EXCEPT !.kind = "install", !.profile = p, !.dns = (dns = "loopback")]
  /\ pc' = "assess"
  /\ UNCHANGED <<may, host, before, mishaps>>

\* ... then the service and the state file. A service that is running is
\* stopped; one whose state cannot be read counts as none.
Assess ==
  /\ pc = "assess"
  /\ \/ /\ Works
        /\ cmd' = [cmd EXCEPT !.installed = (unit # None), !.running = (unit # None /\ Up),
                              !.state = stored]
        /\ pc' = IF unit # None /\ Up THEN "stop" ELSE "restore"
        /\ before' = [unit |-> unit, running |-> (unit # None /\ Up), stored |-> stored]
     \/ /\ Mishap("step")
        /\ cmd' = [cmd EXCEPT !.state = stored]
        /\ pc' = "restore"
        /\ UNCHANGED before
  /\ UNCHANGED <<may, host>>

RemovePrevious ==
  /\ pc = "remove" /\ cmd.kind = "install"
  /\ SvcUninstall \/ Fails
  /\ Goto("port")

PortFree ==
  /\ pc = "port" /\ ~Serving /\ ~foreign
  /\ Works /\ UNCHANGED host
  /\ Goto("register")

\* A previous service could not bind either: it is not recovered.
PortHeld ==
  /\ pc = "port" /\ (Serving \/ foreign)
  /\ cmd' = [cmd EXCEPT !.installed = FALSE, !.running = FALSE, !.dns = FALSE, !.state = None,
                        !.spent = mishaps]
  /\ before' = Nothing
  /\ pc' = "undoStop"
  /\ UNCHANGED <<may, host, mishaps>>

Register ==
  /\ pc = "register"
  /\ \/ SvcInstall(cmd.profile) /\ Goto("patch")
     \/ Fails /\ Undo

LaunchService ==
  /\ pc = "launch" /\ cmd.kind = "install"
  /\ \/ SvcStart /\ Goto("token")
     \/ Fails /\ Goto("withdraw")

\* A service that cannot be started is removed before the rollback.
Withdraw ==
  /\ pc = "withdraw"
  /\ SvcUninstall \/ Fails
  /\ Undo

PersistToken ==
  /\ pc = "token"
  /\ \/ /\ Works
        /\ token' \in {TRUE, token}
        /\ UNCHANGED <<unit, wanted, daemon, runs, dns, stored, foreign>>
     \/ Fails
  /\ Goto("preflight")

\* Best effort: answered or not, after ten seconds the install goes on.
Preflight ==
  /\ pc = "preflight"
  /\ Works /\ UNCHANGED host
  /\ Goto("activate")

ActivateDNS ==
  /\ pc = "activate" /\ cmd.kind = "install"
  /\ \/ SetDNS("loopback") /\ Goto("persist")
     \/ Fails /\ Undo

PersistInstallState ==
  /\ pc = "persist"
  /\ \/ /\ Works
        /\ stored' = cmd.profile
        /\ UNCHANGED <<unit, wanted, daemon, runs, dns, token, foreign>>
     \/ Fails
  /\ Return

-----------------------------------------------------------------------------
(* rollbackInstall.                                                        *)

UndoStop ==
  /\ pc = "undoStop"
  /\ SvcStop \/ Fails
  /\ Goto("undoRestore")

UndoRestore ==
  /\ pc = "undoRestore"
  /\ SetDNS("default")
  /\ Goto("undoRemove")

UndoRemove ==
  /\ pc = "undoRemove"
  /\ SvcUninstall \/ Fails
  /\ Goto(IF cmd.installed /\ cmd.state # None THEN "recover" ELSE "strict")

\* Mutant: the service that failed is installed again.
RecoverFailed ==
  /\ pc = "recover"
  /\ \/ SvcInstall(cmd.profile) /\ Goto(IF cmd.running THEN "relaunch" ELSE "strict")
     \/ Fails /\ Goto("strict")

\* recoverService; the unit is not patched.
Recover ==
  /\ pc = "recover"
  /\ \/ SvcInstall(cmd.state) /\ Goto(IF cmd.running THEN "relaunch" ELSE "strict")
     \/ Fails /\ Goto("strict")

RecoverStart ==
  /\ pc = "relaunch"
  /\ \/ SvcStart /\ Goto("probe")
     \/ Fails /\ Goto("strict")

\* The previous service has to answer before DNS is pointed at it.
RecoverProbe ==
  /\ pc = "probe"
  /\ UNCHANGED host
  /\ \/ /\ Serving \/ foreign
        /\ Works
        /\ Goto(IF cmd.dns THEN "reactivate" ELSE "strict")
     \/ ~Serving /\ ~foreign /\ ~Up /\ Works /\ Goto("strict")
     \/ Mishap("step") /\ Goto("strict")

RecoverActivate ==
  /\ pc = "reactivate"
  /\ \/ SetDNS("loopback") /\ Goto("failed")
     \/ Fails /\ Goto("strict")

RestoreStrict ==
  /\ pc = "strict"
  /\ SetDNS("default")
  /\ Goto("failed")

InstallFails ==
  /\ pc = "failed"
  /\ Return
  /\ UNCHANGED <<host, mishaps>>

-----------------------------------------------------------------------------
(* The other commands.                                                     *)

Begin(kind, at) ==
  /\ pc = "idle"
  /\ cmd' = [NoCommand EXCEPT !.kind = kind]
  /\ pc' = at
  /\ UNCHANGED <<may, host, before, mishaps>>

Uninstall    == Begin("uninstall", "stop")
ServiceStop  == Begin("stop", "stop")
ServiceStart == Begin("start", "launch")
Upgrade      == Begin("upgrade", "patch")

\* An error of svc.Uninstall ends the command: tokens and state are kept.
Remove ==
  /\ pc = "remove" /\ cmd.kind = "uninstall"
  /\ \/ unit # None /\ SvcUninstall /\ Goto("forget")
     \/ unit = None /\ Works /\ UNCHANGED host /\ Return
     \/ Fails /\ Return

\* ClearPersistedTokens takes the install state with it.
Forget ==
  /\ pc = "forget"
  /\ Works
  /\ stored' = None /\ token' = FALSE
  /\ UNCHANGED <<unit, wanted, daemon, runs, dns, foreign>>
  /\ Return

\* The error of Start is ignored, but the service has to run.
StartService ==
  /\ pc = "launch" /\ cmd.kind = "start"
  /\ \/ unit # None /\ SvcStart
     \/ unit = None /\ Works /\ UNCHANGED host
     \/ Fails
  /\ IF daemon' # "down" THEN Goto("activate") ELSE Return

StartActivates ==
  /\ pc = "activate" /\ cmd.kind = "start"
  /\ SetDNS("loopback") \/ Fails
  /\ Return

\* Nothing newer, or a service that is restarted if it is installed.
Restart ==
  /\ pc = "restart"
  /\ \/ Works /\ UNCHANGED host
     \/ /\ unit # None
        /\ Works
        /\ wanted' = TRUE /\ daemon' = "binding" /\ runs' = unit.profile
        /\ dns' = IF daemon = "managing" THEN "default" ELSE dns
        /\ UNCHANGED <<unit, stored, token, foreign>>
  /\ Return

-----------------------------------------------------------------------------
Host     == Bind \/ BindFails \/ Restarted \/ Hook
Shared   == Patch \/ StopService \/ RestoreDNS
Forwards == Assess \/ RemovePrevious \/ PortFree \/ PortHeld \/ Register \/ LaunchService
            \/ Withdraw \/ PersistToken \/ Preflight \/ ActivateDNS \/ PersistInstallState
Rollback == UndoStop \/ UndoRestore \/ UndoRemove \/ Recover \/ RecoverStart \/ RecoverProbe
            \/ RecoverActivate \/ RestoreStrict \/ InstallFails
Others   == Remove \/ Forget \/ StartService \/ StartActivates \/ Restart
Command  == Shared \/ Forwards \/ Rollback \/ Others

Next ==
  \/ Host \/ HookAgain \/ Command \/ Crash \/ Kill \/ ForeignComes \/ ForeignGoes
  \/ \E p \in Profiles : Install(p)
  \/ Uninstall \/ ServiceStop \/ ServiceStart \/ Upgrade

\* A command goes on, the daemon binds, its hook runs, the manager restarts it.
\* Nothing is assumed of mishaps, of commands being given or of the other program.
Fairness ==
  /\ WF_vars(Bind \/ BindFails) /\ WF_vars(Restarted) /\ WF_vars(Hook) /\ WF_vars(Command)

Spec     == Init /\ [][Next]_vars
FairSpec == Spec /\ Fairness

-----------------------------------------------------------------------------
(* Properties.                                                             *)

\* A failed install takes back what it did (install.go 174-217): when nothing
\* else has failed since its rollback began, the host has the service it had,
\* up or not as before, and asks its proxy only if it did so before; or, where
\* there was none, or port 53 is held, no service and DNS of its own. The state
\* file has to name the service that was there.
RollbackRestores ==
  pc = "failed" /\ mishaps = cmd.spent =>
    IF before.unit = None
      THEN unit = None /\ ~Up /\ dns = "default"
      ELSE before.stored = before.unit.profile =>
             /\ unit # None /\ unit.profile = before.unit.profile
             /\ Up = before.running
             /\ IF before.running THEN cmd.dns => dns = "loopback" ELSE dns = "default"

Available == dns = "default" \/ Serving \/ foreign

\* "Never restore loopback DNS when recovery could not establish a working proxy"
\* (install.go 211), and the same for every command: whatever fails, and wherever
\* a command is killed, the host does not keep asking a proxy that is not there.
OutageEnds == ~Available ~> Available

\* The same at each moment, where no step fails in a scenario in which daemons die:
\* while the proxy is not there, a daemon is about to bind, the service manager is
\* about to restart one, or a command has yet to restore DNS or to register, start
\* and patch the service that DNS points at (install.go 174-217, systemd_unit.go 38).
OutageIsMended ==
  ~Available =>
    \/ daemon = "binding"
    \/ wanted /\ unit # None /\ unit.restart
    \/ pc \in {"restore", "undoStop", "undoRestore"}
    \/ wanted /\ pc \in {"port", "register", "patch"}

\* "Install must fail if the service cannot start" (install.go 133-134): an
\* install that gets to its end has its profile served, after a crash too,
\* unless another command comes, another program holds the port, or a service
\* from before is still up, which the service manager does not start again.
InstallServes ==
  \A p \in Profiles :
    (pc = "persist" /\ cmd.profile = p /\ runs \in {p, None})
      ~> (Serving /\ runs = p) \/ foreign \/ cmd.kind \notin {"none", "install"} \/ pc = "assess"

\* The unit of the library "sets RestartSec without Restart= (so the daemon would
\* stay down after exiting)", and ensureSystemdRestartPolicy "fixes" it
\* (systemd_unit.go 35-37): a service that was restarted before an install that
\* failed is restarted after its rollback.
RecoveredIsSupervised ==
  /\ pc = "failed" /\ mishaps = cmd.spent
  /\ before.unit # None /\ before.unit.restart
  /\ unit # None
  => unit.restart
=============================================================================
