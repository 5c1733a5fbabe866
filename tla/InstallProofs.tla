---------------------------- MODULE InstallProofs ----------------------------
(***************************************************************************)
(* What holds of the service commands for any profiles and any number of   *)
(* mishaps. A proof for a step of Next has a case for the daemon, the      *)
(* service manager and the other program, which leave the command alone    *)
(* (Beside), and cases for the steps of the commands.                      *)
(***************************************************************************)
EXTENDS Install, TLAPS

\* Whose step each step is.
InstallOnly == {"assess", "port", "register", "withdraw", "token", "preflight", "persist",
    "failed"}
               \cup Backward

KindAt ==
  /\ pc = "idle" => cmd = NoCommand
  /\ pc \in InstallOnly => cmd.kind = "install"
  /\ pc \in {"stop", "restore"} => cmd.kind \in {"install", "uninstall", "stop"}
  /\ pc = "remove" => cmd.kind \in {"install", "uninstall"}
  /\ pc = "patch" => cmd.kind \in {"install", "upgrade"}
  /\ pc \in {"launch", "activate"} => cmd.kind \in {"install", "start"}
  /\ pc = "forget" => cmd.kind = "uninstall"
  /\ pc = "restart" => cmd.kind = "upgrade"
  /\ cmd.kind = "install" => cmd.profile \in Profiles

\* What an install remembers of the host is what the host was like.
Remembered ==
  /\ pc \in {"idle", "assess"} => before = Nothing
  /\ cmd.kind = "install" =>
       /\ cmd.installed = (before.unit # None) /\ cmd.running = before.running
       /\ before.unit # None => cmd.state = before.stored

Recoverable == cmd.installed /\ cmd.state # None
Recovered   == unit # None /\ unit.profile = cmd.state

\* What each step finds.
StepAt ==
  /\ pc \in {"patch", "launch"} /\ cmd.kind = "install" => unit # None
  /\ pc \in {"recover", "relaunch", "probe", "reactivate"} => Recoverable
  /\ pc \in {"relaunch", "probe", "reactivate"} => Recovered /\ cmd.running
  /\ pc = "reactivate" => cmd.dns

\* Rollbacks that recover a service follow a step that failed, and not a port that
\* is held.
Blame ==
  /\ cmd.spent <= mishaps
  /\ foreign => "foreign" \in may
  /\ pc = "withdraw" => "step" \in may
  /\ pc \in Backward \cup {"failed"} /\ cmd.installed => "step" \in may

\* The inductive invariant.
IInv == TypeOK /\ KindAt /\ Remembered /\ StepAt /\ Blame

-----------------------------------------------------------------------------
(* Types: those of the host and those of the command under way.            *)

HostTyped ==
  /\ unit \in Units /\ runs \in Maybe /\ stored \in Maybe
  /\ wanted \in BOOLEAN /\ token \in BOOLEAN /\ foreign \in BOOLEAN
  /\ daemon \in {"down", "binding", "serving", "managing"}
  /\ (daemon = "down") = (runs = None)
  /\ dns \in {"default", "loopback"}

Steps == {"failed"} \cup Forward \cup Backward

Cmds ==
  [kind : Commands \cup {"none"}, profile : Maybe, dns : BOOLEAN, installed : BOOLEAN,
   running : BOOLEAN, state : Maybe, spent : 0 .. MaxMishaps]

CmdTyped ==
  /\ may \in Scenarios
  /\ cmd \in Cmds
  /\ pc \in {"idle"} \cup Steps
  /\ (pc = "idle") = (cmd = NoCommand)
  /\ before \in [unit : Units, running : BOOLEAN, stored : Maybe]
  /\ mishaps \in 0 .. MaxMishaps

\* The type invariant is that of the host and that of the command.
LEMMA TwoTypes == TypeOK <=> HostTyped /\ CmdTyped
  BY DEF TypeOK, HostTyped, CmdTyped, Cmds, Steps

\* What a step may do to the host.
HostStep ==
  \/ UNCHANGED host
  \/ SvcStop \/ SvcUninstall
  \/ \E p \in Profiles : SvcInstall(p)
  \/ unit # None /\ SvcStart
  \/ SetDNS("default") \/ SetDNS("loopback")

\* The service manager's operations keep the types of the host.
LEMMA HostStepTyped ==
  ASSUME HostTyped, HostStep PROVE HostTyped'
<1> USE DEF HostTyped
<1>1. CASE UNCHANGED host
  BY <1>1 DEF host
<1>2. CASE SvcStop
  BY <1>2 DEF SvcStop, Maybe
<1>3. CASE SvcUninstall
  BY <1>3 DEF SvcUninstall, Units
<1>4. ASSUME NEW p \in Profiles, SvcInstall(p) PROVE HostTyped'
  BY <1>4 DEF SvcInstall, Units
<1>5. CASE unit # None /\ SvcStart
  <2>1. unit.profile \in Profiles /\ unit.profile # None
    BY <1>5, ProfilesAssumption DEF Units
  <2> QED BY <1>5, <2>1 DEF SvcStart, Up, Maybe
<1>6. CASE SetDNS("default") \/ SetDNS("loopback")
  BY <1>6 DEF SetDNS
<1> QED BY <1>1, <1>2, <1>3, <1>4, <1>5, <1>6, HostStep DEF HostStep

\* Between commands the record of the command is that of none.
LEMMA NoCommandTyped == NoCommand \in Cmds /\ NoCommand.kind = "none"
  BY MishapsAssumption DEF NoCommand, Cmds, Maybe

\* Going on, rolling back and returning keep the types of the command.
LEMMA ControlTyped ==
  ASSUME CmdTyped, pc # "idle", mishaps' \in 0 .. MaxMishaps,
         (\E next \in Steps : Goto(next)) \/ (cmd.kind = "install" /\ Undo) \/ Return
  PROVE  CmdTyped'
<1> USE DEF CmdTyped
<1>0. "undoStop" \in Steps /\ "idle" \notin Steps
  BY DEF Steps, Forward, Backward
<1>1. ASSUME NEW next \in Steps, Goto(next) PROVE CmdTyped'
  BY <1>0, <1>1 DEF Goto
<1>2. CASE cmd.kind = "install" /\ Undo
  <2>1. cmd' \in Cmds
    BY <1>2 DEF Undo, Cmds
  <2>2. cmd'.kind = cmd.kind
    BY <1>2 DEF Undo, Cmds
  <2>3. cmd' # NoCommand
    BY <1>2, <2>2, NoCommandTyped
  <2> QED BY <1>0, <1>2, <2>1, <2>3 DEF Undo
<1>3. CASE Return
  BY <1>3, NoCommandTyped DEF Return, Nothing, Maybe, Units
<1> QED BY <1>1, <1>2, <1>3

\* The mishaps stay within their bound.
LEMMA Counting ==
  ASSUME CmdTyped, Works \/ (\E k \in Mishaps : Mishap(k)) PROVE mishaps' \in 0 .. MaxMishaps
  BY MishapsAssumption DEF CmdTyped, Works, Mishap

\* Every step keeps the types of the host.
LEMMA HostKept ==
  ASSUME IInv, [Next]_vars PROVE HostTyped'
<1>0. HostTyped
  BY TwoTypes DEF IInv
<1>1. CASE Bind \/ BindFails \/ Crash \/ ForeignComes \/ ForeignGoes
  BY <1>0, <1>1 DEF HostTyped, Bind, BindFails, Crash, ForeignComes, ForeignGoes, Up, Maybe
<1>2. CASE Restarted
  <2>1. unit.profile \in Profiles /\ unit.profile # None
    BY <1>0, <1>2, ProfilesAssumption DEF Restarted, HostTyped, Units
  <2> QED BY <1>0, <1>2, <2>1 DEF HostTyped, Restarted, Maybe
<1>3. CASE Hook \/ HookAgain
  BY <1>0, <1>3 DEF HostTyped, Hook, HookAgain
<1>4. CASE Patch
  BY <1>0, <1>4 DEF HostTyped, Patch, Fails, Units, host
<1>5. CASE PersistToken \/ Forget
  BY <1>0, <1>5 DEF HostTyped, PersistToken, Forget, Fails, Maybe, host
<1>6. CASE PersistInstallState
  <2>1. cmd.profile \in Profiles
    BY <1>6 DEF IInv, KindAt, PersistInstallState, InstallOnly
  <2> QED BY <1>0, <1>6, <2>1 DEF HostTyped, PersistInstallState, Fails, Maybe, host
<1>7. CASE Restart
  <2>1. unit # None => unit.profile \in Profiles /\ unit.profile # None
    BY <1>0, ProfilesAssumption DEF HostTyped, Units
  <2> QED BY <1>0, <1>7, <2>1 DEF HostTyped, Restart, Maybe, host
<1>8. CASE Register \/ Recover
  <2>1. CASE Register
    <3>1. cmd.profile \in Profiles
      BY <2>1 DEF IInv, KindAt, Register, InstallOnly
    <3> QED BY <1>0, <2>1, <3>1, HostStepTyped DEF Register, Fails, HostStep
  <2>2. CASE Recover
    <3>1. cmd.state \in Profiles
      BY <2>2 DEF IInv, TypeOK, StepAt, Recover, Recoverable, Maybe
    <3> QED BY <1>0, <2>2, <3>1, HostStepTyped DEF Recover, Fails, HostStep
  <2> QED BY <1>8, <2>1, <2>2
<1>9. CASE LaunchService \/ RecoverStart \/ StartService
  <2>1. LaunchService \/ RecoverStart => unit # None
    BY DEF IInv, StepAt, LaunchService, RecoverStart, Recovered
  <2> QED BY <1>0, <1>9, <2>1, HostStepTyped DEF LaunchService, RecoverStart, StartService,
             Fails, HostStep
<1>10. CASE \/ StopService \/ RestoreDNS \/ RemovePrevious \/ Withdraw \/ ActivateDNS
            \/ UndoStop \/ UndoRestore \/ UndoRemove \/ RecoverActivate \/ RestoreStrict
            \/ Remove \/ StartActivates
  BY <1>0, <1>10, HostStepTyped DEF StopService, RestoreDNS, RemovePrevious, Withdraw,
                                    ActivateDNS, UndoStop, UndoRestore, UndoRemove,
                                    RecoverActivate, RestoreStrict, Remove, StartActivates,
                                    Fails, HostStep
<1>11. CASE \/ Kill \/ Assess \/ PortFree \/ PortHeld \/ Preflight \/ RecoverProbe
            \/ InstallFails \/ Uninstall \/ ServiceStop \/ ServiceStart \/ Upgrade
            \/ (\E p \in Profiles : Install(p)) \/ UNCHANGED vars
  <2>1. UNCHANGED host
    BY <1>11 DEF Kill, Assess, PortFree, PortHeld, Preflight, RecoverProbe, InstallFails,
                 Install, Uninstall, ServiceStop, ServiceStart, Upgrade, Begin, vars
  <2> QED BY <1>0, <2>1, HostStepTyped DEF HostStep
<1> QED BY <1>1, <1>2, <1>3, <1>4, <1>5, <1>6, <1>7, <1>8, <1>9, <1>10, <1>11
           DEF Next, Host, Command, Shared, Forwards, Rollback, Others

\* Every step keeps the types of the command.
LEMMA CmdKept ==
  ASSUME IInv, [Next]_vars PROVE CmdTyped'
<1>0. HostTyped /\ CmdTyped
  BY TwoTypes DEF IInv
<1>1. CASE \/ Bind \/ BindFails \/ Restarted \/ Hook \/ HookAgain \/ Crash
           \/ ForeignComes \/ ForeignGoes \/ UNCHANGED vars
  <2>1. UNCHANGED quiet
    BY <1>1 DEF Bind, BindFails, Restarted, Hook, HookAgain, Crash, ForeignComes, ForeignGoes,
                quiet, vars
  <2>2. mishaps' \in 0 .. MaxMishaps
    BY <1>0, <1>1, MishapsAssumption DEF Bind, BindFails, Restarted, Hook, HookAgain, Crash,
                                         ForeignComes, ForeignGoes, Mishap, CmdTyped, vars
  <2> QED BY <1>0, <2>1, <2>2 DEF CmdTyped, quiet
<1>2. CASE Assess
  <2>1. cmd' \in Cmds /\ cmd'.kind = cmd.kind
    BY <1>0, <1>2 DEF Assess, CmdTyped, HostTyped, Cmds
  <2>2. cmd' # NoCommand
    BY <1>2, <2>1, NoCommandTyped DEF IInv, KindAt, Assess, InstallOnly
  <2>3. before' \in [unit : Units, running : BOOLEAN, stored : Maybe]
    <3>1. PICK up \in BOOLEAN :
            before' = [unit |-> unit, running |-> up, stored |-> stored] \/ before' = before
      <4> DEFINE up == unit # None /\ Up
      <4>1. up \in BOOLEAN
        OBVIOUS
      <4>2. before' = [unit |-> unit, running |-> up, stored |-> stored] \/ before' = before
        BY <1>2 DEF Assess
      <4> HIDE DEF up
      <4> QED BY <4>1, <4>2
    <3> QED BY <1>0, <3>1 DEF CmdTyped, HostTyped
  <2>4. mishaps' \in 0 .. MaxMishaps
    BY <1>0, <1>2, MishapsAssumption DEF Assess, Works, Mishap, CmdTyped
  <2>5. pc' \in {"stop", "restore"}
    BY <1>2 DEF Assess
  <2> QED BY <1>0, <1>2, <2>1, <2>2, <2>3, <2>4, <2>5 DEF CmdTyped, Assess, Steps, Forward
<1>3. CASE PortHeld
  <2>1. cmd' \in Cmds /\ cmd'.kind = cmd.kind
    BY <1>0, <1>3 DEF PortHeld, CmdTyped, Maybe, Cmds
  <2>2. cmd' # NoCommand
    BY <1>3, <2>1, NoCommandTyped DEF IInv, KindAt, PortHeld, InstallOnly
  <2> QED BY <1>0, <1>3, <2>1, <2>2 DEF CmdTyped, PortHeld, Steps, Backward, Nothing, Units,
                                        Maybe
<1>4. ASSUME NEW p \in Profiles, Install(p) PROVE CmdTyped'
  <2>1. cmd' \in Cmds /\ cmd'.kind = "install"
    BY <1>0, <1>4, NoCommandTyped DEF Install, Commands, Maybe, Cmds
  <2>2. cmd' # NoCommand
    BY <2>1, NoCommandTyped
  <2> QED BY <1>0, <1>4, <2>1, <2>2 DEF CmdTyped, Install, Steps, Forward
<1>5. ASSUME NEW kind \in Commands, NEW at \in Forward, Begin(kind, at) PROVE CmdTyped'
  <2>1. cmd' \in Cmds /\ cmd'.kind = kind
    BY <1>5, NoCommandTyped DEF Begin, Cmds
  <2>2. cmd' # NoCommand
    BY <2>1, NoCommandTyped DEF Commands
  <2> QED BY <1>0, <1>5, <2>1, <2>2 DEF CmdTyped, Begin, Steps, Forward
<1>6. CASE \/ Kill \/ Shared \/ Others \/ Rollback
           \/ Forwards /\ ~Assess /\ ~PortHeld
  <2>1. pc # "idle"
    BY <1>6 DEF Kill, Shared, Patch, StopService, RestoreDNS, Others, Remove, Forget,
                StartService, StartActivates, Restart, Rollback, UndoStop, UndoRestore,
                UndoRemove, Recover, RecoverStart, RecoverProbe, RecoverActivate,
                RestoreStrict, InstallFails, Forwards, RemovePrevious, PortFree, Register,
                LaunchService, Withdraw, PersistToken, Preflight, ActivateDNS,
                PersistInstallState
  <2>2. mishaps' \in 0 .. MaxMishaps
    <3>1. Works \/ (\E k \in Mishaps : Mishap(k))
      BY <1>6 DEF Kill, Shared, Patch, StopService, RestoreDNS, Others, Remove, Forget,
                  StartService, StartActivates, Restart, Rollback, UndoStop, UndoRestore,
                  UndoRemove, Recover, RecoverStart, RecoverProbe, RecoverActivate,
                  RestoreStrict, InstallFails, Forwards, RemovePrevious, PortFree, Register,
                  LaunchService, Withdraw, PersistToken, Preflight, ActivateDNS,
                  PersistInstallState, Works, Fails, Mishaps, SvcStop, SvcUninstall,
                  SvcInstall, SvcStart, SetDNS
    <3> QED BY <1>0, <3>1, Counting
  <2>3. (\E next \in Steps : Goto(next)) \/ (cmd.kind = "install" /\ Undo) \/ Return
    <3>1. CASE Shared \/ Kill
      BY <3>1 DEF Shared, Patch, StopService, RestoreDNS, Kill, Steps, Forward
    <3>2. CASE Others
      BY <3>2 DEF Others, Remove, Forget, StartService, StartActivates, Restart, Steps,
                  Forward
    <3>3. CASE Rollback
      BY <3>3 DEF Rollback, UndoStop, UndoRestore, UndoRemove, Recover, RecoverStart,
                  RecoverProbe, RecoverActivate, RestoreStrict, InstallFails, Steps, Backward
    <3>4. CASE Forwards /\ ~Assess /\ ~PortHeld
      BY <3>4 DEF IInv, KindAt, InstallOnly, Forwards, RemovePrevious, PortFree, Register,
                  LaunchService, Withdraw, PersistToken, Preflight, ActivateDNS,
                  PersistInstallState, Steps, Forward
    <3> QED BY <1>6, <3>1, <3>2, <3>3, <3>4
  <2> QED BY <1>0, <2>1, <2>2, <2>3, ControlTyped
<1> QED
  BY <1>1, <1>2, <1>3, <1>4, <1>5, <1>6 DEF Next, Host, Command, Forwards, Uninstall,
     ServiceStop, ServiceStart, Upgrade, Commands, Forward

-----------------------------------------------------------------------------
(* The steps of commands.                                                  *)

\* What goes on beside the commands leaves them alone.
Beside ==
  \/ Bind \/ BindFails \/ Restarted \/ Hook \/ HookAgain
  \/ Crash \/ ForeignComes \/ ForeignGoes \/ UNCHANGED vars

\* A command begins.
Begins ==
  (\E p \in Profiles : Install(p)) \/ Uninstall \/ ServiceStop \/ ServiceStart \/ Upgrade

LEMMA BesideIsQuiet ==
  ASSUME Beside PROVE UNCHANGED quiet
  BY DEF Beside, Bind, BindFails, Restarted, Hook, HookAgain, Crash, ForeignComes,
         ForeignGoes, quiet, vars

\* A command keeps its kind, and an install what it remembers.
LEMMA KindKept ==
  ASSUME IInv, [Next]_vars PROVE (KindAt /\ Remembered)'
<1> USE DEF IInv, KindAt, Remembered, InstallOnly, Backward, NoCommand, Nothing, Goto, Undo,
            Return
<1>0. cmd \in Cmds
  BY TwoTypes DEF CmdTyped
<1>1. CASE Beside
  BY <1>1, BesideIsQuiet DEF quiet
<1>2. CASE Assess
  <2>1. cmd'.kind = "install" /\ cmd'.profile = cmd.profile /\ cmd'.state = stored
    BY <1>0, <1>2 DEF Assess, Cmds
  <2>2. pc' \in {"stop", "restore"}
    BY <1>2 DEF Assess
  <2>3. CASE before' = [unit |-> unit, running |-> (unit # None /\ Up), stored |-> stored]
             /\ cmd' = [cmd EXCEPT !.installed = (unit # None), !.running = (unit # None /\ Up),
                                   !.state = stored]
    <3>1. cmd'.installed = (unit # None) /\ cmd'.running = (unit # None /\ Up)
      BY <1>0, <2>3 DEF Cmds
    <3>2. /\ before'.unit = unit /\ before'.running = (unit # None /\ Up)
          /\ before'.stored = stored
      BY <2>3
    <3>3. /\ cmd'.installed = (before'.unit # None) /\ cmd'.running = before'.running
          /\ cmd'.state = before'.stored
      BY <2>1, <3>1, <3>2
    <3> QED BY <1>2, <2>1, <2>2, <3>3 DEF Assess
  <2>4. CASE before' = before /\ cmd' = [cmd EXCEPT !.state = stored]
    <3>1. cmd'.installed = cmd.installed /\ cmd'.running = cmd.running
      BY <1>0, <2>4 DEF Cmds
    <3> QED BY <1>2, <2>1, <2>2, <2>4, <3>1 DEF Assess
  <2> QED BY <1>2, <2>3, <2>4 DEF Assess
<1>3. CASE Shared \/ Kill
  BY <1>3 DEF Shared, Patch, StopService, RestoreDNS, Kill
<1>4. CASE RemovePrevious \/ PortFree \/ Register \/ LaunchService \/ Withdraw
  BY <1>0, <1>4 DEF RemovePrevious, PortFree, Register, LaunchService, Withdraw, Cmds
<1>5. CASE PortHeld
  <2>1. /\ cmd'.kind = cmd.kind /\ cmd'.profile = cmd.profile
        /\ cmd'.installed = FALSE /\ cmd'.running = FALSE
    BY <1>0, <1>5 DEF PortHeld, Cmds
  <2>2. before'.unit = None /\ before'.running = FALSE
    BY <1>5 DEF PortHeld
  <2>3. KindAt'
    <3>1. cmd.kind = "install" /\ pc' = "undoStop"
      BY <1>5 DEF PortHeld
    <3> QED BY <2>1, <3>1
  <2>4. Remembered'
    BY <1>5, <2>1, <2>2 DEF PortHeld
  <2> QED BY <2>3, <2>4
<1>6. CASE PersistToken \/ Preflight \/ ActivateDNS \/ PersistInstallState
  <2>1. CASE PersistToken \/ Preflight
    BY <2>1 DEF PersistToken, Preflight
  <2>2. CASE ActivateDNS
    BY <1>0, <2>2 DEF ActivateDNS, Cmds
  <2>3. CASE PersistInstallState
    BY <2>3 DEF PersistInstallState
  <2> QED BY <1>6, <2>1, <2>2, <2>3
<1>7. CASE Rollback
  BY <1>7 DEF Rollback, UndoStop, UndoRestore, UndoRemove, Recover, RecoverStart,
              RecoverProbe, RecoverActivate, RestoreStrict, InstallFails
<1>8. CASE Others
  <2>1. CASE Remove \/ Forget
    BY <2>1 DEF Remove, Forget
  <2>2. CASE StartService \/ StartActivates
    BY <2>2 DEF StartService, StartActivates
  <2>3. CASE Restart
    BY <2>3 DEF Restart
  <2> QED BY <1>8, <2>1, <2>2, <2>3 DEF Others
<1>9. ASSUME NEW p \in Profiles, Install(p) PROVE (KindAt /\ Remembered)'
  <2>1. /\ cmd'.kind = "install" /\ cmd'.profile = p
        /\ cmd'.installed = FALSE /\ cmd'.running = FALSE
    BY <1>9 DEF Install
  <2>2. before' = Nothing /\ before'.unit = None /\ before'.running = FALSE
    BY <1>9 DEF Install
  <2>3. pc' = "assess"
    BY <1>9 DEF Install
  <2> QED BY <2>1, <2>2, <2>3
<1>10. CASE Uninstall \/ ServiceStop \/ ServiceStart \/ Upgrade
  BY <1>10 DEF Uninstall, ServiceStop, ServiceStart, Upgrade, Begin
<1> QED BY <1>1, <1>2, <1>3, <1>4, <1>5, <1>6, <1>7, <1>8, <1>9, <1>10
           DEF Next, Host, Beside, Command, Forwards

\* Each step finds the service and the record that it needs.
LEMMA StepKept ==
  ASSUME IInv, [Next]_vars PROVE StepAt'
<1> USE DEF IInv, StepAt, KindAt, Recoverable, Recovered, InstallOnly, Backward, NoCommand,
            Goto, Undo, Return
<1>0. cmd \in Cmds /\ unit \in Units
  BY TwoTypes DEF CmdTyped, HostTyped
<1>1. CASE Beside
  <2>1. UNCHANGED unit
    BY <1>1 DEF Beside, Bind, BindFails, Restarted, Hook, HookAgain, Crash, ForeignComes,
                ForeignGoes, vars, host
  <2> QED BY <1>1, <2>1, BesideIsQuiet DEF quiet
<1>2. CASE Patch
  <2>1. unit # None => unit' # None
    <3>1. ASSUME unit # None PROVE unit' \in [profile : Profiles, restart : BOOLEAN]
      BY <1>0, <1>2, <3>1 DEF Patch, Units, Fails, host
    <3> QED BY <3>1, ProfilesAssumption
  <2> QED BY <1>2, <2>1 DEF Patch
<1>3. CASE Register \/ Recover
  <2>1. ASSUME NEW p \in Profiles PROVE [profile |-> p, restart |-> FALSE] # None
    <3>1. [profile |-> p, restart |-> FALSE] \in [profile : Profiles, restart : BOOLEAN]
      OBVIOUS
    <3> QED BY <3>1, ProfilesAssumption
  <2>2. CASE Register
    BY <2>1, <2>2 DEF Register, SvcInstall
  <2>3. CASE Recover
    <3>1. cmd.state \in Profiles
      BY <1>0, <2>3 DEF Recover, Cmds, Maybe
    <3> QED BY <2>1, <2>3, <3>1 DEF Recover, SvcInstall
  <2> QED BY <1>3, <2>2, <2>3
<1>4. CASE StopService \/ RestoreDNS \/ Kill \/ Assess
  BY <1>4 DEF StopService, RestoreDNS, Kill, Assess
<1>5. CASE RemovePrevious \/ PortFree \/ PortHeld \/ LaunchService \/ Withdraw
  BY <1>5 DEF RemovePrevious, PortFree, PortHeld, LaunchService, Withdraw
<1>6. CASE PersistToken \/ Preflight \/ ActivateDNS \/ PersistInstallState
  BY <1>6 DEF PersistToken, Preflight, ActivateDNS, PersistInstallState
<1>7. CASE UndoStop \/ UndoRestore \/ UndoRemove
  BY <1>7 DEF UndoStop, UndoRestore, UndoRemove
<1>8. CASE RecoverStart \/ RecoverProbe \/ RecoverActivate \/ RestoreStrict \/ InstallFails
  BY <1>8 DEF RecoverStart, RecoverProbe, RecoverActivate, RestoreStrict, InstallFails,
              SvcStart, Fails, host
<1>9. CASE Others
  BY <1>9 DEF Others, Remove, Forget, StartService, StartActivates, Restart
<1>10. CASE Begins
  BY <1>10 DEF Begins, Install, Uninstall, ServiceStop, ServiceStart, Upgrade, Begin
<1> QED BY <1>1, <1>2, <1>3, <1>4, <1>5, <1>6, <1>7, <1>8, <1>9, <1>10
           DEF Begins, Next, Host, Beside, Command, Shared, Forwards, Rollback

\* A rollback that recovers a service follows a step that failed.
LEMMA BlameKept ==
  ASSUME IInv, [Next]_vars PROVE Blame'
<1> USE DEF IInv, Blame, KindAt, InstallOnly, Backward, NoCommand, Goto, Undo, Return, Mishap,
            Works, Fails, host
<1>0. cmd \in Cmds /\ mishaps \in Nat /\ cmd.spent \in Nat
  BY TwoTypes, MishapsAssumption DEF CmdTyped, Cmds
<1>1. CASE Beside
  <2>1. mishaps' \in {mishaps, mishaps + 1}
    BY <1>1 DEF Beside, Bind, BindFails, Restarted, Hook, HookAgain, Crash, ForeignComes,
                ForeignGoes, vars
  <2>2. foreign' => foreign \/ "foreign" \in may
    BY <1>1 DEF Beside, Bind, BindFails, Restarted, Hook, HookAgain, Crash, ForeignComes,
                ForeignGoes, vars
  <2> QED BY <2>2, <1>0, <1>1, <2>1, BesideIsQuiet DEF quiet
<1>2. CASE Assess
  <2>1. cmd'.spent = cmd.spent /\ mishaps' \in {mishaps, mishaps + 1}
    BY <1>0, <1>2 DEF Assess, Cmds
  <2> QED BY <1>0, <1>2, <2>1 DEF Assess
<1>3. CASE PersistToken
  <2>1. mishaps' \in {mishaps, mishaps + 1} /\ UNCHANGED foreign
    BY <1>3 DEF PersistToken
  <2> QED BY <1>0, <1>3, <2>1 DEF PersistToken
<1>4. CASE Shared \/ Kill
  <2>1. mishaps' \in {mishaps, mishaps + 1} /\ UNCHANGED foreign
    BY <1>4 DEF Shared, Patch, StopService, RestoreDNS, Kill, SvcStop, SetDNS
  <2>2. CASE Return
    BY <1>0, <2>1, <2>2
  <2>3. CASE ~Return
    BY <1>0, <1>4, <2>1, <2>3 DEF Shared, Patch, StopService, RestoreDNS, Kill
  <2> QED BY <2>2, <2>3
<1>5. CASE RemovePrevious \/ PortFree \/ PortHeld
  <2>1. CASE RemovePrevious \/ PortFree
    BY <1>0, <2>1 DEF RemovePrevious, PortFree, SvcUninstall
  <2>2. CASE PortHeld
    <3>1. cmd'.spent = mishaps /\ cmd'.installed = FALSE
      BY <1>0, <2>2 DEF PortHeld, Cmds
    <3> QED BY <1>0, <2>2, <3>1 DEF PortHeld
  <2> QED BY <1>5, <2>1, <2>2
<1>6. CASE Register \/ LaunchService \/ Withdraw
  BY <1>0, <1>6 DEF Register, LaunchService, Withdraw, SvcInstall, SvcStart, SvcUninstall,
                    Cmds
<1>7. CASE Preflight \/ ActivateDNS \/ PersistInstallState
  BY <1>0, <1>7 DEF Preflight, ActivateDNS, PersistInstallState, SetDNS, Cmds
<1>8. CASE UndoStop \/ UndoRestore \/ UndoRemove \/ Recover
  BY <1>0, <1>8 DEF UndoStop, UndoRestore, UndoRemove, Recover, SvcStop, SetDNS, SvcUninstall,
                    SvcInstall
<1>9. CASE RecoverStart \/ RecoverProbe \/ RecoverActivate \/ RestoreStrict \/ InstallFails
  BY <1>0, <1>9 DEF RecoverStart, RecoverProbe, RecoverActivate, RestoreStrict, InstallFails,
                    SvcStart, SetDNS
<1>10. CASE Others
  <2>1. mishaps' \in {mishaps, mishaps + 1} /\ UNCHANGED foreign
    BY <1>10 DEF Others, Remove, Forget, StartService, StartActivates, Restart, SvcUninstall,
                 SvcStart, SetDNS
  <2>2. CASE Return
    BY <1>0, <2>1, <2>2
  <2>3. CASE ~Return
    BY <1>0, <1>10, <2>1, <2>3 DEF Others, Remove, Forget, StartService, StartActivates,
                                   Restart
  <2> QED BY <2>2, <2>3
<1>11. CASE Begins
  <2>1. cmd'.spent = 0 /\ UNCHANGED <<may, mishaps, foreign>>
    BY <1>11 DEF Begins, Install, Uninstall, ServiceStop, ServiceStart, Upgrade, Begin
  <2>2. pc' \in {"assess", "stop", "launch", "patch"}
    BY <1>11 DEF Begins, Install, Uninstall, ServiceStop, ServiceStart, Upgrade, Begin
  <2> QED BY <1>0, <2>1, <2>2
<1> QED BY <1>1, <1>2, <1>3, <1>4, <1>5, <1>6, <1>7, <1>8, <1>9, <1>10, <1>11
           DEF Begins, Next, Host, Beside, Command, Forwards, Rollback

-----------------------------------------------------------------------------
(* The inductive invariant.                                                *)

\* The invariant holds at first.
LEMMA InitHolds == Init => IInv
<1> SUFFICES ASSUME Init PROVE IInv
  OBVIOUS
<1> PICK p \in Profiles :
      \/ unit = None /\ stored = None /\ wanted = FALSE
      \/ unit = [profile |-> p, restart |-> TRUE] /\ stored \in {p, None} /\ wanted \in BOOLEAN
  BY DEF Init
<1>1. HostTyped
  <2>1. p # None
    BY ProfilesAssumption
  <2>2. unit \in Units
    <3>1. [profile |-> p, restart |-> TRUE] \in [profile : Profiles, restart : BOOLEAN]
      OBVIOUS
    <3> QED BY <3>1 DEF Units
  <2>4. stored \in Maybe
    BY DEF Maybe
  <2>5. wanted \in BOOLEAN
    OBVIOUS
  <2>3. wanted => unit.profile = p
    OBVIOUS
  <2> QED BY <2>1, <2>2, <2>3, <2>4, <2>5 DEF Init, HostTyped, Maybe
<1>2. CmdTyped
  BY NoCommandTyped, MishapsAssumption DEF Init, CmdTyped, Nothing, Units, Maybe
<1>3. KindAt /\ Remembered /\ StepAt
  BY NoCommandTyped DEF Init, KindAt, Remembered, StepAt, InstallOnly, Backward
<1>4. Blame
  BY DEF Init, Blame, Backward, NoCommand
<1> QED BY <1>1, <1>2, <1>3, <1>4, TwoTypes DEF IInv

\* The inductive invariant: the types, whose step each step is, what an install
\* remembers and finds, and why it fails.
THEOREM Inductive == Spec => []IInv
<1>1. IInv /\ [Next]_vars => IInv'
  <2> SUFFICES ASSUME IInv, [Next]_vars PROVE IInv'
    OBVIOUS
  <2>1. TypeOK'
    BY HostKept, CmdKept DEF TypeOK, HostTyped, CmdTyped, Cmds, Steps
  <2> QED BY <2>1, KindKept, StepKept, BlameKept DEF IInv
<1> QED BY InitHolds, <1>1, PTL DEF Spec

\* The types of the host's and the command's state (install.go, control.go).
THEOREM TypeCorrect == Spec => []TypeOK
<1>1. IInv => TypeOK
  BY DEF IInv
<1> QED BY Inductive, <1>1, PTL

-----------------------------------------------------------------------------
(* What a rollback achieves.                                               *)

\* In no scenario do steps fail and another program take the port: a rollback would
\* put the previous service back and it could not bind.
Apart == \A s \in Scenarios : ~({"step", "foreign"} \subseteq s)

Down == daemon = "down" /\ ~wanted

\* What a rollback has achieved if nothing else went wrong.
Achieved ==
  pc \in Backward \cup {"failed"} /\ mishaps = cmd.spent =>
    /\ pc \in {"undoRestore", "undoRemove", "recover", "relaunch"} => Down
    /\ pc \in {"undoRemove", "recover", "relaunch"} => dns = "default"
    /\ pc \in {"probe", "reactivate"} => Up
    /\ pc \in {"strict", "failed"} =>
         /\ ~Recoverable => unit = None /\ Down
         /\ Recoverable => Recovered /\ (IF cmd.running THEN Up ELSE Down)
    /\ pc = "strict" /\ Recoverable => ~(cmd.running /\ cmd.dns)
    /\ pc = "failed" =>
         IF Recoverable /\ cmd.running THEN cmd.dns => dns = "loopback" ELSE dns = "default"

\* Each step of a rollback achieves its part.
LEMMA AchievedKept ==
  ASSUME Apart, IInv, Achieved, [Next]_vars PROVE Achieved'
<1> USE DEF IInv, Achieved, Blame, KindAt, StepAt, Recoverable, Recovered, Down, Up,
            InstallOnly, Backward, NoCommand, Goto, Undo, Return, Mishap, Works, Fails, host
<1>0. cmd \in Cmds /\ unit \in Units /\ mishaps \in Nat /\ may \in Scenarios
      /\ daemon \in {"down", "binding", "serving", "managing"}
  BY TwoTypes, MishapsAssumption DEF CmdTyped, HostTyped
<1>1. CASE Bind \/ BindFails
  BY <1>0, <1>1 DEF Apart, Bind, BindFails, quiet
<1>2. CASE Restarted
  BY <1>0, <1>2 DEF Restarted, Up, quiet
<1>3. CASE Hook \/ HookAgain
  <2>1. CASE Hook
    BY <1>0, <2>1 DEF Hook, quiet
  <2>2. CASE HookAgain
    BY <1>0, <2>2 DEF HookAgain, quiet
  <2> QED BY <1>3, <2>1, <2>2
<1>4. CASE Crash \/ ForeignComes
  <2>1. mishaps' # cmd'.spent
    BY <1>0, <1>4 DEF Crash, ForeignComes, quiet
  <2> QED BY <2>1
<1>5. CASE ForeignGoes
  BY <1>0, <1>5 DEF ForeignGoes, quiet
<1>6. CASE UNCHANGED vars
  BY <1>6 DEF vars
<1>7. CASE Kill \/ Patch \/ StopService \/ RestoreDNS
  BY <1>7 DEF Kill, Patch, StopService, RestoreDNS
<1>8. CASE Assess \/ RemovePrevious \/ PortFree \/ PortHeld
  BY <1>8 DEF Assess, RemovePrevious, PortFree, PortHeld
<1>9. CASE Register \/ LaunchService \/ Withdraw
  BY <1>9 DEF Register, LaunchService, Withdraw
<1>10. CASE PersistToken \/ Preflight \/ ActivateDNS \/ PersistInstallState
  BY <1>10 DEF PersistToken, Preflight, ActivateDNS, PersistInstallState
<1>11. CASE UndoStop \/ UndoRestore
  BY <1>0, <1>11 DEF UndoStop, UndoRestore, SvcStop, SetDNS
<1>12. CASE UndoRemove
  BY <1>0, <1>12 DEF UndoRemove, SvcUninstall
<1>13. CASE Recover
  <2>1. CASE SvcInstall(cmd.state)
    <3>1. unit' # None /\ unit'.profile = cmd.state
      <4>1. cmd.state \in Profiles
        BY <1>0, <1>13 DEF Recover, Cmds, Maybe
      <4>2. unit' \in [profile : Profiles, restart : BOOLEAN] /\ unit'.profile = cmd.state
        BY <2>1, <4>1 DEF SvcInstall
      <4> QED BY <4>2, ProfilesAssumption
    <3> QED BY <1>0, <1>13, <2>1, <3>1 DEF Recover, SvcInstall
  <2>2. CASE Fails
    BY <1>0, <1>13, <2>2 DEF Recover
  <2> QED BY <1>13, <2>1, <2>2 DEF Recover
<1>14. CASE RecoverStart
  BY <1>0, <1>14 DEF RecoverStart, SvcStart, Up
<1>15. CASE RecoverProbe
  <2>1. CASE (Serving \/ foreign) /\ Works /\ Goto(IF cmd.dns THEN "reactivate" ELSE "strict")
    <3>1. ~foreign
      BY <1>0, <1>15 DEF Apart, RecoverProbe
    <3>2. Up
      BY <2>1, <3>1 DEF Serving
    <3> QED BY <1>0, <1>15, <2>1, <3>2 DEF RecoverProbe
  <2>2. CASE ~Up /\ Works /\ Goto("strict")
    BY <1>0, <1>15, <2>2 DEF RecoverProbe
  <2>3. CASE Mishap("step")
    BY <1>0, <1>15, <2>3 DEF RecoverProbe
  <2> QED BY <1>15, <2>1, <2>2, <2>3 DEF RecoverProbe
<1>16. CASE RecoverActivate \/ RestoreStrict \/ InstallFails
  BY <1>0, <1>16 DEF RecoverActivate, RestoreStrict, InstallFails, SetDNS
<1>17. CASE Others
  BY <1>17 DEF Others, Remove, Forget, StartService, StartActivates, Restart
<1>18. CASE Begins
  BY <1>18 DEF Begins, Install, Uninstall, ServiceStop, ServiceStart, Upgrade, Begin
<1> QED BY <1>1, <1>2, <1>3, <1>4, <1>5, <1>6, <1>7, <1>8, <1>9, <1>10, <1>11, <1>12, <1>13,
           <1>14, <1>15, <1>16, <1>17, <1>18
        DEF Begins, Next, Host, Command, Shared, Forwards, Rollback

\* A rollback that nothing disturbs gives back the service the host had, where
\* nothing both fails and takes the port away (install.go 174-217).
THEOREM RollbackRestoresService ==
  ASSUME Apart PROVE Spec => []RollbackRestores
<1>1. Init => Achieved
  BY DEF Init, Achieved, Backward
<1>2. IInv /\ Achieved /\ [Next]_vars => Achieved'
  <2> SUFFICES ASSUME IInv, Achieved, [Next]_vars PROVE Achieved'
    OBVIOUS
  <2> QED BY AchievedKept
<1>3. IInv /\ Achieved => RollbackRestores
  <2> SUFFICES ASSUME IInv, Achieved, pc = "failed", mishaps = cmd.spent
               PROVE  RollbackRestores
    BY DEF RollbackRestores
  <2>1. /\ cmd.installed = (before.unit # None) /\ cmd.running = before.running
        /\ before.unit # None => cmd.state = before.stored
    BY DEF IInv, KindAt, Remembered, InstallOnly
  <2>2. /\ ~Recoverable => unit = None /\ Down
        /\ Recoverable => Recovered /\ (IF cmd.running THEN Up ELSE Down)
        /\ IF Recoverable /\ cmd.running THEN cmd.dns => dns = "loopback" ELSE dns = "default"
    BY DEF Achieved
  <2>3. CASE before.unit = None
    BY <2>1, <2>2, <2>3 DEF RollbackRestores, Recoverable, Down, Up
  <2>4. CASE before.unit # None
    <3>1. before.unit.profile # None
      BY <2>4, TwoTypes, ProfilesAssumption DEF IInv, CmdTyped, Units
    <3>2. before.running \in BOOLEAN
      BY TwoTypes DEF IInv, CmdTyped
    <3> QED BY <2>1, <2>2, <2>4, <3>1, <3>2 DEF RollbackRestores, Recoverable, Recovered,
               Down, Up
  <2> QED BY <2>3, <2>4
<1> QED BY Inductive, <1>1, <1>2, <1>3, PTL DEF Spec

-----------------------------------------------------------------------------
(* Outages.                                                                *)

\* What fails and what dies by itself happen in different scenarios: a unit that
\* could not be patched does not bring back a daemon that crashes.
Sheltered ==
  \A s \in Scenarios : s \subseteq {"step", "kill"} \/ s \subseteq {"crash", "foreign"}

\* Where no daemon dies by itself, nothing but a stop takes it away.
WhileStepsFail ==
  /\ pc \in {"token", "preflight", "activate", "probe", "reactivate"} => Up
  /\ dns = "loopback" => Up \/ pc \in {"restore", "undoRestore"}

\* Where no step fails, a service that is wanted is supervised, or is being
\* replaced.
WhileDaemonsDie ==
  /\ unit # None => unit.restart \/ pc = "patch"
  /\ wanted => unit # None \/ pc \in {"port", "register", "undoStop"}
  /\ dns = "loopback" => wanted \/ pc \in {"restore", "undoRestore"}
  /\ pc \in {"token", "preflight", "activate"} => wanted
  /\ pc \in {"undoRestore", "undoRemove", "strict", "failed"} => ~wanted
  /\ pc \in {"restore", "remove"} /\ cmd.kind # "install" => ~wanted

OutInv ==
  /\ Up => wanted
  /\ may \subseteq {"step", "kill"} => WhileStepsFail
  /\ may \subseteq {"crash", "foreign"} => WhileDaemonsDie

\* A scenario does not change.
LEMMA MayStays ==
  ASSUME [Next]_vars PROVE UNCHANGED may
<1>1. CASE Beside
  BY <1>1, BesideIsQuiet DEF quiet
<1>2. CASE Shared \/ Kill \/ Others
  BY <1>2 DEF Shared, Patch, StopService, RestoreDNS, Kill, Others, Remove, Forget,
              StartService, StartActivates, Restart, Goto, Return
<1>3. CASE Forwards
  BY <1>3 DEF Forwards, Assess, RemovePrevious, PortFree, PortHeld, Register, LaunchService,
              Withdraw, PersistToken, Preflight, ActivateDNS, PersistInstallState, Goto, Undo,
              Return
<1>4. CASE Rollback
  BY <1>4 DEF Rollback, UndoStop, UndoRestore, UndoRemove, Recover, RecoverStart,
              RecoverProbe, RecoverActivate, RestoreStrict, InstallFails, Goto, Return
<1>5. CASE Begins
  BY <1>5 DEF Begins, Install, Uninstall, ServiceStop, ServiceStart, Upgrade, Begin
<1> QED BY <1>1, <1>2, <1>3, <1>4, <1>5 DEF Begins, Next, Host, Beside, Command

\* A daemon that is up was asked for.
LEMMA WantedKept ==
  ASSUME Up => wanted, [Next]_vars PROVE (Up => wanted)'
<1> USE DEF Up, SvcStop, SvcUninstall, SvcInstall, SvcStart, SetDNS, Fails, host
<1>1. CASE Beside
  BY <1>1 DEF Beside, Bind, BindFails, Restarted, Hook, HookAgain, Crash, ForeignComes,
              ForeignGoes, vars
<1>2. CASE Shared \/ Kill \/ Others
  BY <1>2 DEF Shared, Patch, StopService, RestoreDNS, Kill, Others, Remove, Forget,
              StartService, StartActivates, Restart
<1>3. CASE Forwards
  BY <1>3 DEF Forwards, Assess, RemovePrevious, PortFree, PortHeld, Register, LaunchService,
              Withdraw, PersistToken, Preflight, ActivateDNS, PersistInstallState
<1>4. CASE Rollback
  BY <1>4 DEF Rollback, UndoStop, UndoRestore, UndoRemove, Recover, RecoverStart,
              RecoverProbe, RecoverActivate, RestoreStrict, InstallFails
<1>5. CASE Begins
  BY <1>5 DEF Begins, Install, Uninstall, ServiceStop, ServiceStart, Upgrade, Begin
<1> QED BY <1>1, <1>2, <1>3, <1>4, <1>5 DEF Begins, Next, Host, Beside, Command

\* Where no daemon dies by itself, a step leaves DNS at a daemon that is up.
LEMMA StepsFailKept ==
  ASSUME IInv, may \subseteq {"step", "kill"}, WhileStepsFail, [Next]_vars
  PROVE  WhileStepsFail'
<1> USE DEF IInv, WhileStepsFail, KindAt, InstallOnly, Backward, Blame, Up, Mishap, SvcStop,
            SvcUninstall, SvcInstall, SvcStart, SetDNS, Works, Fails, host, Goto, Undo, Return
<1>1. CASE Bind \/ BindFails \/ Restarted \/ Hook \/ HookAgain
  BY <1>1 DEF Bind, BindFails, Restarted, Hook, HookAgain, quiet
<1>2. CASE Crash \/ ForeignComes \/ ForeignGoes \/ UNCHANGED vars
  BY <1>2 DEF Crash, ForeignComes, ForeignGoes, vars, quiet
<1>3. CASE Kill \/ Patch \/ StopService \/ RestoreDNS
  BY <1>3 DEF Kill, Patch, StopService, RestoreDNS
<1>4. CASE Assess \/ RemovePrevious \/ PortFree \/ PortHeld
  BY <1>4 DEF Assess, RemovePrevious, PortFree, PortHeld
<1>5. CASE Register \/ LaunchService \/ Withdraw
  BY <1>5 DEF Register, LaunchService, Withdraw
<1>6. CASE PersistToken \/ Preflight \/ ActivateDNS \/ PersistInstallState
  BY <1>6 DEF PersistToken, Preflight, ActivateDNS, PersistInstallState
<1>7. CASE UndoStop \/ UndoRestore \/ UndoRemove \/ Recover
  BY <1>7 DEF UndoStop, UndoRestore, UndoRemove, Recover
<1>8. CASE RecoverStart \/ RecoverProbe \/ RecoverActivate \/ RestoreStrict \/ InstallFails
  BY <1>8 DEF RecoverStart, RecoverProbe, RecoverActivate, RestoreStrict, InstallFails
<1>9. CASE Remove \/ Forget \/ Restart
  BY <1>9 DEF Remove, Forget, Restart
<1>10. CASE StartService \/ StartActivates
  BY <1>10 DEF StartService, StartActivates
<1>11. CASE Begins
  BY <1>11 DEF Begins, Install, Uninstall, ServiceStop, ServiceStart, Upgrade, Begin
<1> QED BY <1>1, <1>2, <1>3, <1>4, <1>5, <1>6, <1>7, <1>8, <1>9, <1>10, <1>11
           DEF Begins, Next, Host, Command, Shared, Forwards, Rollback, Others

\* Where no step fails, a step leaves DNS at a service that comes back.
LEMMA DaemonsDieKept ==
  ASSUME IInv, may \subseteq {"crash", "foreign"}, Up => wanted, WhileDaemonsDie, [Next]_vars
  PROVE  WhileDaemonsDie'
<1> USE DEF IInv, WhileDaemonsDie, KindAt, StepAt, InstallOnly, Backward, Blame, Up, Mishap,
            SvcStop, SvcUninstall, SvcInstall, SvcStart, SetDNS, Works, Fails, host, Goto,
            Undo, Return, NoCommand
<1>0. cmd \in Cmds /\ unit \in Units
  BY TwoTypes DEF CmdTyped, HostTyped
<1>1. CASE Bind \/ BindFails \/ Restarted \/ Hook \/ HookAgain
  BY <1>1 DEF Bind, BindFails, Restarted, Hook, HookAgain, quiet
<1>2. CASE Crash \/ ForeignComes \/ ForeignGoes \/ UNCHANGED vars
  BY <1>2 DEF Crash, ForeignComes, ForeignGoes, vars, quiet
<1>3. CASE Patch
  <2>1. /\ unit' # None => unit # None /\ unit'.restart
        /\ unit # None => unit' # None
        /\ UNCHANGED <<wanted, dns>>
    <3>1. CASE unit # None
      <4>1. unit' = [unit EXCEPT !.restart = TRUE] /\ UNCHANGED <<wanted, dns>>
        BY <1>3, <3>1 DEF Patch
      <4>2. unit \in [profile : Profiles, restart : BOOLEAN]
        BY <1>0, <3>1 DEF Units
      <4>3. unit' \in [profile : Profiles, restart : BOOLEAN] /\ unit'.restart
        BY <4>1, <4>2
      <4> QED BY <3>1, <4>1, <4>3, ProfilesAssumption
    <3>2. CASE unit = None
      BY <1>3, <3>2 DEF Patch
    <3> QED BY <3>1, <3>2
  <2> QED BY <1>3, <2>1 DEF Patch
<1>4. CASE Kill \/ StopService \/ RestoreDNS
  BY <1>4 DEF Kill, StopService, RestoreDNS
<1>5. CASE Assess \/ RemovePrevious \/ PortFree \/ PortHeld
  <2>1. CASE Assess
    BY <1>0, <2>1 DEF Assess, Cmds
  <2>2. CASE RemovePrevious \/ PortFree
    BY <2>2 DEF RemovePrevious, PortFree
  <2>3. CASE PortHeld
    BY <1>0, <2>3 DEF PortHeld, Cmds
  <2> QED BY <1>5, <2>1, <2>2, <2>3
<1>6. CASE Register
  <2>1. pc' = "patch" /\ UNCHANGED <<wanted, dns>>
    BY <1>6 DEF Register
  <2>2. unit' # None
    <3>1. cmd.profile \in Profiles
      BY <1>6 DEF Register
    <3>2. unit' = [profile |-> cmd.profile, restart |-> FALSE]
      BY <1>6 DEF Register
    <3>3. unit' \in [profile : Profiles, restart : BOOLEAN]
      BY <3>1, <3>2
    <3> QED BY <3>3, ProfilesAssumption
  <2> QED BY <1>6, <2>1, <2>2 DEF Register
<1>7. CASE LaunchService \/ Withdraw
  BY <1>7 DEF LaunchService, Withdraw
<1>8. CASE PersistToken \/ Preflight \/ ActivateDNS \/ PersistInstallState
  <2>1. UNCHANGED <<unit, wanted>> /\ (dns' = "loopback" => dns = "loopback" \/ pc = "activate")
    BY <1>8 DEF PersistToken, Preflight, ActivateDNS, PersistInstallState
  <2>2. pc' \in {"preflight", "activate", "persist", "idle"}
    BY <1>8 DEF PersistToken, Preflight, ActivateDNS, PersistInstallState
  <2> QED BY <1>8, <2>1, <2>2 DEF PersistToken, Preflight, ActivateDNS, PersistInstallState
<1>9. CASE UndoStop \/ UndoRestore \/ UndoRemove \/ Recover
  BY <1>9 DEF UndoStop, UndoRestore, UndoRemove, Recover, Recoverable
<1>10. CASE RecoverStart \/ RecoverProbe \/ RecoverActivate \/ RestoreStrict \/ InstallFails
  BY <1>10 DEF RecoverStart, RecoverProbe, RecoverActivate, RestoreStrict, InstallFails,
               Recoverable
<1>11. CASE Remove \/ Forget \/ Restart
  BY <1>11 DEF Remove, Forget, Restart
<1>12. CASE StartService \/ StartActivates
  BY <1>12 DEF StartService, StartActivates
<1>13. CASE Begins
  <2>1. UNCHANGED host /\ pc = "idle"
    BY <1>13 DEF Begins, Install, Uninstall, ServiceStop, ServiceStart, Upgrade, Begin
  <2>2. pc' \in {"assess", "stop", "launch", "patch"}
    BY <1>13 DEF Begins, Install, Uninstall, ServiceStop, ServiceStart, Upgrade, Begin
  <2> QED BY <2>1, <2>2
<1> QED BY <1>1, <1>2, <1>3, <1>4, <1>5, <1>6, <1>7, <1>8, <1>9, <1>10, <1>11, <1>12, <1>13
           DEF Begins, Next, Host, Command, Shared, Forwards, Rollback, Others

\* Where what fails and what dies by itself are kept apart, whatever leaves the
\* system asking a proxy that is not there, there is always something that ends it.
THEOREM NoLastingOutage ==
  ASSUME Sheltered PROVE Spec => []OutageIsMended
<1>1. Init => OutInv
  <2> SUFFICES ASSUME Init PROVE OutInv
    OBVIOUS
  <2> PICK p \in Profiles :
        \/ unit = None /\ stored = None /\ wanted = FALSE
        \/ unit = [profile |-> p, restart |-> TRUE] /\ stored \in {p, None} /\ wanted \in
            BOOLEAN
    BY DEF Init
  <2>1. [profile |-> p, restart |-> TRUE] # None
    <3>1. [profile |-> p, restart |-> TRUE] \in [profile : Profiles, restart : BOOLEAN]
      OBVIOUS
    <3> QED BY <3>1, ProfilesAssumption
  <2>2. (Up => wanted) /\ (dns = "loopback" => Up)
    BY DEF Init, Up
  <2>3. (dns = "loopback" => wanted) /\ (wanted => unit # None) /\ (unit # None => unit.restart)
    BY <2>1 DEF Init
  <2> QED BY <2>2, <2>3 DEF Init, OutInv, WhileStepsFail, WhileDaemonsDie, Up
<1>2. IInv /\ OutInv /\ [Next]_vars => OutInv'
  <2> SUFFICES ASSUME IInv, OutInv, [Next]_vars PROVE OutInv'
    OBVIOUS
  <2> QED BY MayStays, WantedKept, StepsFailKept, DaemonsDieKept DEF OutInv
<1>3. IInv /\ OutInv => OutageIsMended
  <2> SUFFICES ASSUME IInv, OutInv, ~Available PROVE OutageIsMended
    BY DEF OutageIsMended
  <2>1. dns = "loopback" /\ daemon \in {"down", "binding"}
    BY TwoTypes DEF IInv, HostTyped, Available, Serving
  <2>2. CASE may \subseteq {"step", "kill"}
    BY <2>1, <2>2 DEF OutInv, WhileStepsFail, OutageIsMended, Up
  <2>3. CASE may \subseteq {"crash", "foreign"}
    BY <2>1, <2>3 DEF OutInv, WhileDaemonsDie, OutageIsMended
  <2> QED BY <2>2, <2>3, TwoTypes DEF IInv, CmdTyped, Sheltered
<1> QED BY Inductive, <1>1, <1>2, <1>3, PTL DEF Spec

=============================================================================
