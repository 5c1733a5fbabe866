--------------------------- MODULE LinuxSystemDNS ---------------------------
(***************************************************************************)
(* System DNS on Linux (internal/core/linux_dns_configure.go and           *)
(* linux_dns_restore.go): an activation backs up resolv.conf, configures   *)
(* the DNS manager of the host and writes a managed resolv.conf; a restore *)
(* gives back what was there. The daemon and the command line do both, file *)
(* by file, and either may die or meet a failing command on the way.       *)
(*                                                                         *)
(* The host has one DNS manager. conf is the file of it that the client    *)
(* changes, confBak the backup of that file, loaded what the manager runs  *)
(* with. Where activations overlap, each look at resolv.conf and each change *)
(* of it is a step of its own.                                             *)
(***************************************************************************)

CONSTANTS
  Procs,        \* the processes: the daemon, commands
  Files,        \* contents the host gives a resolv.conf that is a file
  Scenarios     \* what may happen together

VARIABLES
  sc,           \* the scenario; it does not change
  manager,      \* what detectLinuxDNSManager finds
  resolv,       \* resolv.conf
  bak,          \* resolv.conf.ublockdns.bak
  locked,       \* resolv.conf is immutable (chattr +i)
  conf, confBak, loaded,
  own, ownConf, \* what the host itself had last in resolv.conf and in conf
  pc,           \* where each process is, or how its last call ended
  loc           \* the local variables of that call

hostVars   == <<sc, manager, own, ownConf>>
resolvVars == <<resolv, bak, locked>>
confVars   == <<conf, confBak, loaded>>
vars       == <<hostVars, resolvVars, confVars, pc, loc>>

Own        == Files \cup {"link"}
DropIn     == {"systemd-resolved", "networkmanager"}
WithBackup == {"connman", "resolvconf"}
Managers   == DropIn \cup WithBackup \cup {"dhclient", "none"}

\* own: the host's; pinned: the host's, with the line that would be added;
\* ours: ours alone; mixed: ours in the host's; rest: what is left of ours;
\* legacy: written by a version that set no marker.
Confs == {"absent", "own", "pinned", "ours", "mixed", "rest", "legacy"}

Resting    == {"idle", "activated", "restored", "failed"}
Activating == {"stat", "read", "backup", "confBackup", "confWrite", "confRestart",
               "unlock", "lstat", "unlink", "manage", "lock", "restart"}
Restoring  == {"rUnlock", "rRead", "rRemove", "rWrite", "rForget", "rConf",
               "rConfForget", "rClean", "rCleanRemove", "rRestart"}

ASSUME ScenariosAssumption ==
  Scenarios \subseteq
    [start : SUBSET (Own \cup {"absent"}), edits : BOOLEAN, fails : BOOLEAN,
     overlap : {"none", "activations", "restores"}, crash : SUBSET (Activating \cup Restoring)]

ASSUME FilesAssumption == Files \cap {"absent", "managed", "link"} = {}

TypeOK ==
  /\ sc \in Scenarios /\ manager \in Managers
  /\ resolv \in Own \cup {"absent", "managed"}
  /\ bak \in Own \cup {"absent", "managed"}
  /\ locked \in BOOLEAN /\ (locked => resolv \notin {"absent", "link"})
  /\ conf \in Confs /\ (manager \in DropIn => conf \in {"absent", "ours"})
  /\ confBak \in {"absent", "own", "rest"}
  /\ manager \notin WithBackup => confBak = "absent"
  /\ loaded \in {"own", "ours"}
  /\ own \in Own \cup {"absent"} /\ ownConf \in {"absent", "own", "pinned"}
  /\ pc \in [Procs -> Resting \cup Activating \cup Restoring]
  /\ loc \in [Procs -> [data : Own \cup {"absent", "managed"}, restored : BOOLEAN,
                        changed : BOOLEAN, err : BOOLEAN]]

ConfInit ==
  [m \in Managers |-> CASE m = "connman"    -> {"absent", "own", "pinned", "legacy"}
                        [] m = "dhclient"   -> {"absent", "own", "pinned"}
                        [] m = "resolvconf" -> {"absent", "own"}
                        [] OTHER            -> {"absent"}]

Fresh == [data |-> "absent", restored |-> FALSE, changed |-> FALSE, err |-> FALSE]

Init ==
  /\ sc \in Scenarios /\ manager \in Managers
  /\ resolv \in sc.start /\ own = resolv
  /\ bak = "absent" /\ locked = FALSE
  /\ conf \in ConfInit[manager] /\ confBak = "absent"
  /\ loaded = IF conf = "legacy" THEN "ours" ELSE "own"
  /\ ownConf = IF conf = "legacy" THEN "absent" ELSE conf
  /\ pc = [p \in Procs |-> "idle"]
  /\ loc = [p \in Procs |-> Fresh]

Goto(p, next) == pc' = [pc EXCEPT ![p] = next]

\* What a manager that is restarted runs with.
Effective == IF conf \in {"ours", "mixed", "legacy"} THEN "ours" ELSE "own"

\* chattr -i is tried on a file, and its failure is only logged.
TryUnlock == locked' \in IF sc.fails THEN {FALSE, locked} ELSE {FALSE}

\* The code has no lock: what may run beside what is the scenario's. The sound
\* ones (LinuxSystemDNSProofs) have at most activations of a host that has a
\* backup; a restore beside an activation is there to be seen to lose the file.
Beside(p, others) == \A q \in Procs \ {p} : pc[q] \in Resting \cup others
Alone(p)          == Beside(p, {})

Begin(p, next) ==
  /\ pc[p] \in Resting
  /\ pc' = [q \in Procs |-> IF q = p THEN next
                            ELSE IF pc[q] \in Resting THEN "idle" ELSE pc[q]]
  /\ loc' = [loc EXCEPT ![p] = Fresh]
  /\ UNCHANGED <<hostVars, resolvVars, confVars>>

-----------------------------------------------------------------------------
(* ConfigureLinuxSystemDNS. Any error ends it.                             *)

Activate(p) ==
  /\ \/ Alone(p)
     \/ sc.overlap = "activations" /\ bak # "absent" /\ Beside(p, Activating)
     \/ sc.overlap = "restores" /\ Beside(p, Restoring)
  /\ Begin(p, "stat")

\* Mutant: a backup there is is not looked for.
StatNothing(p) ==
  /\ pc[p] = "stat"
  /\ Goto(p, "read")
  /\ UNCHANGED <<hostVars, resolvVars, confVars, loc>>

Stat(p) ==
  /\ pc[p] = "stat"
  /\ Goto(p, IF bak # "absent" THEN "confBackup" ELSE "read")
  /\ UNCHANGED <<hostVars, resolvVars, confVars, loc>>

Read(p) ==
  /\ pc[p] = "read"
  /\ loc' = [loc EXCEPT ![p].data = resolv]
  /\ Goto(p, IF resolv = "absent" THEN "confBackup" ELSE "backup")
  /\ UNCHANGED <<hostVars, resolvVars, confVars>>

Backup(p) ==
  /\ pc[p] = "backup"
  /\ bak' = loc[p].data
  /\ Goto(p, "confBackup")
  /\ UNCHANGED <<hostVars, resolv, locked, confVars, loc>>

\* The host's own file is backed up once, where a backup is kept at all.
BackedUp == manager \in WithBackup /\ conf \in {"own", "rest"} /\ confBak = "absent"

ConfBackup(p) ==
  /\ pc[p] = "confBackup"
  /\ confBak' = IF BackedUp THEN conf ELSE confBak
  /\ Goto(p, "confWrite")
  /\ UNCHANGED <<hostVars, resolvVars, conf, loaded, loc>>

Configured ==
  CASE manager \in DropIn \cup {"resolvconf"}                          -> "ours"
    [] manager = "connman" /\ conf = "absent"                          -> "ours"
    [] manager \in {"connman", "dhclient"} /\ conf \in {"own", "rest"} -> "mixed"
    [] OTHER                                                           -> conf

ConfWrite(p) ==
  /\ pc[p] = "confWrite"
  /\ conf' = Configured
  /\ Goto(p, IF manager = "systemd-resolved" THEN "confRestart" ELSE "unlock")
  /\ UNCHANGED <<hostVars, resolvVars, confBak, loaded, loc>>

ConfRestart(p) ==
  /\ pc[p] = "confRestart"
  /\ \/ loaded' = Effective /\ Goto(p, "unlock")
     \/ sc.fails /\ Goto(p, "failed") /\ UNCHANGED loaded
  /\ UNCHANGED <<hostVars, resolvVars, conf, confBak, loc>>

\* unlockResolvConf: what it looks at it changes in the same step, since a file
\* that has gone when chattr runs is one more way for chattr to fail.
Unlock(p) ==
  /\ pc[p] = "unlock"
  /\ TryUnlock
  /\ Goto(p, "lstat")
  /\ UNCHANGED <<hostVars, resolv, bak, confVars, loc>>

\* A symbolic link is removed, or its target would be overwritten.
Lstat(p) ==
  /\ pc[p] = "lstat"
  /\ Goto(p, IF resolv = "link" THEN "unlink" ELSE "manage")
  /\ UNCHANGED <<hostVars, resolvVars, confVars, loc>>

\* What is removed is what is there by now: another activation may have removed
\* the link, and written the managed file.
Unlink(p) ==
  /\ pc[p] = "unlink"
  /\ IF locked \/ resolv = "absent"
       THEN Goto(p, "failed") /\ UNCHANGED resolv
       ELSE Goto(p, "manage") /\ resolv' = "absent"
  /\ UNCHANGED <<hostVars, bak, locked, confVars, loc>>

Manage(p) ==
  /\ pc[p] = "manage"
  /\ IF locked THEN Goto(p, "failed") /\ UNCHANGED resolv
               ELSE Goto(p, "lock") /\ resolv' = "managed"
  /\ UNCHANGED <<hostVars, bak, locked, confVars, loc>>

\* Locking is best effort; not every file system can.
Lock(p) ==
  /\ pc[p] = "lock"
  /\ locked' \in {locked, resolv \notin {"absent", "link"}}
  /\ Goto(p, "restart")
  /\ UNCHANGED <<hostVars, resolv, bak, confVars, loc>>

\* A failing restart is logged.
Restart(p) ==
  /\ pc[p] = "restart"
  /\ \/ loaded' = IF manager \in {"networkmanager", "connman"} THEN Effective ELSE loaded
     \/ sc.fails /\ UNCHANGED loaded
  /\ Goto(p, "activated")
  /\ UNCHANGED <<hostVars, resolvVars, conf, confBak, loc>>

-----------------------------------------------------------------------------
(* restorePlatformInstallArtifacts. An error is kept and the rest follows. *)

Restore(p) ==
  /\ Alone(p) \/ (sc.overlap = "restores" /\ Beside(p, Activating))
  /\ Begin(p, "rUnlock")

RestoreUnlock(p) ==
  /\ pc[p] = "rUnlock"
  /\ TryUnlock
  /\ Goto(p, "rRead")
  /\ UNCHANGED <<hostVars, resolv, bak, confVars, loc>>

RestoreRead(p) ==
  /\ pc[p] = "rRead"
  /\ loc' = [loc EXCEPT ![p].data = bak]
  /\ Goto(p, IF bak = "absent" THEN "rConf" ELSE "rRemove")
  /\ UNCHANGED <<hostVars, resolvVars, confVars>>

\* The error of Remove is ignored.
RestoreRemove(p) ==
  /\ pc[p] = "rRemove"
  /\ resolv' = IF locked THEN resolv ELSE "absent"
  /\ Goto(p, "rWrite")
  /\ UNCHANGED <<hostVars, bak, locked, confVars, loc>>

\* Mutant: the error of a write is not kept.
RestoreWriteForgives(p) ==
  /\ pc[p] = "rWrite"
  /\ IF locked THEN Goto(p, "rConf") /\ UNCHANGED resolv
               ELSE resolv' = loc[p].data /\ Goto(p, "rForget")
  /\ UNCHANGED <<hostVars, bak, locked, confVars, loc>>

\* A link is not made where there is a file.
RestoreWrite(p) ==
  /\ pc[p] = "rWrite"
  /\ IF locked \/ (loc[p].data = "link" /\ resolv # "absent")
       THEN /\ loc' = [loc EXCEPT ![p].err = TRUE]
            /\ Goto(p, "rConf")
            /\ UNCHANGED resolv
       ELSE /\ resolv' = loc[p].data
            /\ Goto(p, "rForget")
            /\ UNCHANGED loc
  /\ UNCHANGED <<hostVars, bak, locked, confVars>>

RestoreForget(p) ==
  /\ pc[p] = "rForget"
  /\ bak' = "absent"
  /\ loc' = [loc EXCEPT ![p].restored = TRUE]
  /\ Goto(p, "rConf")
  /\ UNCHANGED <<hostVars, resolv, locked, confVars>>

Stripped ==
  IF manager \in DropIn \cup {"resolvconf"} THEN "absent"
  ELSE CASE conf = "legacy" -> "absent"
         [] conf = "ours"   -> "rest"
         [] conf = "mixed"  -> "own"
         [] OTHER           -> conf

\* Mutant: a backup is forgotten before it is written back.
GivenBackStripped == Stripped

GivenBack == IF confBak # "absent" THEN confBak
             ELSE IF manager = "resolvconf" /\ conf # "ours" THEN conf
             ELSE Stripped

\* removeManagedFile reports a removal even if it fails.
RestoreConf(p) ==
  /\ pc[p] = "rConf"
  /\ \/ /\ conf' = GivenBack
        /\ loc' = [loc EXCEPT ![p].changed = confBak # "absent" \/ GivenBack # conf]
        /\ Goto(p, "rConfForget")
     \/ /\ sc.fails
        /\ loc' = [loc EXCEPT ![p].changed = manager \in DropIn /\ conf # "absent",
                              ![p].err = TRUE]
        /\ Goto(p, "rClean")
        /\ UNCHANGED conf
  /\ UNCHANGED <<hostVars, resolvVars, confBak, loaded>>

RestoreConfForget(p) ==
  /\ pc[p] = "rConfForget"
  /\ confBak' = "absent"
  /\ Goto(p, "rClean")
  /\ UNCHANGED <<hostVars, resolvVars, conf, loaded, loc>>

\* A managed resolv.conf without a backup is removed.
RestoreClean(p) ==
  /\ pc[p] = "rClean"
  /\ Goto(p, IF ~loc[p].restored /\ resolv = "managed" THEN "rCleanRemove" ELSE "rRestart")
  /\ UNCHANGED <<hostVars, resolvVars, confVars, loc>>

\* The stub of systemd-resolved takes its place, if there is one.
RestoreCleanRemove(p) ==
  /\ pc[p] = "rCleanRemove"
  /\ TryUnlock
  /\ IF locked'
       THEN loc' = [loc EXCEPT ![p].err = TRUE] /\ UNCHANGED resolv
       ELSE /\ resolv' \in {"absent"} \cup
                           (IF manager = "systemd-resolved" THEN {"link"} ELSE {})
            /\ UNCHANGED loc
  /\ Goto(p, "rRestart")
  /\ UNCHANGED <<hostVars, bak, confVars>>

RestoreRestart(p) ==
  /\ pc[p] = "rRestart"
  /\ \/ /\ loaded' = IF loc[p].changed /\ manager \in DropIn \cup {"connman"}
                       THEN Effective ELSE loaded
        /\ Goto(p, IF loc[p].err THEN "failed" ELSE "restored")
     \/ /\ sc.fails /\ loc[p].changed /\ manager \in DropIn \cup {"connman"}
        /\ Goto(p, "failed")
        /\ UNCHANGED loaded
  /\ UNCHANGED <<hostVars, resolvVars, conf, confBak, loc>>

-----------------------------------------------------------------------------
(* The host.                                                               *)

\* A process is killed, or an error of an activation ends it.
Die(p) ==
  /\ pc[p] \in sc.crash
  /\ Goto(p, "idle")
  /\ UNCHANGED <<hostVars, resolvVars, confVars, loc>>

\* The host writes its resolv.conf, while it is its own.
HostEdits ==
  /\ sc.edits
  /\ \A p \in Procs : pc[p] \in Resting
  /\ resolv # "managed" /\ ~locked
  /\ \E f \in Own \ {resolv} : resolv' = f /\ own' = f
  /\ UNCHANGED <<sc, manager, ownConf, bak, locked, confVars, pc, loc>>

ActivateStep(p) ==
  \/ Stat(p) \/ Read(p) \/ Backup(p) \/ ConfBackup(p) \/ ConfWrite(p)
  \/ ConfRestart(p) \/ Unlock(p) \/ Lstat(p) \/ Unlink(p) \/ Manage(p)
  \/ Lock(p) \/ Restart(p)

RestoreStep(p) ==
  \/ RestoreUnlock(p) \/ RestoreRead(p) \/ RestoreRemove(p) \/ RestoreWrite(p)
  \/ RestoreForget(p) \/ RestoreConf(p) \/ RestoreConfForget(p) \/ RestoreClean(p)
  \/ RestoreCleanRemove(p) \/ RestoreRestart(p)

Next ==
  \/ \E p \in Procs :
       Activate(p) \/ ActivateStep(p) \/ Restore(p) \/ RestoreStep(p) \/ Die(p)
  \/ HostEdits

Spec == Init /\ [][Next]_vars

-----------------------------------------------------------------------------
(* Properties.                                                             *)

\* What a restore would give back.
Kept == IF bak # "absent" THEN bak ELSE resolv

\* The host's own resolv.conf is never lost, at no step of an activation or of
\* a restore, however often either is repeated, dies or fails, and while
\* activations of the daemon and the command line overlap on a host that has a
\* backup (backupResolvConf, restoreResolvConfFromUBlockDNSBackup). Excluded is a
\* restore beside an activation, and two first activations: each of these loses it.
KeepsOwn == Kept = own

\* "Uninstalling stops the service and restores your previous DNS settings"
\* (README.md 89): a restore that reports no error leaves resolv.conf and the
\* manager's file as the host had them, but for an empty section, and the
\* manager running without ours unless something failed or died before. Only
\* restores that run alone are considered.
RestoredGivesBack ==
  \A p \in Procs : pc[p] = "restored" =>
    /\ resolv = own
    /\ conf = ownConf \/ (ownConf = "absent" /\ conf = "rest")
    /\ loaded = "own" \/ sc.fails \/ sc.crash # {}

\* The files implement what the daemon and the commands rely on
\* (activatePlatformSystemDNS, restorePlatformInstallArtifacts): whom the host
\* asks is what resolv.conf says.
Asked == IF resolv = "managed" THEN "proxy" ELSE IF resolv = own THEN "own" ELSE "others"

CallOf(at) == CASE at \in Resting   -> at
                [] at = "manage"    -> "taking"
                [] at \in {"lock", "restart"} -> "set"
                [] at \in Restoring -> "restoring"
                [] OTHER            -> "activating"

Setting == INSTANCE SystemDNS
             WITH setting <- own, asked <- Asked, call <- [p \in Procs |-> CallOf(pc[p])]
ImplementsSetting == Setting!DSpec

\* What the same sentence promises a host that had no resolv.conf: after a
\* restore that reports no error it does not ask the proxy any more. It may have
\* got the stub of systemd-resolved instead (restoreStandardResolvConf).
RestoredIsNotOurs == \A p \in Procs : pc[p] = "restored" => resolv # "managed"
=============================================================================
