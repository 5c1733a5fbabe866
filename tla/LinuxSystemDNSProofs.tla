------------------------- MODULE LinuxSystemDNSProofs -------------------------
(***************************************************************************)
(* What holds of activations and restores for any number of processes and  *)
(* of contents of resolv.conf, and however often they are repeated, die or *)
(* fail.                                                                   *)
(***************************************************************************)
EXTENDS LinuxSystemDNS, TLAPS

Locals == [data : Own \cup {"absent", "managed"}, restored : BOOLEAN,
           changed : BOOLEAN, err : BOOLEAN]

\* An assignment to a local variable leaves the locals of all processes typed.
LEMMA Assigned ==
  ASSUME NEW p \in Procs, loc \in [Procs -> Locals],
         NEW d \in Own \cup {"absent", "managed"}, NEW b \in BOOLEAN, NEW e \in BOOLEAN
  PROVE  /\ [loc EXCEPT ![p].data = d] \in [Procs -> Locals]
         /\ [loc EXCEPT ![p].restored = b] \in [Procs -> Locals]
         /\ [loc EXCEPT ![p].changed = b] \in [Procs -> Locals]
         /\ [loc EXCEPT ![p].err = b] \in [Procs -> Locals]
         /\ [loc EXCEPT ![p].changed = b, ![p].err = e] \in [Procs -> Locals]
<1>1. loc[p] \in Locals
  OBVIOUS
<1>2. [loc[p] EXCEPT !.data = d] \in Locals
  BY <1>1 DEF Locals
<1>3. [loc[p] EXCEPT !.restored = b] \in Locals
  BY <1>1 DEF Locals
<1>4. [loc[p] EXCEPT !.changed = b] \in Locals
  BY <1>1 DEF Locals
<1>5. [loc[p] EXCEPT !.err = b] \in Locals
  BY <1>1 DEF Locals
<1>6. [[loc[p] EXCEPT !.changed = b] EXCEPT !.err = e] \in Locals
  BY <1>4 DEF Locals
<1>7. [loc EXCEPT ![p].changed = b, ![p].err = e]
        = [loc EXCEPT ![p] = [[loc[p] EXCEPT !.changed = b] EXCEPT !.err = e]]
  OBVIOUS
<1> QED BY <1>2, <1>3, <1>4, <1>5, <1>6, <1>7

\* The types of the host's files and of the processes at work on them
\* (linux_dns_configure.go, linux_dns_restore.go).
LEMMA TypeInit == Init => TypeOK
<1> SUFFICES ASSUME Init PROVE TypeOK
  OBVIOUS
<1>1. sc.start \subseteq Own \cup {"absent"}
  BY ScenariosAssumption DEF Init
<1>2. /\ conf \in Confs /\ (manager \in DropIn => conf = "absent")
      /\ ownConf \in {"absent", "own", "pinned"}
  BY DEF Init, ConfInit, Confs, DropIn, WithBackup, Managers
<1>3. loc \in [Procs -> [data : Own \cup {"absent", "managed"}, restored : BOOLEAN,
                         changed : BOOLEAN, err : BOOLEAN]]
  BY DEF Init, Fresh
<1> QED BY <1>1, <1>2, <1>3 DEF Init, TypeOK, Resting, Own

\* TypeOK of all but the locals.
HostOK ==
  /\ sc \in Scenarios /\ manager \in Managers
  /\ resolv \in Own \cup {"absent", "managed"}
  /\ bak \in Own \cup {"absent", "managed"}
  /\ locked \in BOOLEAN /\ (locked => resolv \notin {"absent", "link"})
  /\ conf \in Confs /\ (manager \in DropIn => conf \in {"absent", "ours"})
  /\ confBak \in {"absent", "own", "rest"}
  /\ manager \notin WithBackup => confBak = "absent"
  /\ loaded \in {"own", "ours"}
  /\ own \in Own \cup {"absent"} /\ ownConf \in {"absent", "own", "pinned"}
  /\ pc \in [Procs -> Resting \cup Activating \cup Restoring]

\* The locals are treated apart: records within functions are hard on the prover.
LEMMA TypeSplit == TypeOK <=> HostOK /\ loc \in [Procs -> Locals]
BY DEF TypeOK, HostOK, Locals

\* What a process remembers of a step has its type.
LEMMA LocalsStep ==
  ASSUME TypeOK, [Next]_vars PROVE loc' \in [Procs -> Locals]
<1>1. loc \in [Procs -> Locals]
  BY TypeSplit
<1>2. CASE UNCHANGED loc
  BY <1>1, <1>2
<1>3. ASSUME NEW p \in Procs, Begin(p, "stat") \/ Begin(p, "rUnlock")
      PROVE loc' \in [Procs -> Locals]
  <2>1. Fresh \in Locals
    BY DEF Fresh, Locals
  <2> QED BY <1>1, <1>3, <2>1 DEF Begin
<1>4. ASSUME NEW p \in Procs, Read(p) \/ RestoreRead(p)
      PROVE loc' \in [Procs -> Locals]
  <2>1. resolv \in Own \cup {"absent", "managed"} /\ bak \in Own \cup {"absent", "managed"}
    BY TypeSplit DEF HostOK
  <2>2. PICK d \in Own \cup {"absent", "managed"} : loc' = [loc EXCEPT ![p].data = d]
    BY <1>4, <2>1 DEF Read, RestoreRead
  <2> QED BY <1>1, <2>2, Assigned
<1>5. ASSUME NEW p \in Procs, RestoreForget(p) PROVE loc' \in [Procs -> Locals]
  BY <1>1, <1>5, Assigned DEF RestoreForget
<1>6. ASSUME NEW p \in Procs, RestoreWrite(p) \/ RestoreCleanRemove(p)
      PROVE loc' \in [Procs -> Locals]
  <2>1. UNCHANGED loc \/ loc' = [loc EXCEPT ![p].err = TRUE]
    BY <1>6 DEF RestoreWrite, RestoreCleanRemove
  <2>2. \A b \in BOOLEAN : [loc EXCEPT ![p].err = b] \in [Procs -> Locals]
    BY <1>1, Assigned
  <2> QED BY <1>1, <2>1, <2>2
<1>7. ASSUME NEW p \in Procs, RestoreConf(p) PROVE loc' \in [Procs -> Locals]
  <2>1. (confBak # "absent" \/ GivenBack # conf) \in BOOLEAN
    OBVIOUS
  <2>2. (manager \in DropIn /\ conf # "absent") \in BOOLEAN
    OBVIOUS
  <2>3. CASE loc' = [loc EXCEPT ![p].changed = confBak # "absent" \/ GivenBack # conf]
    BY ONLY <1>1, <2>1, <2>3, Assigned
  <2>4. CASE loc' = [loc EXCEPT ![p].changed = manager \in DropIn /\ conf # "absent",
                                ![p].err = TRUE]
    <3>1. \A b \in BOOLEAN : [loc EXCEPT ![p].changed = b, ![p].err = TRUE] \in [Procs -> Locals]
      BY <1>1, Assigned
    <3>2. [loc EXCEPT ![p].changed = manager \in DropIn /\ conf # "absent", ![p].err = TRUE]
             \in [Procs -> Locals]
      BY ONLY <2>2, <3>1
    <3> QED BY <2>4, <3>2
  <2> QED BY <1>7, <2>3, <2>4 DEF RestoreConf
<1> QED
  <2>1. CASE UNCHANGED vars
    BY <1>2, <2>1 DEF vars
  <2>2. CASE HostEdits
    BY <1>2, <2>2 DEF HostEdits
  <2>3. ASSUME NEW p \in Procs,
               Activate(p) \/ ActivateStep(p) \/ Restore(p) \/ RestoreStep(p) \/ Die(p)
        PROVE loc' \in [Procs -> Locals]
    BY <1>2, <1>3, <1>4, <1>5, <1>6, <1>7, <2>3
    DEF Activate, Restore, Die, ActivateStep, RestoreStep, Stat, Backup, ConfBackup,
        ConfWrite, ConfRestart, Unlock, Lstat, Unlink, Manage, Lock, Restart, RestoreUnlock,
        RestoreRemove,
        RestoreConfForget, RestoreClean, RestoreRestart
  <2> QED BY <2>1, <2>2, <2>3 DEF Next

\* What the arms of Stripped and GivenBack come to.
LEMMA ConfsGivenBack ==
  ASSUME TypeOK
  PROVE  GivenBack \in Confs /\ (manager \in DropIn => GivenBack = "absent")
<1>1. /\ manager \in Managers /\ conf \in Confs /\ confBak \in {"absent", "own", "rest"}
      /\ manager \in DropIn => confBak = "absent"
  BY TypeSplit DEF HostOK, DropIn, WithBackup
<1>2. CASE manager \in DropIn
  BY <1>1, <1>2 DEF GivenBack, Stripped, DropIn, Confs
<1>3. CASE manager \notin DropIn
  <2>1. CASE confBak # "absent" \/ (manager = "resolvconf" /\ conf # "ours")
    BY <1>1, <1>3, <2>1 DEF GivenBack, Confs
  <2>2. CASE confBak = "absent" /\ ~(manager = "resolvconf" /\ conf # "ours")
    <3>1. GivenBack = Stripped
      BY <2>2 DEF GivenBack
    <3>2. CASE manager = "resolvconf"
      BY <3>1, <3>2 DEF Stripped, Confs
    <3>3. CASE manager # "resolvconf"
      <4>1. Stripped = IF conf = "legacy" THEN "absent" ELSE IF conf = "ours" THEN "rest"
                       ELSE IF conf = "mixed" THEN "own" ELSE conf
        BY <1>3, <3>3 DEF Stripped
      <4> QED BY <1>1, <1>3, <3>1, <4>1 DEF Confs
    <3> QED BY <3>2, <3>3
  <2> QED BY <2>1, <2>2
<1> QED BY <1>2, <1>3

\* Every step keeps the types.
LEMMA TypeStep == TypeOK /\ [Next]_vars => TypeOK'
<1> SUFFICES ASSUME TypeOK, [Next]_vars PROVE TypeOK'
  OBVIOUS
<1>0. loc' \in [Procs -> Locals]
  BY LocalsStep
<1> SUFFICES HostOK'
  BY <1>0 DEF TypeOK, HostOK, Locals
<1> HostOK /\ loc \in [Procs -> Locals]
  BY TypeSplit
<1> USE DEF HostOK, Resting, Activating, Restoring, Goto, hostVars, resolvVars, confVars
<1>1. CASE UNCHANGED vars
  BY <1>1 DEF vars
<1>2. CASE HostEdits
  BY <1>2 DEF HostEdits
<1>3. ASSUME NEW p \in Procs, Activate(p) \/ Restore(p) PROVE HostOK'
  <2>1. Begin(p, "stat") \/ Begin(p, "rUnlock")
    BY <1>3 DEF Activate, Restore
  <2> QED BY <2>1 DEF Begin
<1>4. ASSUME NEW p \in Procs, ActivateStep(p) PROVE HostOK'
  <2>1. CASE Stat(p) \/ Read(p)
    BY <2>1 DEF Stat, Read
  <2>2. CASE Backup(p)
    <3>1. loc[p].data \in Own \cup {"absent", "managed"}
      BY DEF Locals
    <3> QED BY <2>2, <3>1 DEF Backup
  <2>3. CASE ConfBackup(p)
    BY <2>3 DEF ConfBackup, BackedUp
  <2>4. CASE ConfWrite(p)
    <3>1. Configured \in Confs /\ (manager \in DropIn => Configured = "ours")
      BY DEF Configured, Confs, DropIn
    <3> QED BY <2>4, <3>1 DEF ConfWrite
  <2>5. CASE ConfRestart(p) \/ Restart(p)
    BY <2>5 DEF ConfRestart, Restart, Effective
  <2>6. CASE Unlock(p) \/ Lock(p)
    <3>1. CASE Unlock(p)
      <4>1. (locked' = FALSE \/ locked' = locked) /\ pc' = [pc EXCEPT ![p] = "lstat"]
        BY <3>1 DEF Unlock, TryUnlock
      <4>2. UNCHANGED <<sc, manager, own, ownConf, resolv, bak, conf, confBak, loaded>>
        BY <3>1 DEF Unlock
      <4>3. CASE locked' = FALSE
        BY <4>1, <4>2, <4>3
      <4>4. CASE locked' = locked
        BY <4>1, <4>2, <4>4
      <4> QED BY <4>1, <4>3, <4>4
    <3>2. CASE Lock(p)
      <4>1. locked' \in BOOLEAN /\ (locked' => resolv \notin {"absent", "link"})
            /\ pc' = [pc EXCEPT ![p] = "restart"]
        BY <3>2 DEF Lock
      <4>2. UNCHANGED <<sc, manager, own, ownConf, resolv, bak, conf, confBak, loaded>>
        BY <3>2 DEF Lock
      <4> QED BY <4>1, <4>2
    <3> QED BY <2>6, <3>1, <3>2
  <2>7. CASE Lstat(p) \/ Unlink(p) \/ Manage(p)
    <3>1. CASE Lstat(p)
      BY <3>1 DEF Lstat
    <3>2. CASE Unlink(p)
      BY <3>2 DEF Unlink
    <3>3. CASE Manage(p)
      BY <3>3 DEF Manage
    <3> QED BY <2>7, <3>1, <3>2, <3>3
  <2> QED BY <1>4, <2>1, <2>2, <2>3, <2>4, <2>5, <2>6, <2>7 DEF ActivateStep
<1>5. ASSUME NEW p \in Procs, RestoreStep(p) PROVE HostOK'
  <2>1. CASE RestoreUnlock(p)
    <3>1. locked' = FALSE \/ locked' = locked
      BY <2>1 DEF RestoreUnlock, TryUnlock
    <3>2. pc' \in [Procs -> Resting \cup Activating \cup Restoring]
      <4>1. pc' = [pc EXCEPT ![p] = "rRead"]
        BY <2>1 DEF RestoreUnlock
      <4>2. pc \in [Procs -> Resting \cup Activating \cup Restoring]
        OBVIOUS
      <4> QED BY <4>1, <4>2
    <3>3. UNCHANGED <<sc, manager, own, ownConf, resolv, bak, conf, confBak, loaded>>
      BY <2>1 DEF RestoreUnlock
    <3>4. CASE locked' = FALSE
      BY <3>2, <3>3, <3>4
    <3>5. CASE locked' = locked
      BY <3>2, <3>3, <3>5
    <3> QED BY <3>1, <3>4, <3>5
  <2>2. CASE RestoreRead(p) \/ RestoreRemove(p)
    <3>1. CASE RestoreRead(p)
      BY <3>1 DEF RestoreRead
    <3>2. CASE RestoreRemove(p)
      BY <3>2 DEF RestoreRemove
    <3> QED BY <2>2, <3>1, <3>2
  <2>3. CASE RestoreWrite(p)
    <3>1. loc[p].data \in Own \cup {"absent", "managed"}
      BY DEF Locals
    <3> QED BY <2>3, <3>1 DEF RestoreWrite
  <2>4. CASE RestoreForget(p)
    BY <2>4 DEF RestoreForget
  <2>5. CASE RestoreConf(p)
    <3>1. conf' \in Confs /\ (manager \in DropIn => conf' \in {"absent", "ours"})
      BY <2>5, ConfsGivenBack DEF RestoreConf
    <3> QED BY <2>5, <3>1 DEF RestoreConf
  <2>6. CASE RestoreConfForget(p) \/ RestoreClean(p)
    BY <2>6 DEF RestoreConfForget, RestoreClean
  <2>7. CASE RestoreCleanRemove(p)
    <3>1. resolv' \in Own \cup {"absent", "managed"} /\ locked' \in BOOLEAN
          /\ (locked' => resolv' \notin {"absent", "link"})
      BY <2>7 DEF RestoreCleanRemove, TryUnlock, Own
    <3>2. UNCHANGED <<hostVars, bak, confVars>> /\ Goto(p, "rRestart")
      BY <2>7 DEF RestoreCleanRemove
    <3> QED BY <3>1, <3>2
  <2>8. CASE RestoreRestart(p)
    BY <2>8 DEF RestoreRestart, Effective
  <2> QED BY <1>5, <2>1, <2>2, <2>3, <2>4, <2>5, <2>6, <2>7, <2>8 DEF RestoreStep
<1>6. ASSUME NEW p \in Procs, Die(p) PROVE HostOK'
  BY <1>6 DEF Die
<1> QED BY <1>1, <1>2, <1>3, <1>4, <1>5, <1>6 DEF Next

\* TypeOK holds in every reachable state.
THEOREM TypeCorrect == Spec => []TypeOK
BY TypeInit, TypeStep, PTL DEF Spec
-----------------------------------------------------------------------------
\* Which scenarios are followed. The host had a resolv.conf; where it edits it,
\* processes follow one another and neither fail nor die. (Otherwise a backup
\* that was left behind is trusted although the host's file is newer.) A restore
\* runs alone: nothing in the code keeps an activation from running beside it, and
\* one that does loses the host's file.
Sound ==
  \A s \in Scenarios :
    /\ s.start \subseteq Own
    /\ s.overlap \in {"none", "activations"}
    /\ s.edits => ~s.fails /\ s.overlap = "none" /\ s.crash = {}

\* What the process p has read is the host's, and a backup is where it has to be.
\* What it has written may have been removed, by an activation that saw a link.
StepAt(p) ==
  /\ pc[p] \in {"read", "backup"} => bak = "absent"
  /\ pc[p] = "backup" => loc[p].data = own
  /\ pc[p] \in {"confBackup", "confWrite", "confRestart", "unlock", "lstat", "unlink",
               "manage", "lock", "restart"} => bak # "absent"
  /\ pc[p] \in {"lock", "restart"} => resolv \in {"managed", "absent"}
  /\ pc[p] \in {"rRemove", "rWrite"} => bak # "absent" /\ loc[p].data = own
  /\ pc[p] = "rForget" => resolv = own
  /\ pc[p] = "rCleanRemove" => bak # "absent"

\* Nothing fails where the host edits its file.
CalmAt(p) ==
  /\ pc[p] \in {"lstat", "unlink", "manage", "rRead", "rRemove", "rWrite"} => ~locked
  /\ pc[p] = "unlink" => resolv = "link"
  /\ pc[p] = "rWrite" => resolv = "absent"
  /\ pc[p] \in {"lock", "restart"} => resolv = "managed"
  /\ pc[p] \in {"rConf", "rConfForget", "rClean", "rCleanRemove", "rRestart"}
       => bak = "absent"

\* Processes overlap only in activations of a host that has a backup.
Turns ==
  \A p, q \in Procs : p # q /\ pc[p] \notin Resting /\ pc[q] \notin Resting =>
    pc[p] \in Activating /\ pc[q] \in Activating /\ bak # "absent"

Steps == \A p \in Procs : StepAt(p)

Calm ==
  sc.edits =>
    /\ (\A p \in Procs : pc[p] \in Resting) /\ bak # "absent" => resolv = "managed"
    /\ \A p, q \in Procs : p # q => pc[p] \in Resting \/ pc[q] \in Resting
    /\ \A p \in Procs : CalmAt(p)

\* Only what the client wrote is ever locked.
LockedIsOurs == locked => resolv = "managed"

IInv == TypeOK /\ own \in Own /\ KeepsOwn /\ LockedIsOurs /\ Turns /\ Steps /\ Calm

\* A step of one process disturbs none of what the invariant says of the others.
LEMMA OneMoves ==
  ASSUME IInv, TypeOK', NEW p \in Procs, pc[p] \notin Resting,
         NEW n, pc' = [pc EXCEPT ![p] = n],
         n \in Resting \/ (n \in Activating /\ pc[p] \in Activating)
                       \/ (n \in Restoring /\ pc[p] \in Restoring),
         UNCHANGED <<sc, own>>,
         \A q \in Procs \ {p} : loc'[q].data = loc[q].data,
         bak' = bak \/ bak' # "absent" \/ pc[p] \in Restoring,
         resolv' \in {resolv, "absent", "managed"} \/ pc[p] \in Restoring,
         KeepsOwn', LockedIsOurs', StepAt(p)',
         sc.edits => /\ CalmAt(p)'
                     /\ n \in Resting /\ bak' # "absent" => resolv' = "managed"
  PROVE  IInv'
<1> USE DEF IInv
<1>1. /\ pc'[p] = n
      /\ \A q \in Procs \ {p} : pc'[q] = pc[q]
  BY DEF TypeOK
<1>2. ASSUME NEW q \in Procs \ {p}, pc[q] \notin Resting
      PROVE  /\ pc[p] \in Activating /\ pc[q] \in Activating
             /\ pc[q] \notin {"read", "backup"}
             /\ bak # "absent" /\ bak' # "absent"
             /\ resolv' \in {resolv, "absent", "managed"}
  <2>1. pc[p] \in Activating /\ pc[q] \in Activating /\ bak # "absent"
    BY <1>2 DEF Turns
  <2>2. pc[q] \notin {"read", "backup"}
    BY <2>1 DEF Steps, StepAt
  <2> QED BY <2>1, <2>2 DEF Activating, Restoring
<1>3. Turns'
  <2>1. ASSUME NEW q \in Procs \ {p}, pc'[p] \notin Resting, pc'[q] \notin Resting
        PROVE  pc'[p] \in Activating /\ pc'[q] \in Activating /\ bak' # "absent"
    BY <1>1, <1>2, <2>1 DEF Activating, Restoring
  <2>2. ASSUME NEW q \in Procs \ {p}, NEW r \in Procs \ {p}, q # r,
               pc'[q] \notin Resting, pc'[r] \notin Resting
        PROVE  pc'[q] \in Activating /\ pc'[r] \in Activating /\ bak' # "absent"
    BY <1>1, <1>2, <2>2
  <2> QED BY <2>1, <2>2 DEF Turns
<1>4. Steps'
  <2>1. ASSUME NEW q \in Procs \ {p} PROVE StepAt(q)'
    <3>1. CASE pc[q] \in Resting
      BY <1>1, <3>1 DEF StepAt, Resting
    <3>2. CASE pc[q] \notin Resting
      <4>1. pc'[q] = pc[q] /\ pc[q] \in Activating \ {"read", "backup"} /\ bak' # "absent"
        BY <1>1, <1>2, <3>2
      <4>2. pc[q] \in {"lock", "restart"} => resolv' \in {"managed", "absent"}
        BY <1>2, <3>2 DEF Steps, StepAt
      <4> QED BY ONLY <4>1, <4>2 DEF StepAt, Activating
    <3> QED BY <3>1, <3>2
  <2> QED BY <2>1 DEF Steps
<1>5. Calm'
  <2>1. SUFFICES ASSUME sc.edits PROVE Calm'
    BY DEF Calm
  <2>2. \A q \in Procs \ {p} : pc'[q] \in Resting
    BY <1>1, <2>1 DEF Calm
  <2>3. \A q \in Procs \ {p} : CalmAt(q)'
    BY <2>2 DEF CalmAt, Resting
  <2> QED BY <1>1, <2>1, <2>2, <2>3 DEF Calm
<1> QED BY <1>3, <1>4, <1>5

\* A host that has not met the client keeps its own file.
LEMMA KeepsInit == Sound /\ Init => IInv
<1> SUFFICES ASSUME Sound, Init PROVE IInv
  OBVIOUS
<1>1. TypeOK
  BY TypeInit
<1>2. own \in Own /\ resolv = own /\ bak = "absent" /\ \A p \in Procs : pc[p] = "idle"
  BY DEF Init, Sound
<1>3. KeepsOwn /\ LockedIsOurs
  BY <1>2 DEF KeepsOwn, Kept, LockedIsOurs, Init
<1> QED BY <1>1, <1>2, <1>3 DEF IInv, Turns, Steps, Calm, StepAt, CalmAt, Resting

\* An activation or a restore begins alone, or an activation beside others.
LEMMA Begun ==
  ASSUME Sound, TypeOK, NEW p \in Procs, Activate(p) \/ Restore(p)
  PROVE  \E n \in {"stat", "rUnlock"} :
           /\ Begin(p, n)
           /\ n = "rUnlock" => Alone(p)
           /\ \/ Alone(p)
              \/ sc.overlap = "activations" /\ bak # "absent" /\ Beside(p, Activating)
<1>1. sc.overlap # "restores"
  BY DEF Sound, TypeOK
<1> QED BY <1>1 DEF Activate, Restore

\* When it does, the invariant is kept.
LEMMA KeepsBegin ==
  ASSUME Sound, IInv, TypeOK', NEW p \in Procs, Activate(p) \/ Restore(p) PROVE IInv'
<1> USE DEF IInv
<1>1. PICK n \in {"stat", "rUnlock"} :
        /\ Begin(p, n)
        /\ n = "rUnlock" => Alone(p)
        /\ \/ Alone(p)
           \/ sc.overlap = "activations" /\ bak # "absent" /\ Beside(p, Activating)
  BY Begun
<1>2. /\ pc'[p] = n
      /\ \A q \in Procs \ {p} : pc'[q] = IF pc[q] \in Resting THEN "idle" ELSE pc[q]
      /\ \A q \in Procs \ {p} : loc'[q] = loc[q]
      /\ UNCHANGED <<sc, own, resolv, bak, locked>>
  BY <1>1 DEF Begin, TypeOK, hostVars, resolvVars
<1>3. KeepsOwn' /\ LockedIsOurs'
  BY <1>2 DEF KeepsOwn, Kept, LockedIsOurs
<1>4. n \notin Resting
  BY DEF Resting
<1>5. ASSUME NEW q \in Procs \ {p}, pc'[q] \notin Resting
      PROVE  /\ n = "stat" /\ pc'[q] = pc[q] /\ pc[q] \in Activating /\ bak # "absent"
             /\ sc.overlap = "activations"
  <2>1. pc[q] \notin Resting /\ pc'[q] = pc[q]
    BY <1>2, <1>5 DEF Resting
  <2>2. ~Alone(p)
    BY <2>1 DEF Alone, Beside
  <2>3. pc[q] \in Activating
    BY <1>1, <2>1, <2>2 DEF Beside
  <2> QED BY <1>1, <2>1, <2>2, <2>3
<1>6. Turns'
  BY <1>2, <1>5 DEF Turns, Activating
<1>7. Steps'
  <2>1. StepAt(p)'
    BY <1>2 DEF StepAt
  <2>2. ASSUME NEW q \in Procs \ {p} PROVE StepAt(q)'
    <3>1. CASE pc'[q] \in Resting
      BY <3>1 DEF StepAt, Resting
    <3>2. CASE pc'[q] \notin Resting
      BY <1>2, <1>5, <3>2 DEF Steps, StepAt
    <3> QED BY <3>1, <3>2
  <2> QED BY <2>1, <2>2 DEF Steps
<1>8. Calm'
  <2>1. SUFFICES ASSUME sc.edits PROVE Calm'
    BY <1>2 DEF Calm
  <2>2. sc.overlap = "none"
    BY <2>1 DEF Sound, TypeOK
  <2>3. \A q \in Procs \ {p} : pc'[q] \in Resting
    BY <1>5, <2>2
  <2>4. \A q \in Procs : CalmAt(q)'
    BY <1>2, <2>3 DEF CalmAt, Resting
  <2> QED BY <1>2, <1>4, <2>3, <2>4 DEF Calm
<1> QED BY <1>2, <1>3, <1>6, <1>7, <1>8

\* The steps of ConfigureLinuxSystemDNS.
LEMMA KeepsActivate ==
  ASSUME Sound, IInv, TypeOK', NEW p \in Procs, ActivateStep(p) PROVE IInv'
<1> USE DEF IInv, hostVars, resolvVars, confVars, Goto
<1>0. /\ StepAt(p) /\ (sc.edits => CalmAt(p) /\ ~sc.fails)
      /\ "absent" \notin Own /\ "managed" \notin Own /\ locked \in BOOLEAN
      /\ (bak # "absent" => bak = own) /\ (bak = "absent" => resolv = own)
  BY FilesAssumption DEF Steps, Calm, Sound, TypeOK, KeepsOwn, Kept, Own
<1> USE <1>0 DEF KeepsOwn, Kept, LockedIsOurs, StepAt, CalmAt
<1>1. CASE Stat(p)
  <2>1. PICK n \in {"confBackup", "read"} :
          pc' = [pc EXCEPT ![p] = n] /\ (n = "read" <=> bak = "absent")
    BY <1>1 DEF Stat
  <2>2. pc'[p] = n
    BY <2>1 DEF TypeOK
  <2>3. UNCHANGED <<sc, own, resolv, bak, locked, loc>> /\ pc[p] = "stat"
    BY <1>1 DEF Stat
  <2>4. KeepsOwn' /\ LockedIsOurs' /\ StepAt(p)' /\ (sc.edits => CalmAt(p)')
    BY <2>1, <2>2, <2>3
  <2> QED BY <2>1, <2>3, <2>4, OneMoves DEF Resting, Activating
<1>2. CASE Read(p)
  <2>1. pc' = [pc EXCEPT ![p] = "backup"] /\ pc'[p] = "backup"
    BY <1>2 DEF Read, TypeOK
  <2>2. loc'[p].data = own /\ \A q \in Procs \ {p} : loc'[q] = loc[q]
    BY <1>2 DEF Read, TypeOK
  <2> QED BY <1>2, <2>1, <2>2, OneMoves DEF Read, Resting, Activating
<1>3. CASE Backup(p)
  <2>1. pc'[p] = "confBackup"
    BY <1>3 DEF Backup, TypeOK
  <2> QED BY <1>3, <2>1, OneMoves DEF Backup, Resting, Activating
<1>4. CASE ConfBackup(p)
  <2>1. pc'[p] = "confWrite"
    BY <1>4 DEF ConfBackup, TypeOK
  <2> QED BY <1>4, <2>1, OneMoves DEF ConfBackup, Resting, Activating
<1>5. CASE ConfWrite(p)
  <2>1. PICK n \in {"confRestart", "unlock"} : pc' = [pc EXCEPT ![p] = n]
    BY <1>5 DEF ConfWrite
  <2>2. pc'[p] = n
    BY <2>1 DEF TypeOK
  <2>3. /\ pc[p] \in Activating /\ pc[p] \notin Resting /\ n \in Activating /\ n \notin Resting
        /\ UNCHANGED <<sc, own, resolv, bak, loc>>
    BY <1>5, <2>1 DEF ConfWrite, Resting, Activating
  <2>4. KeepsOwn' /\ LockedIsOurs' /\ StepAt(p)' /\ CalmAt(p)'
    BY <1>5, <2>1, <2>2, <2>3 DEF ConfWrite
  <2> QED BY ONLY <2>1, <2>3, <2>4, OneMoves, IInv, TypeOK', p \in Procs
<1>6. CASE ConfRestart(p)
  <2>1. PICK n \in {"unlock", "failed"} :
          pc' = [pc EXCEPT ![p] = n] /\ (n = "failed" => sc.fails)
    BY <1>6 DEF ConfRestart
  <2>2. pc'[p] = n
    BY <2>1 DEF TypeOK
  <2> QED BY <1>6, <2>1, <2>2, OneMoves DEF ConfRestart, Resting, Activating
<1>7. CASE Unlock(p)
  <2>1. pc'[p] = "lstat"
    BY <1>7 DEF Unlock, TypeOK
  <2>2. (locked' => locked) /\ (sc.edits => ~locked')
    BY <1>7 DEF Unlock, TryUnlock
  <2>3. UNCHANGED <<sc, own, resolv, bak, loc>> /\ pc' = [pc EXCEPT ![p] = "lstat"]
        /\ pc[p] = "unlock"
    BY <1>7 DEF Unlock
  <2>4. KeepsOwn' /\ LockedIsOurs' /\ StepAt(p)' /\ (sc.edits => CalmAt(p)')
    BY <2>1, <2>2, <2>3
  <2> QED BY <2>1, <2>3, <2>4, OneMoves DEF Resting, Activating
<1>8. CASE Lstat(p)
  <2>1. PICK n \in {"unlink", "manage"} :
          pc' = [pc EXCEPT ![p] = n] /\ (n = "unlink" => resolv = "link")
    BY <1>8 DEF Lstat
  <2>2. pc'[p] = n
    BY <2>1 DEF TypeOK
  <2>3. UNCHANGED <<sc, own, resolv, bak, locked, loc>> /\ pc[p] = "lstat"
    BY <1>8 DEF Lstat
  <2>4. KeepsOwn' /\ LockedIsOurs' /\ StepAt(p)' /\ (sc.edits => CalmAt(p)')
    BY <2>1, <2>2, <2>3
  <2> QED BY <2>1, <2>3, <2>4, OneMoves DEF Resting, Activating
<1>10. CASE Unlink(p)
  <2>1. PICK n \in {"failed", "manage"} :
          /\ pc' = [pc EXCEPT ![p] = n]
          /\ n = "failed" => (locked \/ resolv = "absent") /\ resolv' = resolv
          /\ n = "manage" => ~locked /\ resolv' = "absent"
    BY <1>10 DEF Unlink
  <2>2. pc'[p] = n
    BY <2>1 DEF TypeOK
  <2>3. UNCHANGED <<sc, own, bak, locked, loc>> /\ pc[p] = "unlink"
    BY <1>10 DEF Unlink
  <2>4. KeepsOwn' /\ LockedIsOurs' /\ StepAt(p)' /\ (sc.edits => CalmAt(p)')
    BY <2>1, <2>2, <2>3
  <2>5. sc.edits => n = "manage"
    BY <2>1, <2>3
  <2> QED BY <2>1, <2>3, <2>4, <2>5, OneMoves DEF Resting, Activating
<1>11. CASE Manage(p)
  <2>1. PICK n \in {"failed", "lock"} :
          /\ pc' = [pc EXCEPT ![p] = n]
          /\ n = "failed" => locked /\ resolv' = resolv
          /\ n = "lock" => resolv' = "managed"
    BY <1>11 DEF Manage
  <2>2. pc'[p] = n
    BY <2>1 DEF TypeOK
  <2> QED BY <1>11, <2>1, <2>2, OneMoves DEF Manage, Resting, Activating
<1>12. CASE Lock(p)
  <2>1. pc'[p] = "restart"
    BY <1>12 DEF Lock, TypeOK
  <2>2. locked' => resolv = "managed"
    BY <1>12 DEF Lock
  <2> QED BY <1>12, <2>1, <2>2, OneMoves DEF Lock, Resting, Activating
<1>9. CASE Restart(p)
  <2>1. pc'[p] = "activated"
    BY <1>9 DEF Restart, TypeOK
  <2> QED BY <1>9, <2>1, OneMoves DEF Restart, Resting, Activating
<1> QED
  BY <1>1, <1>2, <1>3, <1>4, <1>5, <1>6, <1>7, <1>8, <1>9, <1>10, <1>11, <1>12
  DEF ActivateStep

\* The steps of restorePlatformInstallArtifacts.
LEMMA KeepsRestore ==
  ASSUME Sound, IInv, TypeOK', NEW p \in Procs, RestoreStep(p) PROVE IInv'
<1> USE DEF IInv, hostVars, resolvVars, confVars, Goto
<1>0. /\ StepAt(p) /\ (sc.edits => CalmAt(p) /\ ~sc.fails)
      /\ "absent" \notin Own /\ "managed" \notin Own /\ locked \in BOOLEAN
      /\ (bak # "absent" => bak = own) /\ (bak = "absent" => resolv = own)
  BY FilesAssumption DEF Steps, Calm, Sound, TypeOK, KeepsOwn, Kept, Own
<1> USE <1>0 DEF KeepsOwn, Kept, LockedIsOurs, StepAt, CalmAt
<1>1. CASE RestoreUnlock(p)
  <2>1. pc'[p] = "rRead"
    BY <1>1 DEF RestoreUnlock, TypeOK
  <2>2. (locked' => locked) /\ (sc.edits => ~locked')
    BY <1>1 DEF RestoreUnlock, TryUnlock
  <2>3. UNCHANGED <<sc, own, resolv, bak, loc>> /\ pc' = [pc EXCEPT ![p] = "rRead"]
        /\ pc[p] = "rUnlock"
    BY <1>1 DEF RestoreUnlock
  <2>4. KeepsOwn' /\ LockedIsOurs' /\ StepAt(p)' /\ (sc.edits => CalmAt(p)')
    BY <2>1, <2>2, <2>3
  <2> QED BY <2>1, <2>3, <2>4, OneMoves DEF Resting, Restoring
<1>2. CASE RestoreRead(p)
  <2>1. PICK n \in {"rConf", "rRemove"} :
          pc' = [pc EXCEPT ![p] = n] /\ (n = "rConf" <=> bak = "absent")
    BY <1>2 DEF RestoreRead
  <2>2. pc'[p] = n
    BY <2>1 DEF TypeOK
  <2>3. loc'[p].data = bak /\ \A q \in Procs \ {p} : loc'[q] = loc[q]
    BY <1>2 DEF RestoreRead, TypeOK
  <2>4. UNCHANGED <<hostVars, resolvVars>> /\ pc[p] = "rRead"
    BY <1>2 DEF RestoreRead
  <2>5. KeepsOwn' /\ LockedIsOurs' /\ StepAt(p)' /\ (sc.edits => CalmAt(p)')
    BY <2>1, <2>2, <2>3, <2>4
  <2>6. n \notin Resting /\ n \in Restoring /\ pc[p] \in Restoring /\ pc[p] \notin Resting
    BY <2>4 DEF Resting, Restoring
  <2> QED BY ONLY <2>1, <2>3, <2>4, <2>5, <2>6, OneMoves, IInv, TypeOK', p \in Procs
<1>3. CASE RestoreRemove(p)
  <2>1. pc'[p] = "rWrite"
    BY <1>3 DEF RestoreRemove, TypeOK
  <2> QED BY <1>3, <2>1, OneMoves DEF RestoreRemove, Resting, Restoring
<1>4. CASE RestoreWrite(p)
  <2> DEFINE Refused == locked \/ (loc[p].data = "link" /\ resolv # "absent")
  <2>1. CASE Refused
    <3>1. pc' = [pc EXCEPT ![p] = "rConf"] /\ pc'[p] = "rConf"
      BY <1>4, <2>1 DEF RestoreWrite, TypeOK
    <3>2. \A q \in Procs \ {p} : loc'[q] = loc[q]
      BY <1>4, <2>1 DEF RestoreWrite, TypeOK
    <3> QED BY <1>4, <2>1, <3>1, <3>2, OneMoves DEF RestoreWrite, Resting, Restoring
  <2>2. CASE ~Refused
    <3>1. pc' = [pc EXCEPT ![p] = "rForget"] /\ pc'[p] = "rForget"
      BY <1>4, <2>2 DEF RestoreWrite, TypeOK
    <3> QED BY <1>4, <2>2, <3>1, OneMoves DEF RestoreWrite, Resting, Restoring
  <2> QED BY <2>1, <2>2
<1>5. CASE RestoreForget(p)
  <2>1. pc'[p] = "rConf"
    BY <1>5 DEF RestoreForget, TypeOK
  <2>2. \A q \in Procs \ {p} : loc'[q] = loc[q]
    BY <1>5 DEF RestoreForget, TypeOK
  <2> QED BY <1>5, <2>1, <2>2, OneMoves DEF RestoreForget, Resting, Restoring
<1>6. CASE RestoreConf(p)
  <2>1. PICK n \in {"rConfForget", "rClean"} : pc' = [pc EXCEPT ![p] = n]
    BY <1>6 DEF RestoreConf
  <2>2. pc'[p] = n
    BY <2>1 DEF TypeOK
  <2>3. \A q \in Procs \ {p} : loc'[q] = loc[q]
    BY <1>6 DEF RestoreConf, TypeOK
  <2>4. UNCHANGED <<hostVars, resolvVars>> /\ pc[p] = "rConf"
    BY <1>6 DEF RestoreConf
  <2> QED BY <2>1, <2>2, <2>3, <2>4, OneMoves DEF Resting, Restoring
<1>7. CASE RestoreConfForget(p)
  <2>1. pc'[p] = "rClean"
    BY <1>7 DEF RestoreConfForget, TypeOK
  <2> QED BY <1>7, <2>1, OneMoves DEF RestoreConfForget, Resting, Restoring
<1>8. CASE RestoreClean(p)
  <2>1. PICK n \in {"rCleanRemove", "rRestart"} :
          pc' = [pc EXCEPT ![p] = n] /\ (n = "rCleanRemove" => resolv = "managed")
    BY <1>8 DEF RestoreClean
  <2>2. pc'[p] = n
    BY <2>1 DEF TypeOK
  <2>3. UNCHANGED <<sc, own, resolv, bak, locked, loc>> /\ pc[p] = "rClean"
    BY <1>8 DEF RestoreClean
  <2>4. KeepsOwn' /\ LockedIsOurs' /\ StepAt(p)' /\ (sc.edits => CalmAt(p)')
    BY <2>1, <2>2, <2>3
  <2> QED BY <2>1, <2>3, <2>4, OneMoves DEF Resting, Restoring
<1>9. CASE RestoreCleanRemove(p)
  <2>1. pc' = [pc EXCEPT ![p] = "rRestart"] /\ pc'[p] = "rRestart"
    BY <1>9 DEF RestoreCleanRemove, TypeOK
  <2>2. \A q \in Procs \ {p} : loc'[q] = loc[q]
    BY <1>9 DEF RestoreCleanRemove, TypeOK
  <2>3. UNCHANGED <<hostVars, bak>> /\ pc[p] = "rCleanRemove"
    BY <1>9 DEF RestoreCleanRemove
  <2>4. LockedIsOurs'
    BY <1>9 DEF RestoreCleanRemove, TryUnlock
  <2> QED BY <2>4, <2>1, <2>2, <2>3, OneMoves DEF Resting, Restoring
<1>10. CASE RestoreRestart(p)
  <2>1. PICK n \in {"restored", "failed"} : pc' = [pc EXCEPT ![p] = n]
    BY <1>10 DEF RestoreRestart
  <2>2. pc'[p] = n
    BY <2>1 DEF TypeOK
  <2> QED BY <1>10, <2>1, <2>2, OneMoves DEF RestoreRestart, Resting, Restoring
<1> QED BY <1>1, <1>2, <1>3, <1>4, <1>5, <1>6, <1>7, <1>8, <1>9, <1>10 DEF RestoreStep

\* Edits of the host, and processes that die.
LEMMA KeepsHost ==
  ASSUME Sound, IInv, TypeOK',
         HostEdits \/ (\E p \in Procs : Die(p)) \/ UNCHANGED vars
  PROVE  IInv'
<1> USE DEF IInv, hostVars, resolvVars, confVars
<1>1. CASE HostEdits
  <2>1. /\ bak = "absent" /\ bak' = bak /\ resolv' = own' /\ own' \in Own /\ UNCHANGED <<sc, pc>>
        /\ \A p \in Procs : pc[p] \in Resting
        /\ ~locked'
    BY <1>1 DEF HostEdits, Calm
  <2>2. KeepsOwn' /\ LockedIsOurs' /\ Turns'
    BY <2>1 DEF KeepsOwn, Kept, LockedIsOurs, Turns
  <2>3. Steps' /\ Calm'
    BY <2>1 DEF Steps, StepAt, Calm, CalmAt, Resting
  <2> QED BY <2>1, <2>2, <2>3
<1>2. ASSUME NEW p \in Procs, Die(p) PROVE IInv'
  <2>1. ~sc.edits /\ pc[p] \notin Resting
    BY <1>2, ScenariosAssumption DEF Die, Sound, TypeOK, Resting, Activating, Restoring
  <2>2. pc' = [pc EXCEPT ![p] = "idle"] /\ pc'[p] = "idle"
    BY <1>2 DEF Die, Goto, TypeOK
  <2> QED BY <1>2, <2>1, <2>2, OneMoves
      DEF Die, KeepsOwn, Kept, LockedIsOurs, StepAt, Resting, Activating
<1>3. CASE UNCHANGED vars
  BY <1>3 DEF vars, KeepsOwn, Kept, LockedIsOurs, Turns, Steps, StepAt, Calm, CalmAt
<1> QED BY <1>1, <1>2, <1>3

\* The invariant holds in every reachable state, if the scenarios are sound.
THEOREM Inductive ==
  ASSUME Sound
  PROVE  Spec => []IInv
<1>1. Init => IInv
  BY KeepsInit
<1>2. IInv /\ [Next]_vars => IInv'
  <2> SUFFICES ASSUME IInv, [Next]_vars PROVE IInv'
    OBVIOUS
  <2>1. TypeOK'
    BY TypeStep DEF IInv
  <2>2. CASE UNCHANGED vars \/ HostEdits
    BY <2>1, <2>2, KeepsHost
  <2>3. ASSUME NEW p \in Procs,
               Activate(p) \/ ActivateStep(p) \/ Restore(p) \/ RestoreStep(p) \/ Die(p)
        PROVE  IInv'
    BY <2>1, <2>3, KeepsBegin, KeepsActivate, KeepsRestore, KeepsHost
  <2> QED BY <2>2, <2>3 DEF Next
<1> QED BY <1>1, <1>2, PTL DEF Spec

\* KeepsOwn holds in every reachable state, whatever is repeated, fails or dies
\* on the way and however many activations of a host that has a backup overlap,
\* if the scenarios are sound: restores run alone.
THEOREM NeverLost ==
  ASSUME Sound
  PROVE  Spec => []KeepsOwn
<1>1. IInv => KeepsOwn
  BY DEF IInv
<1> QED BY Inductive, <1>1, PTL

-----------------------------------------------------------------------------
(* What a restore gives back.                                              *)

\* Configurations that make a manager ask the client.
Ours == {"ours", "mixed", "legacy"}

\* A restore is through with the manager's file.
After == {"rConfForget", "rClean", "rCleanRemove", "rRestart"}

IsBack(c) == c = ownConf \/ (ownConf = "absent" /\ c = "rest")

\* The manager's file and its backup fit what the host had there: where nothing
\* is kept, the file itself tells what the host's was.
ConfFits ==
  /\ ownConf = "pinned" =>
       manager \in {"connman", "dhclient"} /\ conf = "pinned" /\ confBak = "absent"
  /\ ownConf = "own" =>
       /\ manager \in {"connman", "dhclient", "resolvconf"}
       /\ manager = "resolvconf" => conf \in {"own", "ours"}
       /\ manager # "resolvconf" => conf \in {"own", "mixed"}
       /\ confBak \in {"absent", "own"} /\ (conf = "ours" => confBak = "own")
  /\ ownConf = "absent" =>
       /\ manager # "connman" => conf \in {"absent", "ours"} /\ confBak = "absent"
       /\ manager \in {"dhclient", "none"} => conf = "absent"
       /\ conf \in {"absent", "ours", "rest", "mixed", "legacy"}
       /\ confBak \in {"absent", "rest"} /\ (conf = "mixed" => confBak = "rest")

\* A manager that runs with our configuration has it in its file, or the restore
\* that took it from there is about to restart it.
LoadedFits ==
  /\ manager \notin DropIn \cup {"connman"} => loaded = "own"
  /\ ~sc.fails /\ sc.crash = {} /\ loaded = "ours" =>
       conf \in Ours \/ \E p \in Procs : pc[p] \in After /\ loc[p].changed

\* An activation writes over what is backed up; a restore that has met no error
\* has given back what it is through with.
ConfAt(p) ==
  /\ pc[p] = "confWrite" /\ manager \in WithBackup /\ conf \in {"own", "rest"}
       => confBak # "absent"
  /\ pc[p] = "confRestart" => manager = "systemd-resolved"
  /\ pc[p] \in {"rConf"} \cup After /\ ~loc[p].err => bak = "absent"
  /\ pc[p] \in After /\ ~loc[p].err => IsBack(conf)
  /\ pc[p] = "rConfForget" => IsBack(conf)
  /\ pc[p] = "restored" =>
       resolv = own /\ IsBack(conf) /\ (loaded = "own" \/ sc.fails \/ sc.crash # {})

\* What a restore reports is looked at before anybody begins anew.
Reported == \A p, q \in Procs : pc[p] = "restored" => pc[q] \in Resting

BackInv ==
  IInv /\ ConfFits /\ LoadedFits /\ (\A p \in Procs : ConfAt(p)) /\ Reported

\* What is taken away or put back is the host's, and differs from ours.
LEMMA BackIsBack ==
  ASSUME TypeOK, ConfFits
  PROVE  /\ IsBack(GivenBack)
         /\ manager \in DropIn \cup {"connman"} /\ conf \in Ours => GivenBack # conf
         /\ ownConf = "absent" /\ manager # "connman" => GivenBack = "absent"
         /\ \A c : IsBack(c) => c \notin Ours
<1>1. /\ ownConf \in {"absent", "own", "pinned"} /\ manager \in Managers
      /\ manager \in DropIn => conf \in {"absent", "ours"} /\ confBak = "absent"
      /\ manager \in {"connman", "resolvconf", "dhclient", "none"} <=> manager \notin DropIn
  BY DEF TypeOK, DropIn, WithBackup, Managers
<1>2. \A c : IsBack(c) => c \notin Ours
  BY <1>1 DEF IsBack, Ours
<1>3. CASE manager \in DropIn \cup {"resolvconf"}
  <2>1. Stripped = "absent"
    BY <1>3 DEF Stripped
  <2> QED BY <1>1, <1>2, <1>3, <2>1 DEF ConfFits, GivenBack, IsBack, Ours, DropIn
<1>4. CASE manager \in {"connman", "dhclient", "none"}
  <2>1. /\ conf = "legacy" => Stripped = "absent"
        /\ conf = "ours" => Stripped = "rest"
        /\ conf = "mixed" => Stripped = "own"
        /\ conf \notin Ours => Stripped = conf
    BY <1>1, <1>4 DEF Stripped, Ours, DropIn
  <2>2. GivenBack = IF confBak # "absent" THEN confBak ELSE Stripped
    BY <1>4 DEF GivenBack
  <2> QED BY <1>1, <1>2, <1>4, <2>1, <2>2 DEF ConfFits, IsBack, Ours
<1> QED BY <1>1, <1>2, <1>3, <1>4

\* What an activation writes fits, if what it writes over is backed up.
LEMMA ConfiguredFits ==
  ASSUME TypeOK, ConfFits,
         manager \in WithBackup /\ conf \in {"own", "rest"} => confBak # "absent",
         conf' = Configured, UNCHANGED <<manager, ownConf, confBak>>
  PROVE  /\ ConfFits'
         /\ conf \in Ours => conf' \in Ours
         /\ manager \in WithBackup /\ conf' \in {"own", "rest"} => conf' = conf
<1>1. /\ ownConf \in {"absent", "own", "pinned"} /\ manager \in Managers
      /\ manager \in DropIn => conf \in {"absent", "ours"} /\ confBak = "absent"
  BY DEF TypeOK, DropIn, WithBackup
<1>2. CASE manager \in DropIn \cup {"resolvconf"}
  <2>1. conf' = "ours"
    BY <1>2 DEF Configured, DropIn
  <2> QED BY <1>1, <1>2, <2>1 DEF ConfFits, Ours, DropIn, WithBackup
<1>3. CASE manager \in {"connman", "dhclient", "none"}
  <2>1. /\ manager = "connman" /\ conf = "absent" => conf' = "ours"
        /\ manager \in {"connman", "dhclient"} /\ conf \in {"own", "rest"} => conf' = "mixed"
        /\ ~(manager = "connman" /\ conf = "absent")
           /\ ~(manager \in {"connman", "dhclient"} /\ conf \in {"own", "rest"}) => conf' = conf
    BY <1>3 DEF Configured, DropIn
  <2> QED BY <1>1, <1>3, <2>1 DEF ConfFits, Ours, WithBackup
<1> QED BY <1>1, <1>2, <1>3 DEF Managers, DropIn, WithBackup

\* An assignment changes the local it is made to.
LEMMA Values ==
  ASSUME NEW p \in Procs, loc \in [Procs -> Locals], NEW b \in BOOLEAN, NEW e \in BOOLEAN
  PROVE  /\ [loc EXCEPT ![p].changed = b][p].changed = b
         /\ [loc EXCEPT ![p].changed = b][p].err = loc[p].err
         /\ [loc EXCEPT ![p].changed = b, ![p].err = e][p].changed = b
         /\ [loc EXCEPT ![p].changed = b, ![p].err = e][p].err = e
         /\ [loc EXCEPT ![p].err = e][p].changed = loc[p].changed
         /\ [loc EXCEPT ![p].err = e][p].err = e
<1>1. loc[p] \in Locals
  OBVIOUS
<1> QED BY <1>1 DEF Locals

\* A step of one process disturbs none of this of the others.
LEMMA OneGivesBack ==
  ASSUME BackInv, IInv', NEW p \in Procs, pc[p] \notin Resting,
         NEW n, pc' = [pc EXCEPT ![p] = n],
         n \notin {"restored"} \/ pc[p] \in Restoring,
         UNCHANGED <<sc, manager>>,
         \A q \in Procs \ {p} : loc'[q] = loc[q],
         \/ pc[p] \in Restoring
         \/ manager \in WithBackup /\ conf' \in {"own", "rest"} /\ confBak' = "absent"
              => conf' = conf /\ confBak' = confBak,
         ConfFits', ConfAt(p)',
         manager \notin DropIn \cup {"connman"} => loaded' = "own",
         ~sc.fails /\ sc.crash = {} /\ loaded' = "ours" =>
           conf' \in Ours \/ (n \in After /\ loc'[p].changed)
  PROVE  BackInv'
<1> USE DEF BackInv
<1>1. /\ pc'[p] = n
      /\ \A q \in Procs \ {p} : pc'[q] = pc[q]
  BY DEF IInv, TypeOK
<1>2. \A q \in Procs \ {p} :
        pc[q] \notin Resting => pc[p] \in Activating /\ pc[q] \in Activating
  BY DEF IInv, Turns
<1>3. \A q \in Procs : pc[q] # "restored"
  BY DEF Reported
<1>4. Reported'
  <2>1. ASSUME NEW q \in Procs, NEW r \in Procs, pc'[q] = "restored"
        PROVE  pc'[r] \in Resting
    <3>1. q = p /\ n = "restored"
      BY <1>1, <1>3, <2>1
    <3> QED BY <1>1, <1>2, <3>1 DEF Resting, Activating, Restoring
  <2> QED BY <2>1 DEF Reported
<1>5. LoadedFits'
  BY <1>1 DEF LoadedFits
<1>6. ASSUME NEW q \in Procs \ {p} PROVE ConfAt(q)'
  <2>1. CASE pc[q] \in Resting
    BY <1>1, <1>3, <2>1 DEF ConfAt, Resting, After
  <2>2. CASE pc[q] \notin Resting
    <3>1. pc'[q] \in Activating /\ pc[p] \in Activating /\ pc[p] \notin Restoring
      BY <1>1, <1>2, <2>2 DEF Activating, Restoring
    <3>2. pc'[q] \notin {"rConf", "restored"} \cup After
      BY <3>1 DEF Activating, After
    <3>3. pc'[q] = "confWrite" /\ manager' \in WithBackup /\ conf' \in {"own", "rest"}
            => confBak' # "absent"
      BY <1>1, <3>1 DEF ConfAt
    <3> QED BY <3>2, <3>3 DEF ConfAt, After, WithBackup
  <2> QED BY <2>1, <2>2
<1> QED BY <1>4, <1>5, <1>6

\* Before the first activation.
LEMMA BackInit == Sound /\ Init => BackInv
<1> SUFFICES ASSUME Sound, Init PROVE BackInv
  OBVIOUS
<1>1. IInv
  BY KeepsInit
<1>2. /\ conf \in ConfInit[manager] /\ manager \in Managers /\ confBak = "absent"
      /\ ownConf = IF conf = "legacy" THEN "absent" ELSE conf
      /\ loaded = IF conf = "legacy" THEN "ours" ELSE "own"
      /\ \A p \in Procs : pc[p] = "idle"
  BY DEF Init
<1>3. /\ manager \in DropIn \cup {"none"} => conf = "absent"
      /\ manager = "connman" => conf \in {"absent", "own", "pinned", "legacy"}
      /\ manager = "dhclient" => conf \in {"absent", "own", "pinned"}
      /\ manager = "resolvconf" => conf \in {"absent", "own"}
      /\ manager \in DropIn \cup {"none", "connman", "dhclient", "resolvconf"}
  BY <1>2 DEF ConfInit, Managers, DropIn, WithBackup
<1>4. ConfFits
  BY <1>2, <1>3 DEF ConfFits, DropIn
<1>5. LoadedFits
  BY <1>2, <1>3 DEF LoadedFits, Ours, DropIn
<1> QED BY <1>1, <1>2, <1>4, <1>5 DEF BackInv, ConfAt, Reported, After

\* An activation or a restore begins: nobody is in the middle of a restore.
LEMMA BackBegin ==
  ASSUME Sound, BackInv, IInv', NEW p \in Procs, Activate(p) \/ Restore(p) PROVE BackInv'
<1> USE DEF BackInv
<1>1. PICK n \in {"stat", "rUnlock"} : Begin(p, n) /\ (Alone(p) \/ Beside(p, Activating))
  BY Begun DEF IInv
<1>2. /\ pc'[p] = n
      /\ \A q \in Procs \ {p} : pc'[q] = IF pc[q] \in Resting THEN "idle" ELSE pc[q]
      /\ \A q \in Procs \ {p} : loc'[q] = loc[q]
      /\ UNCHANGED <<sc, manager, own, ownConf, resolv, bak, conf, confBak, loaded>>
  BY <1>1 DEF Begin, IInv, TypeOK, hostVars, resolvVars, confVars
<1>3. pc[p] \in Resting
  BY <1>1 DEF Begin
<1>4. \A q \in Procs : pc'[q] # "restored"
  BY <1>2 DEF Resting
<1>5. \A q \in Procs : pc[q] \notin After
  BY <1>1, <1>3 DEF Alone, Beside, After, Resting, Activating
<1>6. \A q \in Procs : pc'[q] \notin After
  BY <1>2, <1>5 DEF After
<1>7. ConfFits' /\ LoadedFits'
  BY <1>2, <1>5 DEF ConfFits, LoadedFits
<1>8. ASSUME NEW q \in Procs PROVE ConfAt(q)'
  <2>1. CASE q = p
    BY <1>2, <1>4, <1>6, <2>1 DEF ConfAt
  <2>2. CASE q # p
    BY <1>2, <1>4, <1>6, <2>2 DEF ConfAt, IsBack, After, WithBackup
  <2> QED BY <2>1, <2>2
<1> QED BY <1>4, <1>7, <1>8 DEF Reported

\* What the steps of an activation do to the manager's file.
LEMMA BackActivate ==
  ASSUME BackInv, IInv', NEW p \in Procs, ActivateStep(p) PROVE BackInv'
<1> USE DEF hostVars, resolvVars, confVars, Goto
<1>1. /\ TypeOK /\ ConfFits /\ LoadedFits /\ ConfAt(p) /\ pc \in [Procs -> Resting \cup Activating \cup Restoring]
      /\ manager \notin DropIn \cup {"connman"} => loaded = "own"
  BY DEF BackInv, IInv, TypeOK, LoadedFits
<1>2. /\ pc[p] \in Activating /\ pc[p] \notin Resting /\ pc[p] \notin Restoring
      /\ \A q \in Procs : pc[q] \notin After
  <2>1. pc[p] \in Activating
    BY DEF ActivateStep, Stat, Read, Backup, ConfBackup, ConfWrite, ConfRestart, Unlock, Lstat,
           Unlink, Manage, Lock, Restart, Activating
  <2>2. \A q \in Procs : pc[q] \in Resting \cup Activating
    BY <2>1 DEF BackInv, IInv, Turns, Resting, Activating
  <2> QED BY <2>1, <2>2 DEF Resting, Activating, Restoring, After
<1>3. ~sc.fails /\ sc.crash = {} /\ loaded = "ours" => conf \in Ours
  BY <1>1, <1>2 DEF LoadedFits
<1>4. UNCHANGED <<sc, manager, ownConf>> /\ \A q \in Procs \ {p} : loc'[q] = loc[q]
  BY DEF ActivateStep, Stat, Read, Backup, ConfBackup, ConfWrite, ConfRestart, Unlock, Lstat,
         Unlink, Manage, Lock, Restart, BackInv, IInv, TypeOK
<1>5. ASSUME NEW n, pc' = [pc EXCEPT ![p] = n],
             n \notin {"restored", "confWrite", "confRestart", "rConf"} \cup After, UNCHANGED confVars
      PROVE  BackInv'
  <2>1. pc'[p] = n
    BY <1>1, <1>5
  <2>2. ConfFits' /\ ConfAt(p)'
    BY <1>1, <1>4, <1>5, <2>1 DEF ConfFits, ConfAt, After
  <2> QED BY <1>1, <1>2, <1>3, <1>4, <1>5, <2>2, OneGivesBack
<1>6. CASE Stat(p)
  BY <1>5, <1>6 DEF Stat, After
<1>7. CASE Read(p)
  BY <1>5, <1>7 DEF Read, After
<1>8. CASE Backup(p) \/ Unlock(p) \/ Lstat(p) \/ Unlink(p) \/ Manage(p) \/ Lock(p)
  <2>1. PICK n \in {"confBackup", "lstat", "unlink", "manage", "failed", "lock", "restart"} :
          pc' = [pc EXCEPT ![p] = n]
    BY <1>8 DEF Backup, Unlock, Lstat, Unlink, Manage, Lock
  <2>2. UNCHANGED confVars
    BY <1>8 DEF Backup, Unlock, Lstat, Unlink, Manage, Lock
  <2> QED BY <1>5, <2>1, <2>2 DEF After
<1>9. CASE ConfBackup(p)
  <2>1. pc' = [pc EXCEPT ![p] = "confWrite"] /\ pc'[p] = "confWrite" /\ UNCHANGED <<conf, loaded>>
    BY <1>1, <1>9 DEF ConfBackup
  <2>2. /\ confBak' = IF BackedUp THEN conf ELSE confBak
        /\ confBak' = "absent" => confBak' = confBak
        /\ manager \in WithBackup /\ conf \in {"own", "rest"} => confBak' # "absent"
    BY <1>9 DEF ConfBackup, BackedUp
  <2>3. ConfFits'
    BY <1>1, <1>4, <2>1, <2>2 DEF ConfFits, BackedUp, WithBackup
  <2>4. ConfAt(p)'
    BY <1>4, <2>1, <2>2 DEF ConfAt, WithBackup, After
  <2> QED BY <1>1, <1>2, <1>3, <1>4, <2>1, <2>2, <2>3, <2>4, OneGivesBack
<1>10. CASE ConfWrite(p)
  <2>1. PICK n \in {"confRestart", "unlock"} :
          pc' = [pc EXCEPT ![p] = n] /\ (n = "confRestart" => manager = "systemd-resolved")
    BY <1>10 DEF ConfWrite
  <2>2. pc'[p] = n /\ pc[p] = "confWrite" /\ UNCHANGED <<confBak, loaded>> /\ conf' = Configured
    BY <1>1, <1>10, <2>1 DEF ConfWrite
  <2>3. /\ ConfFits' /\ (conf \in Ours => conf' \in Ours)
        /\ manager \in WithBackup /\ conf' \in {"own", "rest"} => conf' = conf
    BY <1>1, <1>4, <2>2, ConfiguredFits DEF ConfAt
  <2>4. ConfAt(p)'
    BY <1>4, <2>1, <2>2 DEF ConfAt, After
  <2>5. n # "restored" /\ n \notin After
    BY DEF After
  <2> QED BY <1>1, <1>2, <1>3, <1>4, <2>1, <2>2, <2>3, <2>4, <2>5, OneGivesBack
<1>11. CASE ConfRestart(p) \/ Restart(p)
  <2>1. PICK n \in {"unlock", "failed", "activated"} : pc' = [pc EXCEPT ![p] = n]
    BY <1>11 DEF ConfRestart, Restart
  <2>2. pc'[p] = n /\ UNCHANGED <<conf, confBak>>
    BY <1>1, <1>11, <2>1 DEF ConfRestart, Restart
  <2>3. ConfFits' /\ ConfAt(p)'
    BY <1>1, <1>4, <2>2 DEF ConfFits, ConfAt, After
  <2>4. loaded' = loaded \/ (loaded' = Effective /\ manager \in DropIn \cup {"connman"})
    BY <1>11, <1>1 DEF ConfRestart, Restart, ConfAt, DropIn
  <2> QED BY <1>1, <1>2, <1>3, <1>4, <2>1, <2>2, <2>3, <2>4, OneGivesBack DEF Effective, Ours
<1> QED
  BY <1>6, <1>7, <1>8, <1>9, <1>10, <1>11 DEF ActivateStep

\* What the steps of a restore do to the manager's file, and what it reports.
LEMMA BackRestore ==
  ASSUME BackInv, IInv', NEW p \in Procs, RestoreStep(p) PROVE BackInv'
<1> USE DEF hostVars, resolvVars, confVars, Goto
<1>1. /\ TypeOK /\ ConfFits /\ LoadedFits /\ ConfAt(p)
      /\ pc \in [Procs -> Resting \cup Activating \cup Restoring] /\ loc \in [Procs -> Locals]
      /\ manager \notin DropIn \cup {"connman"} => loaded = "own"
      /\ bak = "absent" => resolv = own
  BY TypeSplit DEF BackInv, IInv, HostOK, LoadedFits, KeepsOwn, Kept
<1>2. pc[p] \in Restoring /\ pc[p] \notin Resting
  BY DEF RestoreStep, RestoreUnlock, RestoreRead, RestoreRemove, RestoreWrite, RestoreForget,
         RestoreConf, RestoreConfForget, RestoreClean, RestoreCleanRemove, RestoreRestart,
         Resting, Restoring
<1>3. ~sc.fails /\ sc.crash = {} /\ loaded = "ours" =>
        conf \in Ours \/ (pc[p] \in After /\ loc[p].changed)
  <2>1. \A q \in Procs \ {p} : pc[q] \notin After
    BY <1>2 DEF BackInv, IInv, Turns, Resting, Activating, Restoring, After
  <2> QED BY <1>1, <2>1 DEF LoadedFits
<1>4. UNCHANGED <<sc, manager, own, ownConf>> /\ \A q \in Procs \ {p} : loc'[q] = loc[q]
  BY <1>1 DEF RestoreStep, RestoreUnlock, RestoreRead, RestoreRemove, RestoreWrite, RestoreForget,
         RestoreConf, RestoreConfForget, RestoreClean, RestoreCleanRemove, RestoreRestart
<1>5. ASSUME NEW n, pc' = [pc EXCEPT ![p] = n], n \in Restoring \ ({"rConf"} \cup After),
             pc[p] \notin After, UNCHANGED confVars
      PROVE  BackInv'
  <2>1. pc'[p] = n
    BY <1>1, <1>5
  <2>2. ConfFits' /\ ConfAt(p)'
    BY <1>1, <1>4, <1>5, <2>1 DEF ConfFits, ConfAt, After, Restoring
  <2> QED BY <1>1, <1>2, <1>3, <1>4, <1>5, <2>2, OneGivesBack
<1>6. ASSUME pc' = [pc EXCEPT ![p] = "rConf"], pc[p] \notin After, UNCHANGED confVars,
             loc'[p].err \/ bak' = "absent"
      PROVE  BackInv'
  <2>1. pc'[p] = "rConf"
    BY <1>1, <1>6
  <2>2. ConfFits' /\ ConfAt(p)'
    BY <1>1, <1>4, <1>6, <2>1 DEF ConfFits, ConfAt, After
  <2> QED BY <1>1, <1>2, <1>3, <1>4, <1>6, <2>2, OneGivesBack
<1>7. CASE RestoreUnlock(p) \/ RestoreRemove(p)
  BY <1>5, <1>7 DEF RestoreUnlock, RestoreRemove, Restoring, After
<1>8. CASE RestoreRead(p)
  <2>1. CASE bak = "absent"
    BY <1>6, <1>8, <2>1 DEF RestoreRead, After
  <2>2. CASE bak # "absent"
    BY <1>5, <1>8, <2>2 DEF RestoreRead, Restoring, After
  <2> QED BY <2>1, <2>2
<1>9. CASE RestoreWrite(p)
  <2> DEFINE Refused == locked \/ (loc[p].data = "link" /\ resolv # "absent")
  <2>1. CASE Refused
    <3>1. loc'[p].err
      BY <1>1, <1>9, <2>1, Values DEF RestoreWrite
    <3> QED BY <1>6, <1>9, <2>1, <3>1 DEF RestoreWrite, After
  <2>2. CASE ~Refused
    BY <1>5, <1>9, <2>2 DEF RestoreWrite, Restoring, After
  <2> QED BY <2>1, <2>2
<1>10. CASE RestoreForget(p)
  BY <1>6, <1>10 DEF RestoreForget, After
<1>11. CASE RestoreConf(p)
  <2>1. CASE /\ conf' = GivenBack
             /\ loc' = [loc EXCEPT ![p].changed = confBak # "absent" \/ GivenBack # conf]
             /\ pc' = [pc EXCEPT ![p] = "rConfForget"]
    <3>1. /\ pc'[p] = "rConfForget" /\ pc[p] = "rConf" /\ UNCHANGED <<bak, resolv, confBak, loaded>>
      BY <1>1, <1>11, <2>1 DEF RestoreConf
    <3>2. /\ loc'[p].err = loc[p].err
          /\ loc'[p].changed = (confBak # "absent" \/ GivenBack # conf)
      <4>1. (confBak # "absent" \/ GivenBack # conf) \in BOOLEAN
        OBVIOUS
      <4>2. \A b \in BOOLEAN : /\ [loc EXCEPT ![p].changed = b][p].changed = b
                               /\ [loc EXCEPT ![p].changed = b][p].err = loc[p].err
        BY <1>1, Values
      <4> QED BY <2>1, <4>1, <4>2
    <3>3. /\ IsBack(conf')
          /\ manager \in DropIn \cup {"connman"} /\ conf \in Ours => conf' # conf
          /\ ownConf = "absent" /\ manager # "connman" => conf' = "absent"
      BY <1>1, <2>1, BackIsBack
    <3>4. ConfFits'
      BY <1>1, <1>4, <3>1, <3>3 DEF ConfFits, IsBack
    <3>5. ConfAt(p)'
      BY <1>1, <1>4, <3>1, <3>2, <3>3 DEF ConfAt, IsBack, After
    <3>6. ~sc.fails /\ sc.crash = {} /\ loaded' = "ours" => loc'[p].changed
      BY <1>1, <1>3, <2>1, <3>1, <3>2, <3>3 DEF After
    <3>7. "rConfForget" \in After
      BY DEF After
    <3> QED BY <1>1, <1>2, <1>4, <2>1, <3>1, <3>4, <3>5, <3>6, <3>7, OneGivesBack
  <2>2. CASE /\ sc.fails /\ UNCHANGED conf
             /\ loc' = [loc EXCEPT ![p].changed = manager \in DropIn /\ conf # "absent",
                                  ![p].err = TRUE]
             /\ pc' = [pc EXCEPT ![p] = "rClean"]
    <3>1. pc'[p] = "rClean" /\ UNCHANGED <<bak, resolv, confBak, loaded>>
      BY <1>1, <1>11, <2>2 DEF RestoreConf
    <3>2. loc'[p].err
      <4>1. (manager \in DropIn /\ conf # "absent") \in BOOLEAN
        OBVIOUS
      <4>2. \A b \in BOOLEAN : [loc EXCEPT ![p].changed = b, ![p].err = TRUE][p].err = TRUE
        BY <1>1, Values
      <4> QED BY <2>2, <4>1, <4>2
    <3>3. ConfFits' /\ ConfAt(p)'
      BY <1>1, <1>4, <2>2, <3>1, <3>2 DEF ConfFits, ConfAt
    <3> QED BY <1>1, <1>2, <1>4, <2>2, <3>1, <3>3, OneGivesBack
  <2> QED BY <1>11, <2>1, <2>2 DEF RestoreConf
<1>12. CASE RestoreConfForget(p)
  <2>1. /\ pc' = [pc EXCEPT ![p] = "rClean"] /\ pc'[p] = "rClean" /\ pc[p] = "rConfForget"
        /\ UNCHANGED <<bak, resolv, conf, loaded, loc>> /\ confBak' = "absent"
    BY <1>1, <1>12 DEF RestoreConfForget
  <2>2. IsBack(conf)
    BY <1>1, <2>1 DEF ConfAt
  <2>3. ConfFits'
    BY <1>1, <1>4, <2>1, <2>2 DEF ConfFits, IsBack
  <2>4. ConfAt(p)' /\ "rClean" \in After /\ "rConfForget" \in After
    BY <1>1, <1>4, <2>1, <2>2 DEF ConfAt, IsBack, After
  <2> QED BY <1>1, <1>2, <1>3, <1>4, <2>1, <2>3, <2>4, OneGivesBack
<1>13. CASE RestoreClean(p) \/ RestoreCleanRemove(p)
  <2>1. PICK n \in {"rCleanRemove", "rRestart"} : pc' = [pc EXCEPT ![p] = n]
    BY <1>13 DEF RestoreClean, RestoreCleanRemove
  <2>2. pc'[p] = n /\ pc[p] \in After /\ n \in After /\ n # "restored" /\ UNCHANGED <<bak, confVars>>
    BY <1>1, <1>13, <2>1 DEF RestoreClean, RestoreCleanRemove, After
  <2>3. loc'[p].changed = loc[p].changed /\ (loc'[p].err = loc[p].err \/ loc'[p].err)
    <3>1. /\ TRUE \in BOOLEAN
          /\ \A e \in BOOLEAN : [loc EXCEPT ![p].err = e][p].changed = loc[p].changed
          /\ \A e \in BOOLEAN : [loc EXCEPT ![p].err = e][p].err = e
      BY <1>1, Values
    <3>2. loc' = loc \/ loc' = [loc EXCEPT ![p].err = TRUE]
      BY <1>13 DEF RestoreClean, RestoreCleanRemove
    <3> QED BY <3>1, <3>2
  <2>4. ConfFits' /\ ConfAt(p)'
    BY <1>1, <1>4, <2>1, <2>2, <2>3 DEF ConfFits, ConfAt, IsBack
  <2> QED BY <1>1, <1>2, <1>3, <1>4, <2>1, <2>2, <2>3, <2>4, OneGivesBack
<1>14. CASE RestoreRestart(p)
  <2>1. PICK n \in {"restored", "failed"} :
          /\ pc' = [pc EXCEPT ![p] = n]
          /\ n = "restored" => ~loc[p].err
          /\ n = "restored" \/ sc.fails \/ loc[p].err
          /\ \/ loaded' = IF loc[p].changed /\ manager \in DropIn \cup {"connman"}
                            THEN Effective ELSE loaded
             \/ sc.fails /\ n = "failed" /\ loaded' = loaded
    BY <1>14 DEF RestoreRestart
  <2>2. pc'[p] = n /\ pc[p] = "rRestart" /\ pc[p] \in After /\ UNCHANGED <<resolv, bak, conf, confBak, loc>>
    BY <1>1, <1>14, <2>1 DEF RestoreRestart, After
  <2>3. /\ ~sc.fails /\ sc.crash = {} /\ loaded' = "ours" => conf \in Ours
        /\ manager \notin DropIn \cup {"connman"} => loaded' = "own"
        /\ loaded' \in {"own", "ours"}
    BY <1>1, <1>3, <2>1, <2>2 DEF Effective, Ours, TypeOK
  <2>4. ~loc[p].err => IsBack(conf) /\ conf \notin Ours /\ resolv = own
    BY <1>1, <2>2, BackIsBack DEF ConfAt, After
  <2>5. ConfFits' /\ ConfAt(p)'
    BY <1>1, <1>4, <2>1, <2>2, <2>3, <2>4 DEF ConfFits, ConfAt, IsBack, After
  <2> QED BY <1>1, <1>2, <1>4, <2>1, <2>2, <2>3, <2>5, OneGivesBack
<1> QED
  BY <1>7, <1>8, <1>9, <1>10, <1>11, <1>12, <1>13, <1>14 DEF RestoreStep

\* Edits of the host while nobody is at work, and processes that die.
LEMMA BackHost ==
  ASSUME BackInv, IInv',
         HostEdits \/ (\E p \in Procs : Die(p)) \/ UNCHANGED vars
  PROVE  BackInv'
<1> USE DEF BackInv, hostVars, resolvVars, confVars
<1>1. CASE HostEdits
  <2>1. /\ resolv' = own' /\ UNCHANGED <<sc, manager, ownConf, bak, confVars, pc, loc>>
        /\ \A p \in Procs : pc[p] \in Resting
    BY <1>1 DEF HostEdits
  <2>2. ConfFits' /\ LoadedFits' /\ Reported'
    BY <2>1 DEF ConfFits, LoadedFits, Reported, After, Resting
  <2>3. ASSUME NEW p \in Procs PROVE ConfAt(p)'
    BY <2>1 DEF ConfAt, IsBack, After, Resting
  <2> QED BY <2>2, <2>3
<1>2. ASSUME NEW p \in Procs, Die(p) PROVE BackInv'
  <2>1. sc.crash # {} /\ pc[p] \notin Resting
    BY <1>2, ScenariosAssumption DEF Die, IInv, TypeOK, Resting, Activating, Restoring
  <2>2. pc' = [pc EXCEPT ![p] = "idle"] /\ pc'[p] = "idle"
    BY <1>2 DEF Die, Goto, IInv, TypeOK
  <2>3. UNCHANGED <<hostVars, confVars, loc>>
    BY <1>2 DEF Die
  <2>4. ConfFits' /\ ConfAt(p)' /\ (manager \notin DropIn \cup {"connman"} => loaded' = "own")
    BY <2>2, <2>3 DEF ConfFits, ConfAt, After, LoadedFits
  <2> QED BY <2>1, <2>2, <2>3, <2>4, OneGivesBack
<1>3. CASE UNCHANGED vars
  BY <1>3 DEF vars, ConfFits, LoadedFits, ConfAt, IsBack, Reported, After
<1> QED BY <1>1, <1>2, <1>3

\* A restore that reports no error has given the host back what it had, for every
\* DNS manager (linux_dns_restore.go 14-60), if the scenarios are sound.
THEOREM GivesBack ==
  ASSUME Sound
  PROVE  Spec => []RestoredGivesBack
<1>1. Init => BackInv
  BY BackInit
<1>2. BackInv /\ IInv' /\ [Next]_vars => BackInv'
  <2> SUFFICES ASSUME BackInv, IInv', [Next]_vars PROVE BackInv'
    OBVIOUS
  <2>1. CASE UNCHANGED vars \/ HostEdits
    BY <2>1, BackHost
  <2>2. ASSUME NEW p \in Procs,
               Activate(p) \/ ActivateStep(p) \/ Restore(p) \/ RestoreStep(p) \/ Die(p)
        PROVE  BackInv'
    BY <2>2, BackBegin, BackActivate, BackRestore, BackHost
  <2> QED BY <2>1, <2>2 DEF Next
<1>3. BackInv => RestoredGivesBack
  BY DEF BackInv, ConfAt, IsBack, RestoredGivesBack
<1> QED BY <1>1, <1>2, <1>3, Inductive, PTL DEF Spec

-----------------------------------------------------------------------------
(* What the daemon and the commands rely on.                               *)

Calls == [p \in Procs |-> CallOf(pc[p])]

\* The call a step belongs to.
LEMMA CallValues ==
  /\ \A at \in Resting : CallOf(at) = at /\ at \in Setting!Ended
  /\ CallOf("manage") = "taking" /\ CallOf("lock") = "set" /\ CallOf("restart") = "set"
  /\ \A at \in Restoring : CallOf(at) = "restoring"
  /\ \A at \in Activating \ {"manage", "lock", "restart"} : CallOf(at) = "activating"
  /\ \A at \in Activating : CallOf(at) \in {"activating", "taking", "set"}
  /\ \A at \in Activating \cup Restoring : CallOf(at) \notin Setting!Ended
BY DEF CallOf, Resting, Activating, Restoring, Setting!Ended

\* A step of a process is one of its call.
LEMMA CallMoves ==
  ASSUME TypeOK, NEW p \in Procs, NEW n, Goto(p, n)
  PROVE  Calls' = [Calls EXCEPT ![p] = CallOf(n)]
BY DEF Calls, Goto, TypeOK

LEMMA CallStays ==
  ASSUME TypeOK, NEW p \in Procs, NEW n, Goto(p, n), CallOf(n) = CallOf(pc[p])
  PROVE  UNCHANGED Calls
BY DEF Calls, Goto, TypeOK

\* A call begins, while those under way allow it.
LEMMA SettingBegins ==
  ASSUME Sound, IInv, NEW p \in Procs, Activate(p) \/ Restore(p)
  PROVE  Setting!DNext
<1> USE DEF IInv
<1>1. PICK n \in {"stat", "rUnlock"} :
        /\ Begin(p, n)
        /\ n = "rUnlock" => Alone(p)
        /\ Alone(p) \/ Beside(p, Activating)
  BY Begun
<1> DEFINE next == CallOf(n)
<1>2. next = IF n = "stat" THEN "activating" ELSE "restoring"
  BY <1>1, CallValues DEF Activating, Restoring
<1>3. Calls' = [q \in Procs |-> IF q = p THEN next
                                ELSE IF Calls[q] \in Setting!Ended THEN "idle" ELSE Calls[q]]
  <2>1. ASSUME NEW q \in Procs PROVE Calls[q] \in Setting!Ended <=> pc[q] \in Resting
    BY CallValues DEF Calls, TypeOK
  <2>2. CallOf("idle") = "idle"
    BY CallValues DEF Resting
  <2> QED BY <1>1, <2>1, <2>2 DEF Begin, Calls
<1>4. \A q \in Procs : \/ Calls[q] \in Setting!Ended
                       \/ q # p /\ next = "activating" /\ Calls[q] # "restoring"
  <2> SUFFICES ASSUME NEW q \in Procs, pc[q] \notin Resting
               PROVE  q # p /\ next = "activating" /\ Calls[q] # "restoring"
    BY CallValues DEF Calls
  <2>1. q # p /\ ~Alone(p)
    BY <1>1 DEF Begin, Alone, Beside
  <2>2. pc[q] \in Activating
    BY <1>1, <2>1 DEF Beside
  <2> QED BY <1>1, <1>2, <2>1, <2>2, CallValues DEF Calls
<1>5. UNCHANGED <<own, Asked>>
  BY <1>1 DEF Begin, hostVars, resolvVars, Asked
<1>6. Setting!Begins(p, next)
  BY <1>3, <1>4, <1>5 DEF Setting!Begins, Calls
<1> QED BY <1>2, <1>6 DEF Setting!DNext

\* The steps of an activation: what the host asks changes only when the link is
\* removed and when the managed file is written.
LEMMA SettingActivates ==
  ASSUME IInv, NEW p \in Procs, ActivateStep(p)
  PROVE  Setting!DNext \/ UNCHANGED <<own, Asked, Calls>>
<1> USE DEF IInv
<1>0. /\ own # "absent" /\ own # "managed" /\ Calls[p] = CallOf(pc[p])
      /\ UNCHANGED own
  BY FilesAssumption DEF Own, Calls, ActivateStep, Stat, Read, Backup, ConfBackup, ConfWrite,
     ConfRestart, Unlock, Lstat, Unlink, Manage, Lock, Restart, hostVars
<1> USE <1>0
<1>1. CASE Stat(p) \/ Read(p) \/ Backup(p) \/ ConfBackup(p) \/ ConfWrite(p) \/ Unlock(p)
  <2>1. PICK n \in Activating \ {"manage", "lock", "restart"} : Goto(p, n)
    BY <1>1 DEF Stat, Read, Backup, ConfBackup, ConfWrite, Unlock, Activating
  <2>2. pc[p] \in Activating \ {"manage", "lock", "restart"}
    BY <1>1 DEF Stat, Read, Backup, ConfBackup, ConfWrite, Unlock, Activating
  <2>3. UNCHANGED Asked
    BY <1>1 DEF Stat, Read, Backup, ConfBackup, ConfWrite, Unlock, Asked, hostVars, resolvVars
  <2> QED BY <2>1, <2>2, <2>3, CallStays, CallValues
<1>2. CASE ConfRestart(p)
  <2>1. pc[p] = "confRestart" /\ CallOf(pc[p]) = "activating" /\ UNCHANGED Asked
    BY <1>2, CallValues DEF ConfRestart, Activating, Asked, hostVars, resolvVars
  <2>2. CASE Goto(p, "unlock")
    <3>1. CallOf("unlock") = "activating"
      BY CallValues DEF Activating
    <3> QED BY <2>1, <2>2, <3>1, CallStays
  <2>3. CASE Goto(p, "failed")
    <3>1. Calls' = [Calls EXCEPT ![p] = "failed"]
      BY <2>3, CallMoves, CallValues DEF Resting
    <3>2. Setting!ActivateEnds(p)
      BY <2>1, <3>1 DEF Setting!ActivateEnds, Setting!Move, Calls
    <3> QED BY <3>2 DEF Setting!DNext
  <2> QED BY <1>2, <2>2, <2>3 DEF ConfRestart
<1>3. CASE Lstat(p) \/ Unlink(p)
  <2>1. /\ CallOf(pc[p]) = "activating" /\ CallOf("unlink") = "activating"
        /\ Asked' \in {Asked, "others"}
    <3>1. pc[p] \in {"lstat", "unlink"} /\ (UNCHANGED resolv \/ resolv' = "absent")
      BY <1>3 DEF Lstat, Unlink, resolvVars
    <3> QED BY <3>1, CallValues DEF Asked, Activating
  <2>2. CASE Goto(p, "manage")
    <3>1. Calls' = [Calls EXCEPT ![p] = "taking"]
      BY <2>2, CallMoves, CallValues
    <3>2. Setting!Takes(p)
      BY <2>1, <3>1 DEF Setting!Takes, Setting!Move, Calls
    <3> QED BY <3>2 DEF Setting!DNext
  <2>3. CASE Goto(p, "unlink") /\ UNCHANGED resolv
    BY <2>1, <2>3, CallStays DEF Asked
  <2>4. CASE Goto(p, "failed") /\ UNCHANGED resolv
    <3>1. Calls' = [Calls EXCEPT ![p] = "failed"]
      BY <2>4, CallMoves, CallValues DEF Resting
    <3>2. Setting!ActivateEnds(p)
      BY <2>1, <2>4, <3>1 DEF Setting!ActivateEnds, Setting!Move, Calls, Asked
    <3> QED BY <3>2 DEF Setting!DNext
  <2> QED BY <1>3, <2>2, <2>3, <2>4 DEF Lstat, Unlink, resolvVars
<1>4. CASE Manage(p)
  <2>1. pc[p] = "manage" /\ CallOf(pc[p]) = "taking"
    BY <1>4, CallValues DEF Manage
  <2>2. CASE locked
    <3>1. Goto(p, "failed") /\ UNCHANGED Asked /\ Asked = "proxy"
      BY <1>4, <2>2 DEF Manage, Asked, hostVars, LockedIsOurs
    <3>2. Calls' = [Calls EXCEPT ![p] = "failed"]
      BY <3>1, CallMoves, CallValues DEF Resting
    <3>3. Setting!ActivateEnds(p)
      BY <2>1, <3>1, <3>2 DEF Setting!ActivateEnds, Setting!Move, Calls
    <3> QED BY <3>3 DEF Setting!DNext
  <2>3. CASE ~locked
    <3>1. Goto(p, "lock") /\ Asked' = "proxy"
      BY <1>4, <2>3 DEF Manage, Asked
    <3>2. Calls' = [Calls EXCEPT ![p] = "set"]
      BY <3>1, CallMoves, CallValues
    <3>3. Setting!Activates(p)
      BY <2>1, <3>1, <3>2 DEF Setting!Activates, Setting!Move, Calls
    <3> QED BY <3>3 DEF Setting!DNext
  <2> QED BY <2>2, <2>3
<1>5. CASE Lock(p)
  <2>1. pc[p] = "lock" /\ Goto(p, "restart") /\ UNCHANGED Asked
    BY <1>5 DEF Lock, Asked, hostVars
  <2> QED BY <2>1, CallStays, CallValues
<1>6. CASE Restart(p)
  <2>1. pc[p] = "restart" /\ CallOf(pc[p]) = "set" /\ Goto(p, "activated") /\ UNCHANGED Asked
    BY <1>6, CallValues DEF Restart, Asked, hostVars, resolvVars
  <2>2. Asked # "own"
    <3>1. resolv \in {"managed", "absent"}
      BY <2>1 DEF Steps, StepAt
    <3> QED BY <3>1 DEF Asked
  <2>3. Calls' = [Calls EXCEPT ![p] = "activated"]
    BY <2>1, CallMoves, CallValues DEF Resting
  <2>4. Setting!ActivateEnds(p)
    BY <2>1, <2>2, <2>3 DEF Setting!ActivateEnds, Setting!Move, Calls
  <2> QED BY <2>4 DEF Setting!DNext
<1> QED BY <1>1, <1>2, <1>3, <1>4, <1>5, <1>6 DEF ActivateStep

\* The steps of a restore: resolv.conf is removed and written, and success is
\* reported only of the host's own.
LEMMA SettingRestores ==
  ASSUME IInv, RestoredGivesBack', NEW p \in Procs, RestoreStep(p)
  PROVE  Setting!DNext \/ UNCHANGED <<own, Asked, Calls>>
<1> USE DEF IInv
<1>0. /\ own # "absent" /\ own # "managed" /\ Calls[p] = CallOf(pc[p])
      /\ UNCHANGED own /\ pc[p] \in Restoring
  BY FilesAssumption DEF Own, Calls, RestoreStep, RestoreUnlock, RestoreRead, RestoreRemove,
     RestoreWrite, RestoreForget, RestoreConf, RestoreConfForget, RestoreClean,
     RestoreCleanRemove, RestoreRestart, Restoring, hostVars
<1>1. CallOf(pc[p]) = "restoring"
  BY <1>0, CallValues
<1>2. CASE ~RestoreRestart(p)
  <2>1. PICK n \in Restoring : Goto(p, n)
    BY <1>2 DEF RestoreStep, RestoreUnlock, RestoreRead, RestoreRemove, RestoreWrite,
                RestoreForget, RestoreConf, RestoreConfForget, RestoreClean,
                RestoreCleanRemove, Restoring
  <2>2. UNCHANGED Calls
    BY <1>1, <2>1, CallStays, CallValues
  <2>3. UNCHANGED resolv \/ resolv' \in {"absent", "link", own}
    <3>1. CASE RestoreWrite(p)
      <4>1. loc[p].data = own
        BY <3>1 DEF RestoreWrite, Steps, StepAt
      <4> QED BY <3>1, <4>1 DEF RestoreWrite
    <3>2. CASE RestoreRemove(p)
      BY <3>2 DEF RestoreRemove
    <3>3. CASE RestoreCleanRemove(p)
      <4>1. \/ UNCHANGED resolv
            \/ resolv' \in {"absent"} \cup
                           (IF manager = "systemd-resolved" THEN {"link"} ELSE {})
        BY <3>3 DEF RestoreCleanRemove
      <4> QED BY <4>1
    <3>4. CASE RestoreUnlock(p) \/ RestoreRead(p) \/ RestoreForget(p) \/ RestoreConf(p)
               \/ RestoreConfForget(p) \/ RestoreClean(p)
      BY <3>4 DEF RestoreUnlock, RestoreRead, RestoreForget, RestoreConf, RestoreConfForget,
                  RestoreClean, resolvVars
    <3> QED BY <1>2, <3>1, <3>2, <3>3, <3>4 DEF RestoreStep
  <2>4. CASE UNCHANGED resolv
    BY <1>0, <2>2, <2>4 DEF Asked
  <2>5. CASE resolv' \in {"absent", "link", own}
    <3>1. Asked' \in {"own", "others"}
      BY <1>0, <2>5 DEF Asked
    <3>2. Setting!Restores(p)
      BY <1>0, <1>1, <2>2, <3>1 DEF Setting!Restores, Calls
    <3> QED BY <3>2 DEF Setting!DNext
  <2> QED BY <2>3, <2>4, <2>5
<1>3. CASE RestoreRestart(p)
  <2>1. UNCHANGED <<own, resolv, Asked>>
    BY <1>3 DEF RestoreRestart, hostVars, resolvVars, Asked
  <2>2. CASE Goto(p, "failed")
    <3>1. Calls' = [Calls EXCEPT ![p] = "failed"]
      BY <2>2, CallMoves, CallValues DEF Resting
    <3>2. Setting!RestoreEnds(p)
      BY <1>0, <1>1, <2>1, <3>1 DEF Setting!RestoreEnds, Setting!Move, Calls
    <3> QED BY <3>2 DEF Setting!DNext
  <2>3. CASE Goto(p, "restored")
    <3>1. pc'[p] = "restored"
      BY <2>3 DEF Goto, TypeOK
    <3>2. Asked = "own"
      BY <1>0, <2>1, <3>1 DEF RestoredGivesBack, Asked
    <3>3. Calls' = [Calls EXCEPT ![p] = "restored"]
      BY <2>3, CallMoves, CallValues DEF Resting
    <3>4. Setting!RestoreEnds(p)
      BY <1>0, <1>1, <2>1, <3>2, <3>3 DEF Setting!RestoreEnds, Setting!Move, Calls
    <3> QED BY <3>4 DEF Setting!DNext
  <2> QED BY <1>3, <2>2, <2>3 DEF RestoreRestart
<1> QED BY <1>2, <1>3

\* Deaths, and the host's own edits: it asks its own servers then, since no
\* backup is left where it edits its file.
LEMMA SettingBeside ==
  ASSUME IInv, IInv', HostEdits \/ \E p \in Procs : Die(p)
  PROVE  Setting!DNext
<1> USE DEF IInv
<1>1. CASE HostEdits
  <2>1. UNCHANGED Calls /\ \A p \in Procs : Calls[p] \in Setting!Ended
    BY <1>1, CallValues DEF HostEdits, Calls
  <2>2. resolv = own
    BY <1>1 DEF HostEdits, Calm, KeepsOwn, Kept
  <2>3. resolv' = own' /\ own' # own /\ own \in Own /\ own' \in Own
    BY <1>1, <2>2 DEF HostEdits
  <2>4. Asked = "own" /\ Asked' = "own"
    BY <2>2, <2>3, FilesAssumption DEF Asked, Own
  <2>5. Setting!Edits
    BY <2>1, <2>3, <2>4 DEF Setting!Edits, Calls
  <2> QED BY <2>5 DEF Setting!DNext
<1>2. ASSUME NEW p \in Procs, Die(p) PROVE Setting!DNext
  <2>1. Goto(p, "idle") /\ pc[p] \in Activating \cup Restoring /\ UNCHANGED <<own, resolv>>
    BY <1>2, ScenariosAssumption DEF Die, hostVars, resolvVars, TypeOK
  <2>2. Calls[p] \notin Setting!Ended /\ CallOf("idle") = "idle"
    BY <2>1, CallValues DEF Calls, Resting
  <2>3. Setting!Dies(p)
    BY <2>1, <2>2, CallMoves DEF Setting!Dies, Setting!Move, Calls, Asked
  <2> QED BY <2>3 DEF Setting!DNext
<1> QED BY <1>1, <1>2

\* For any number of processes and contents, activations and restores file by file
\* are what the daemon and the commands take them for (dns_activate.go 25-45): the
\* host's setting is its own to change, a call has its effect at one moment, an
\* activation that fails has had none, one that reports success has taken the host
\* away from its own servers (to the proxy, unless one beside it is about to write
\* the managed file again), and a restore that does has given them back. Restores
\* run alone (Sound), which nothing in the code sees to.
THEOREM ImplementsSystemDNS ==
  ASSUME Sound
  PROVE  Spec => ImplementsSetting
<1>1. Init => Setting!DInit
  <2> SUFFICES ASSUME Init PROVE Setting!DInit
    OBVIOUS
  <2>1. IInv /\ resolv = own /\ \A p \in Procs : pc[p] = "idle"
    BY KeepsInit DEF Init
  <2>2. Asked = "own"
    BY <2>1, FilesAssumption DEF IInv, Asked, Own
  <2>3. Calls = [p \in Procs |-> "idle"]
    BY <2>1, CallValues DEF Calls, Resting
  <2> QED BY <2>2, <2>3 DEF Setting!DInit, Calls
<1>2. IInv /\ IInv' /\ RestoredGivesBack' /\ [Next]_vars
        => [Setting!DNext]_(Setting!dnsVars)
  <2> SUFFICES ASSUME IInv, IInv', RestoredGivesBack', [Next]_vars
               PROVE  Setting!DNext \/ UNCHANGED <<own, Asked, Calls>>
    BY DEF Setting!dnsVars, Calls
  <2>1. CASE UNCHANGED vars
    BY <2>1 DEF vars, hostVars, resolvVars, Asked, Calls
  <2>2. CASE Next
    BY <2>2, SettingBegins, SettingActivates, SettingRestores, SettingBeside DEF Next
  <2> QED BY <2>1, <2>2
<1> QED BY <1>1, <1>2, Inductive, GivesBack, PTL DEF Spec, ImplementsSetting, Setting!DSpec
=============================================================================
