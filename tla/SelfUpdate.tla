----------------------------- MODULE SelfUpdate -----------------------------
(***************************************************************************)
(* The update of the executable (internal/update/update.go, Apply), by the *)
(* daemon (internal/runtime/auto_update.go) and by the upgrade command     *)
(* (internal/service/control.go): a release is downloaded to exe.new,      *)
(* checked against its signed manifest and moved to exe, while the         *)
(* previous executable is moved to exe.old. Nothing keeps two of them      *)
(* apart. A file holds a release, known by its number in the order of      *)
(* publication, is absent or is not a whole release.                       *)
(***************************************************************************)
EXTENDS Versions

CONSTANTS
  Daemon,        \* the daemon's process
  Commands,      \* processes of the upgrade command
  Releases,      \* the versions of the releases, in the order of their publication
  Absent, Partial,
  Overlap,       \* updates may overlap
  MaxMishaps     \* bound: crashes, steps that fail, releases that are withdrawn

Procs    == Commands \cup {Daemon}
Numbers  == DOMAIN Releases
Programs == Numbers \cup {Dev}   \* Dev stands for a development build too
Contents == Programs \cup {Absent, Partial}

ASSUME ReleasesAssumption == Releases \in Seq(Parsed) /\ Releases # <<>>
ASSUME ProcsAssumption    == Daemon \notin Commands
ASSUME FilesAssumption    == Absent # Partial /\ Dev \notin Numbers
                             /\ {Absent, Partial} \cap Programs = {}
ASSUME BoundAssumption    == Overlap \in BOOLEAN /\ MaxMishaps \in Nat

VARIABLES
  published,      \* the release the server names the latest
  exe, old, new,  \* the executable, exe.old and exe.new
  pc,             \* where each process is
  current,        \* the version of the program each process runs
  latest,         \* the release it updates to
  fd,             \* the file its download writes to, wherever that was moved
  hole,           \* somebody truncated that file since
  mishaps

files == <<exe, old, new>>
procs == <<pc, current, latest, fd, hole>>
vars  == <<published, files, procs, mishaps>>

Applying == {"open", "write", "check", "removeOld", "moveAway", "moveIn", "moveBack",
             "failed", "applied"}

TypeOK ==
  /\ published \in Numbers
  /\ exe \in Contents /\ old \in Contents /\ new \in Contents
  /\ pc \in [Procs -> {"down", "resting", "updated"} \cup Applying]
  /\ current \in [Procs -> Programs] /\ latest \in [Procs -> Programs]
  /\ fd \in [Procs -> {"none", "new", "exe", "old"}]
  /\ \A p \in Procs : fd[p] # "none" => pc[p] = "write"
  /\ hole \in [Procs -> BOOLEAN]
  /\ mishaps \in 0 .. MaxMishaps

Init ==
  /\ published = 1
  /\ exe \in {1, Dev} /\ old = Absent /\ new = Absent
  /\ pc = [p \in Procs |-> "down"]
  /\ current = [p \in Procs |-> exe] /\ latest = [p \in Procs |-> exe]
  /\ fd = [p \in Procs |-> "none"]
  /\ hole = [p \in Procs |-> FALSE]
  /\ mishaps = 0

Version(program) == IF program = Dev THEN Dev ELSE Releases[program]

Goto(p, next) == pc' = [pc EXCEPT ![p] = next]

Mishap == mishaps < MaxMishaps /\ mishaps' = mishaps + 1

\* The descriptors follow the files that are moved.
Moved(from, to) ==
  fd' = [p \in Procs |-> IF fd[p] = from THEN to ELSE IF fd[p] = to THEN "none" ELSE fd[p]]

Alone(p) == \A q \in Procs \ {p} : pc[q] \notin Applying

-----------------------------------------------------------------------------
(* Processes and releases.                                                 *)

Publish ==
  /\ published + 1 \in Numbers
  /\ published' = published + 1
  /\ UNCHANGED <<files, procs, mishaps>>

\* A release turns out to be bad: the one before is the latest again.
Withdraw ==
  /\ published > 1
  /\ Mishap
  /\ published' = published - 1
  /\ UNCHANGED <<files, procs>>

\* The service manager keeps the daemon running; a command is run at any time.
Launch(p) ==
  /\ pc[p] = "down"
  /\ exe \in Programs
  /\ Goto(p, "resting")
  /\ current' = [current EXCEPT ![p] = exe]
  /\ UNCHANGED <<published, files, latest, fd, hole, mishaps>>

Ends(ps) ==
  /\ pc' = [q \in Procs |-> IF q \in ps THEN "down" ELSE pc[q]]
  /\ fd' = [q \in Procs |-> IF q \in ps THEN "none" ELSE fd[q]]
  /\ UNCHANGED <<published, files, current, latest, hole>>

Crash(p) == pc[p] # "down" /\ Mishap /\ Ends({p})

\* relaunch.
Relaunch == pc[Daemon] = "updated" /\ Ends({Daemon}) /\ UNCHANGED mishaps

\* The command ends; if it has updated it restarts the service, which may fail.
CommandEnds(c) ==
  \/ pc[c] = "resting" /\ Ends({c}) /\ UNCHANGED mishaps
  \/ pc[c] = "updated" /\ Ends({c, Daemon}) /\ UNCHANGED mishaps
  \/ pc[c] = "updated" /\ Ends({c}) /\ Mishap

-----------------------------------------------------------------------------
(* Apply.                                                                  *)

\* Up to the manifest nothing is changed: an error is no step.
Check(p) ==
  /\ pc[p] = "resting"
  /\ Overlap \/ Alone(p)
  /\ IsNewer(Version(current[p]), Version(published))
  /\ exe # Absent
  /\ latest' = [latest EXCEPT ![p] = published]
  /\ Goto(p, "open")
  /\ UNCHANGED <<published, files, current, fd, hole, mishaps>>

\* downloadTo creates exe.new, or truncates the one there is.
Open(p) ==
  /\ pc[p] = "open"
  /\ new' = Partial
  /\ hole' = [q \in Procs |-> q # p /\ (hole[q] \/ fd[q] = "new")]
  /\ fd' = [fd EXCEPT ![p] = "new"]
  /\ Goto(p, "write")
  /\ UNCHANGED <<published, exe, old, current, latest, mishaps>>

\* The file the download goes to is whole unless somebody else wrote to it.
Downloaded(p, content) ==
  IF \E q \in Procs \ {p} : fd[q] = fd[p] /\ latest[q] # latest[p] THEN Partial
  ELSE IF hole[p] /\ content # latest[p] THEN Partial
  ELSE latest[p]

\* Mutant: the file is not closed.
WriteLeavesOpen(p) ==
  /\ pc[p] = "write" /\ fd[p] = "new"
  /\ new' = Downloaded(p, new)
  /\ Goto(p, "check")
  /\ UNCHANGED <<published, exe, old, current, latest, fd, hole, mishaps>>

Write(p) ==
  /\ pc[p] = "write"
  /\ exe' = IF fd[p] = "exe" THEN Downloaded(p, exe) ELSE exe
  /\ old' = IF fd[p] = "old" THEN Downloaded(p, old) ELSE old
  /\ new' = IF fd[p] = "new" THEN Downloaded(p, new) ELSE new
  /\ fd' = [fd EXCEPT ![p] = "none"]
  /\ Goto(p, "check")
  /\ UNCHANGED <<published, current, latest, hole, mishaps>>

\* A download that fails leaves exe.new behind; one that is damaged does not
\* match the manifest.
WriteFails(p) ==
  /\ pc[p] = "write"
  /\ Mishap
  /\ fd' = [fd EXCEPT ![p] = "none"]
  /\ Goto(p, IF p = Daemon THEN "resting" ELSE "down")
  /\ UNCHANGED <<published, files, current, latest, hole>>

WriteDamaged(p) ==
  /\ pc[p] = "write" /\ fd[p] = "new"
  /\ Mishap
  /\ new' = Partial
  /\ fd' = [fd EXCEPT ![p] = "none"]
  /\ Goto(p, "check")
  /\ UNCHANGED <<published, exe, old, current, latest, hole>>

\* Mutant: the hash is not compared.
VerifyNothing(p) ==
  /\ pc[p] = "check"
  /\ Goto(p, IF new # Absent THEN "removeOld" ELSE "failed")
  /\ UNCHANGED <<published, files, current, latest, fd, hole, mishaps>>

\* fileSHA256 and the comparison with the manifest's hash, then chmod.
Verify(p) ==
  /\ pc[p] = "check"
  /\ Goto(p, IF new = latest[p] THEN "removeOld" ELSE "failed")
  /\ UNCHANGED <<published, files, current, latest, fd, hole, mishaps>>

\* An error of Remove is ignored.
RemoveOld(p) ==
  /\ pc[p] = "removeOld"
  /\ \/ old' = Absent /\ UNCHANGED mishaps
     \/ Mishap /\ UNCHANGED old
  /\ Goto(p, "moveAway")
  /\ UNCHANGED <<published, exe, new, current, latest, fd, hole>>

\* Mutant: exe is removed, not moved.
MoveAwayRemoves(p) ==
  /\ pc[p] = "moveAway" /\ exe # Absent
  /\ exe' = Absent /\ Moved("exe", "none") /\ Goto(p, "moveIn")
  /\ UNCHANGED <<published, old, new, current, latest, hole, mishaps>>

MoveAway(p) ==
  /\ pc[p] = "moveAway"
  /\ \/ /\ exe # Absent
        /\ old' = exe /\ exe' = Absent /\ Moved("exe", "old")
        /\ Goto(p, "moveIn")
        /\ UNCHANGED mishaps
     \/ /\ (exe = Absent /\ UNCHANGED mishaps) \/ Mishap
        /\ Goto(p, "failed")
        /\ UNCHANGED <<exe, old, fd>>
  /\ UNCHANGED <<published, new, current, latest, hole>>

MoveIn(p) ==
  /\ pc[p] = "moveIn"
  /\ \/ /\ new # Absent
        /\ exe' = new /\ new' = Absent /\ Moved("new", "exe")
        /\ Goto(p, "applied")
        /\ UNCHANGED mishaps
     \/ /\ (new = Absent /\ UNCHANGED mishaps) \/ Mishap
        /\ Goto(p, "moveBack")
        /\ UNCHANGED <<exe, new, fd>>
  /\ UNCHANGED <<published, old, current, latest, hole>>

\* The error of the second rename is ignored.
MoveBack(p) ==
  /\ pc[p] = "moveBack"
  /\ \/ /\ old # Absent
        /\ exe' = old /\ old' = Absent /\ Moved("old", "exe")
        /\ UNCHANGED mishaps
     \/ /\ (old = Absent /\ UNCHANGED mishaps) \/ Mishap
        /\ UNCHANGED <<exe, old, fd>>
  /\ Goto(p, "failed")
  /\ UNCHANGED <<published, new, current, latest, hole>>

\* The deferred Remove of exe.new, and Apply's return.
Cleanup(p) ==
  /\ pc[p] \in {"failed", "applied"}
  /\ new' = Absent
  /\ Goto(p, IF pc[p] = "applied" THEN "updated" ELSE "resting")
  /\ fd' = [q \in Procs |-> IF fd[q] = "new" THEN "none" ELSE fd[q]]
  /\ UNCHANGED <<published, exe, old, current, latest, hole, mishaps>>

-----------------------------------------------------------------------------
Apply(p) ==
  \/ Open(p) \/ Write(p) \/ Verify(p) \/ RemoveOld(p) \/ MoveAway(p) \/ MoveIn(p)
  \/ MoveBack(p) \/ Cleanup(p)

Next ==
  \/ Publish \/ Withdraw \/ Relaunch
  \/ \E p \in Procs :
       Launch(p) \/ Crash(p) \/ Check(p) \/ Apply(p) \/ WriteFails(p) \/ WriteDamaged(p)
  \/ \E c \in Commands : CommandEnds(c)

\* Processes run on, the daemon is launched again and looks for updates.
Fairness ==
  /\ WF_vars(Launch(Daemon)) /\ WF_vars(Relaunch) /\ WF_vars(Check(Daemon))
  /\ \A p \in Procs : WF_vars(Apply(p))
  /\ \A c \in Commands : WF_vars(CommandEnds(c))

Spec     == Init /\ [][Next]_vars
FairSpec == Spec /\ Fairness

-----------------------------------------------------------------------------
(* Properties.                                                             *)

\* At no point, whatever fails and wherever a process dies, is the host left
\* without a whole executable, in its place or under ".old", where "the previous
\* binary is kept" (update.go 208).
KeepsABinary == exe \in Programs \/ old \in Programs

\* Apply replaces the executable "after verifying the signed checksum manifest"
\* (update.go 207): what is in its place is a whole release or nothing.
OnlyVerified == exe # Partial

\* The executable is never replaced by an older release, whatever version the
\* server names and whatever kinds of version follow each other; but a process
\* that still runs the release from before an upgrade compares with that one
\* (update.go 211), and is excepted.
NeverDowngrades ==
  [][\A p \in Procs, m, n \in Numbers :
       /\ pc[p] = "moveIn" /\ pc'[p] = "applied"
       /\ current[p] = m /\ old = m /\ exe' = n
       => m < n]_vars

\* The service "updates itself daily" (README.md 67): sooner or later the daemon
\* runs the newest release or a later one that was withdrawn, whatever failed
\* before, unless the executable is gone because a process died between the two
\* renames, or is a development build.
EventuallyUpdated ==
  <>[](exe \in {Absent, Dev} \/ (pc[Daemon] = "resting" /\ current[Daemon] >= published))
=============================================================================
