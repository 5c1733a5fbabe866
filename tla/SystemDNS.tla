------------------------------ MODULE SystemDNS ------------------------------
(***************************************************************************)
(* What the daemon and the commands rely on when they activate or restore  *)
(* system DNS (internal/core/dns_activate.go): the host's own setting is    *)
(* only lent. A call has its effect at one moment, an activation that fails *)
(* has had none of its own, and one that reports success has had it: the   *)
(* host is away from its own servers, though an activation beside may be   *)
(* about to point it at the proxy once more. Restores run alone. No        *)
(* files, no DNS manager: LinuxSystemDNS is how it is done there.           *)
(***************************************************************************)
CONSTANT Procs     \* the processes: the daemon, commands

VARIABLES
  setting,   \* the host's own setting
  asked,     \* whom the host asks: its own servers, the proxy, or others
  call       \* where the call of each process is, or how the last one ended

dnsVars == <<setting, asked, call>>

Ended == {"idle", "activated", "restored", "failed"}

Move(p, next) == call' = [call EXCEPT ![p] = next]

DInit == asked = "own" /\ call = [p \in Procs |-> "idle"]

\* Nothing else is under way during a restore: nobody sees to that, it is what
\* the callers have to. Activations may overlap. What earlier calls reported is
\* the past.
Begins(p, next) ==
  /\ \A q \in Procs : call[q] \in Ended \/ (q # p /\ next = "activating" /\ call[q] # "restoring")
  /\ call' = [q \in Procs |-> IF q = p THEN next
                              ELSE IF call[q] \in Ended THEN "idle" ELSE call[q]]
  /\ UNCHANGED <<setting, asked>>

\* The old setting may have to go first.
Takes(p) ==
  /\ call[p] = "activating" /\ Move(p, "taking")
  /\ asked' \in {asked, "others"}
  /\ UNCHANGED setting

Activates(p) ==
  /\ call[p] = "taking" /\ Move(p, "set")
  /\ asked' = "proxy"
  /\ UNCHANGED setting

ActivateEnds(p) ==
  /\ \/ call[p] = "set" /\ asked # "own" /\ Move(p, "activated")
     \/ call[p] = "activating" /\ Move(p, "failed")
     \/ call[p] = "taking" /\ asked = "proxy" /\ Move(p, "failed")
  /\ UNCHANGED <<setting, asked>>

\* A restore never makes the host ask the proxy.
Restores(p) ==
  /\ call[p] = "restoring"
  /\ asked' \in {"own", "others"}
  /\ UNCHANGED <<setting, call>>

RestoreEnds(p) ==
  /\ call[p] = "restoring"
  /\ \/ asked = "own" /\ Move(p, "restored")
     \/ Move(p, "failed")
  /\ UNCHANGED <<setting, asked>>

\* A process that is killed leaves things as they are.
Dies(p) ==
  /\ call[p] \notin Ended /\ Move(p, "idle")
  /\ UNCHANGED <<setting, asked>>

\* The host's setting is the host's, and nobody else's, to change.
Edits ==
  /\ asked = "own" /\ \A p \in Procs : call[p] \in Ended
  /\ setting' # setting
  /\ UNCHANGED <<asked, call>>

DNext ==
  \/ \E p \in Procs : \/ Begins(p, "activating") \/ Begins(p, "restoring")
                      \/ Takes(p) \/ Activates(p) \/ ActivateEnds(p)
                      \/ Restores(p) \/ RestoreEnds(p) \/ Dies(p)
  \/ Edits

DSpec == DInit /\ [][DNext]_dnsVars
=============================================================================
