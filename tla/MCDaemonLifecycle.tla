-------------------------- MODULE MCDaemonLifecycle --------------------------
(* What may happen in each configuration.                                    *)
EXTENDS DaemonLifecycle

Commanded == {"crash", "earlyFailure", "update", "commandLine"}
Managed   == {"earlyFailure", "lateFailure", "managerStop"}
Sound     == {Commanded, Managed}
Repairing == {{"lateFailure", "commandLine"}}
=============================================================================
