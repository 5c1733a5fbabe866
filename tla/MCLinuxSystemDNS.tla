------------------------- MODULE MCLinuxSystemDNS -------------------------
(* Scenarios: a host that edits its file; failures and deaths; activations *)
(* that overlap; a host without a resolv.conf; a restore that overlaps an  *)
(* activation, which no run has: the host's file is lost.                  *)
EXTENDS LinuxSystemDNS

Editing     == [start |-> Own, edits |-> TRUE, fails |-> FALSE, overlap |-> "none", crash |-> {}]
Failing     == [start |-> Own, edits |-> FALSE, fails |-> TRUE, overlap |-> "none",
                crash |-> Activating \cup Restoring]
Overlapping == [start |-> Own, edits |-> FALSE, fails |-> TRUE, overlap |-> "activations",
                crash |-> Activating]
Bare        == [start |-> {"absent"}, edits |-> FALSE, fails |-> FALSE, overlap |-> "none",
                crash |-> {}]

Racing      == [start |-> Own, edits |-> FALSE, fails |-> FALSE, overlap |-> "restores",
                crash |-> {}]

WithResolvConf    == {Editing, Failing, Overlapping}
WithoutResolvConf == {Bare}
=============================================================================
