-------------------------- MODULE MCRetryResolver --------------------------
(* Time in tenths of a second, as the program has it.                      *)
EXTENDS RetryResolver

UpToQueryTimeout == 1 .. 50
=============================================================================
