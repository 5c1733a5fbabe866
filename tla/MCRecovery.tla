----------------------------- MODULE MCRecovery -----------------------------
(* The callers, put together from the queries and the daemon's goroutines.  *)
EXTENDS Recovery
CONSTANTS q1, w, n, r

OneQuery   == {q1}
OneCallers == {q1, w, n, r}
=============================================================================
