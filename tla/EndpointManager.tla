--------------------------- MODULE EndpointManager ---------------------------
(***************************************************************************)
(* The endpoint manager of the proxy (internal/runtime/endpoint_fallback). *)
(* Callers ask it to Test the upstream endpoints; concurrent requests are  *)
(* coalesced into one run, which probes the DoH endpoint first and the     *)
(* plaintext resolvers next, swaps the selection to the first one that     *)
(* answers and then has the DNS library adopt the selection.               *)
(*                                                                         *)
(* A DoH endpoint is known by its generation: 0 is the one built at start, *)
(* each refresh of the bootstrap addresses stores the next.                *)
(***************************************************************************)
EXTENDS Naturals, FiniteSets

CONSTANTS
  Callers,      \* the goroutines that may be inside Test
  Public,       \* the public plaintext resolvers that are always candidates
  Local,        \* plaintext resolvers a discovery on the host may find
  None,         \* the nil pointer of m.testing
  MaxRefresh    \* bound: how often the DoH endpoint is replaced

Doh       == 0 .. MaxRefresh
Plain     == Public \cup Local
Endpoints == Doh \cup Plain

ASSUME CallersAssumption  == None \notin Callers
ASSUME RefreshAssumption  == MaxRefresh \in Nat
ASSUME EndpointAssumption == \A e \in Plain : e \notin Doh /\ e # None

VARIABLES
  reach,     \* the endpoints that would answer a probe now
  dohEp,     \* runtime_run.go: the generation behind the atomic dohEp
  selected,  \* m.selected
  active,    \* the endpoint m.queries sends queries to
  testing,   \* the caller that leads the run m.testing points to, or None
  expired,   \* the two-second budget of that run is used up
  cand,      \* the candidates the run is probing
  chosen,    \* the candidate that answered first
  runErr,    \* run.err; keeps the outcome of the last run between runs
  pc,        \* where each caller is inside Test
  ctxDone,   \* the context each caller passed to Test is done
  result     \* what the caller's last Test returned

runVars == <<testing, expired, cand, chosen, runErr>>
vars    == <<reach, dohEp, selected, active, testing, expired, cand, chosen,
             runErr, pc, ctxDone, result>>

LeaderPC == {"getDoh", "probeDoh", "getPlain", "probePlain", "commit", "sync",
             "close"}
PC       == LeaderPC \cup {"idle", "enter", "waiting", "woken", "returned"}

TypeOK ==
  /\ reach \subseteq Endpoints
  /\ dohEp \in Doh
  /\ selected \in Endpoints
  /\ active \in Endpoints
  /\ testing \in Callers \cup {None}
  /\ expired \in BOOLEAN
  /\ cand \subseteq Endpoints
  /\ chosen \in Endpoints \cup {None}
  /\ runErr \in {"ok", "error"}
  /\ pc \in [Callers -> PC]
  /\ ctxDone \in [Callers -> BOOLEAN]
  /\ result \in [Callers -> {"none", "ok", "error"}]

\* newEndpointManager has tested once: the library already uses the first DoH
\* endpoint when the first caller can arrive.
Init ==
  /\ reach \in SUBSET Endpoints
  /\ dohEp = 0 /\ selected = 0 /\ active = 0
  /\ testing = None /\ expired = FALSE
  /\ cand = {} /\ chosen = None /\ runErr = "ok"
  /\ pc = [c \in Callers |-> "idle"]
  /\ ctxDone = [c \in Callers |-> FALSE]
  /\ result = [c \in Callers |-> "none"]

-----------------------------------------------------------------------------
(* Test, one action per stretch between two points where others may run.   *)

\* The context of the run: the leader's, cut to two seconds.
RunDead == expired \/ ctxDone[testing]

Go(c, next) == pc' = [pc EXCEPT ![c] = next]

Return(c, r) ==
  /\ Go(c, "returned")
  /\ result' = [result EXCEPT ![c] = r]

\* A caller calls Test with a context that is not done yet.
Call(c) ==
  /\ pc[c] = "idle"
  /\ Go(c, "enter")
  /\ UNCHANGED <<reach, dohEp, selected, active, runVars, ctxDone, result>>

\* The caller goes on; the context of the call is dropped.
Collect(c) ==
  /\ pc[c] = "returned"
  /\ Go(c, "idle")
  /\ ctxDone' = [ctxDone EXCEPT ![c] = FALSE]
  /\ result' = [result EXCEPT ![c] = "none"]
  /\ UNCHANGED <<reach, dohEp, selected, active, runVars>>

EnterDone(c) ==
  /\ pc[c] = "enter" /\ ctxDone[c]
  /\ Return(c, "error")
  /\ UNCHANGED <<reach, dohEp, selected, active, runVars, ctxDone>>

\* Under m.mu: join the run there is, or become the leader of a new one.
EnterJoin(c) ==
  /\ pc[c] = "enter" /\ ~ctxDone[c]
  /\ testing # None
  /\ Go(c, "waiting")
  /\ UNCHANGED <<reach, dohEp, selected, active, runVars, ctxDone, result>>

\* Mutant: a second run is started beside the one there is.
EnterLeadAlways(c) ==
  /\ pc[c] = "enter" /\ ~ctxDone[c]
  /\ testing' = c
  /\ runErr' = "ok"
  /\ Go(c, "getDoh")
  /\ UNCHANGED <<reach, dohEp, selected, active, expired, cand, chosen, ctxDone,
                 result>>

EnterLead(c) ==
  /\ pc[c] = "enter" /\ ~ctxDone[c]
  /\ testing = None
  /\ testing' = c
  /\ runErr' = "ok"
  /\ Go(c, "getDoh")
  /\ UNCHANGED <<reach, dohEp, selected, active, expired, cand, chosen, ctxDone,
                 result>>

\* Mutant: the provider returns the endpoint it was built with.
GetDohInitial(c) ==
  /\ pc[c] = "getDoh"
  /\ cand' = {0}
  /\ Go(c, "probeDoh")
  /\ UNCHANGED <<reach, dohEp, selected, active, testing, expired, chosen,
                 runErr, ctxDone, result>>

\* The first provider: whatever DoH endpoint is stored now.
GetDoh(c) ==
  /\ pc[c] = "getDoh"
  /\ cand' = {dohEp}
  /\ Go(c, "probeDoh")
  /\ UNCHANGED <<reach, dohEp, selected, active, testing, expired, chosen,
                 runErr, ctxDone, result>>

\* The fallback provider: an error when the context is done, otherwise the
\* resolvers a discovery found, followed by the public ones.
GetPlain(c) ==
  /\ pc[c] = "getPlain"
  /\ \/ /\ RunDead
        /\ runErr' = "error"
        /\ Go(c, "close")
        /\ UNCHANGED cand
     \/ /\ ~RunDead
        /\ \E found \in SUBSET Local : cand' = found \cup Public
        /\ Go(c, "probePlain")
        /\ UNCHANGED runErr
  /\ UNCHANGED <<reach, dohEp, selected, active, testing, expired, chosen,
                 ctxDone, result>>

\* The first answer wins. When the context is done as well the select may
\* still take the answer.
ProbeOk(c) ==
  /\ pc[c] \in {"probeDoh", "probePlain"}
  /\ \E e \in cand \cap reach : chosen' = e
  /\ Go(c, "commit")
  /\ UNCHANGED <<reach, dohEp, selected, active, testing, expired, cand,
                 runErr, ctxDone, result>>

\* Mutant: the error of the last probe is not looked at.
ProbeFailGoesOn(c) ==
  /\ pc[c] \in {"probeDoh", "probePlain"}
  /\ cand \cap reach = {} \/ RunDead
  /\ runErr' = "error"
  /\ Go(c, IF pc[c] = "probeDoh" THEN "getPlain" ELSE "commit")
  /\ UNCHANGED <<reach, dohEp, selected, active, testing, expired, cand,
                 chosen, ctxDone, result>>

ProbeFail(c) ==
  /\ pc[c] \in {"probeDoh", "probePlain"}
  /\ cand \cap reach = {} \/ RunDead
  /\ runErr' = "error"
  /\ Go(c, IF pc[c] = "probeDoh" THEN "getPlain" ELSE "close")
  /\ UNCHANGED <<reach, dohEp, selected, active, testing, expired, cand,
                 chosen, ctxDone, result>>

Commit(c) ==
  /\ pc[c] = "commit"
  /\ IF RunDead
       THEN /\ runErr' = "error"
            /\ Go(c, "close")
            /\ UNCHANGED selected
       ELSE /\ selected' = chosen
            /\ Go(c, "sync")
            /\ UNCHANGED runErr
  /\ UNCHANGED <<reach, dohEp, active, testing, expired, cand, chosen,
                 ctxDone, result>>

\* Mutant: the library is not told of the selection.
SyncForgotten(c) ==
  /\ pc[c] = "sync"
  /\ runErr' = "ok"
  /\ Go(c, "close")
  /\ UNCHANGED <<reach, dohEp, selected, active, testing, expired, cand, chosen,
                 ctxDone, result>>

\* m.queries.Test: the library asks its only provider, which returns the
\* selection, and adopts it. It can give up only on a context that is done.
Sync(c) ==
  /\ pc[c] = "sync"
  /\ \/ active' = selected /\ runErr' = "ok"
     \/ RunDead /\ runErr' = "error" /\ UNCHANGED active
  /\ Go(c, "close")
  /\ UNCHANGED <<reach, dohEp, selected, testing, expired, cand, chosen,
                 ctxDone, result>>

\* Mutant: run.done is not closed.
CloseQuietly(c) ==
  /\ pc[c] = "close"
  /\ testing' = None
  /\ expired' = FALSE
  /\ cand' = {} /\ chosen' = None
  /\ Return(c, runErr)
  /\ UNCHANGED <<reach, dohEp, selected, active, runErr, ctxDone>>

\* The deferred close(run.done); m.testing = nil. The leader returns and every
\* waiter of this run can read its error.
Close(c) ==
  /\ pc[c] = "close"
  /\ testing' = None
  /\ expired' = FALSE
  /\ cand' = {} /\ chosen' = None
  /\ pc' = [d \in Callers |-> IF d = c THEN "returned"
                              ELSE IF pc[d] = "waiting" THEN "woken"
                              ELSE pc[d]]
  /\ result' = [d \in Callers |-> IF d = c \/ pc[d] = "waiting" THEN runErr
                                  ELSE result[d]]
  /\ UNCHANGED <<reach, dohEp, selected, active, runErr, ctxDone>>

WaitDone(c) ==
  /\ pc[c] = "woken"
  /\ Return(c, result[c])
  /\ UNCHANGED <<reach, dohEp, selected, active, runVars, ctxDone>>

WaitCancelled(c) ==
  /\ pc[c] \in {"waiting", "woken"} /\ ctxDone[c]
  /\ Return(c, "error")
  /\ UNCHANGED <<reach, dohEp, selected, active, runVars, ctxDone>>

-----------------------------------------------------------------------------
(* What happens around Test.                                               *)

\* The caller's context times out or is cancelled.
Cancel(c) ==
  /\ pc[c] \notin {"idle", "returned"} /\ ~ctxDone[c]
  /\ ctxDone' = [ctxDone EXCEPT ![c] = TRUE]
  /\ UNCHANGED <<reach, dohEp, selected, active, runVars, pc, result>>

\* The run has found that the DoH endpoint does not answer.
PastDoh ==
  /\ testing # None
  /\ pc[testing] \in {"getPlain", "probePlain", "commit", "sync"}
  /\ chosen \notin Doh

\* The two seconds of the run are over. A probe takes one second at most, so
\* the run cannot expire before its first provider has been probed.
Expire ==
  /\ PastDoh /\ ~expired
  /\ expired' = TRUE
  /\ UNCHANGED <<reach, dohEp, selected, active, testing, cand, chosen, runErr,
                 pc, ctxDone, result>>

\* One endpoint starts or stops answering.
Network ==
  /\ \E e \in Endpoints : reach' \in {reach \cup {e}, reach \ {e}}
  /\ UNCHANGED <<dohEp, selected, active, runVars, pc, ctxDone, result>>

\* Mutant: the refresh selects its endpoint itself, beside a run.
StoreDohSelects ==
  /\ dohEp < MaxRefresh
  /\ dohEp' = dohEp + 1 /\ selected' = dohEp + 1
  /\ UNCHANGED <<reach, active, runVars, pc, ctxDone, result>>

\* bootstrapRefresher: new bootstrap addresses become the next generation.
StoreDoh ==
  /\ dohEp < MaxRefresh
  /\ dohEp' = dohEp + 1
  /\ UNCHANGED <<reach, selected, active, runVars, pc, ctxDone, result>>

\* The library tests its provider again on its own account.
LibraryRetest ==
  /\ active' = selected
  /\ UNCHANGED <<reach, dohEp, selected, runVars, pc, ctxDone, result>>

-----------------------------------------------------------------------------
Enter(c) == EnterDone(c) \/ EnterJoin(c) \/ EnterLead(c)
Probe(c) == ProbeOk(c) \/ ProbeFail(c)

\* The steps a caller inside Test takes by itself.
Step(c) ==
  \/ Enter(c) \/ GetDoh(c) \/ GetPlain(c) \/ Probe(c)
  \/ Commit(c) \/ Sync(c) \/ Close(c) \/ WaitDone(c) \/ WaitCancelled(c)

Next ==
  \/ \E c \in Callers : Call(c) \/ Step(c) \/ Collect(c) \/ Cancel(c)
  \/ Expire \/ Network \/ StoreDoh \/ LibraryRetest

\* The Go scheduler runs every goroutine that can run; every probe ends.
Fairness == \A c \in Callers : WF_vars(Step(c))

Spec     == Init /\ [][Next]_vars
FairSpec == Spec /\ Fairness

-----------------------------------------------------------------------------
(* Properties.                                                             *)

\* There is one run at a time: exactly the caller m.testing names is between
\* becoming leader and closing the run, and nobody waits when there is none
\* (Test's coalescing, endpoint_fallback.go 63-76).
OneRun ==
  /\ \A c \in Callers : pc[c] \in LeaderPC <=> testing = c
  /\ \A c \in Callers : pc[c] = "waiting" => testing # None

\* Replacing the DoH endpoint is never undone: the selection does not go back
\* to an endpoint of an older generation, although a run reads dohEp, probes
\* for a second without any lock and swaps the selection only then.
SelectionNeverRegresses ==
  [][(selected \in Doh /\ selected' \in Doh) => (selected' >= selected)]_vars

\* Once a run that reported success is over, the library sends queries to the
\* selected endpoint; watch looks at the selection only, so the two may not
\* differ silently.
SyncedAfterSuccess == testing = None /\ runErr = "ok" => active = selected

\* Why: the run in progress never holds a candidate older than the selection,
\* and a run about to close with success has had the library adopt it.
CandidateNotOlder ==
  /\ selected \in Doh => selected <= dohEp
  /\ \A c \in Callers : pc[c] = "probeDoh" =>
       \A e \in cand : e \in Doh /\ e <= dohEp /\ (selected \in Doh => selected <= e)
  /\ \A c \in Callers : pc[c] = "probePlain" => cand \subseteq Plain
  /\ \A c \in Callers : pc[c] = "commit" =>
       \/ chosen \in Plain
       \/ chosen \in Doh /\ chosen <= dohEp /\ (selected \in Doh => selected <= chosen)

Synced ==
  /\ SyncedAfterSuccess
  /\ \A c \in Callers : pc[c] = "close" /\ runErr = "ok" => active = selected

IInv == TypeOK /\ OneRun /\ CandidateNotOlder /\ Synced

\* Every call of Test returns, a waiter's too (queries wait for it).
TestReturns == \A c \in Callers : pc[c] = "enter" ~> pc[c] = "returned"
=============================================================================
