---------------------------- MODULE RulesWatcher ----------------------------
(***************************************************************************)
(* The loop of internal/runtime/rules_watcher.go that follows the rules    *)
(* version of a profile: an initial fetch, an event stream, and after each *)
(* disconnect a fetch and a pause before the stream is opened again.       *)
(* scheduleFlush is used through what FlushPromise says of it. How long    *)
(* the pause is (it doubles up to 30s) makes no difference here.           *)
(***************************************************************************)
EXTENDS FlushPromise, Sequences

CONSTANT LastVersion      \* bound: versions the service publishes

ASSUME WatcherAssumption == LastVersion \in Nat \ {0}

VARIABLES
  replays,    \* the service starts a stream with an event for its version
  srv,        \* the rules version at the service, 1 when the daemon starts
  stream,     \* events on the open stream that were not read yet
  at,         \* where the loop is
  current,    \* currentVersion
  adopted     \* the version the initial fetch returned, 0 if it returned none

watcherVars == <<replays, srv, stream, at, current, adopted>>
allVars     == <<fVars, watcherVars>>

Published == 0 .. LastVersion

WTypeOK ==
  /\ replays \in BOOLEAN
  /\ srv \in Published /\ current \in Published /\ adopted \in Published
  /\ scheduled \in Published /\ flushed \in Published
  /\ stream \in Seq(Published)
  /\ at \in {"fetch", "connect", "open", "broken", "backoff", "stopped"}

\* The caches may hold answers older than any version (0): the system's from
\* before the daemon started, the proxy's from before the initial fetch ended.
\* What the service does with a new stream is not known here: both are possible.
WInit ==
  /\ FInit
  /\ replays \in BOOLEAN
  /\ srv = 1 /\ stream = <<>> /\ at = "fetch" /\ current = 0 /\ adopted = 0

-----------------------------------------------------------------------------
\* The profile's rules change: the service tells an open stream.
Publish ==
  /\ srv < LastVersion
  /\ srv' = srv + 1
  /\ stream' = IF at = "open" THEN Append(stream, srv') ELSE stream
  /\ UNCHANGED <<fVars, replays, at, current, adopted>>

\* Mutant: a version is remembered and no flush is scheduled.
ApplySilently(v) ==
  \/ v <= current /\ UNCHANGED <<current, fVars>>
  \/ v > current /\ current' = v /\ UNCHANGED fVars

\* A version reaches the loop: only a newer one counts.
Apply(v) ==
  \/ v <= current /\ UNCHANGED <<current, fVars>>
  \/ v > current /\ current' = v /\ FSchedule(v)

\* The proxy is serving already. The version is remembered; nothing is purged.
InitialFetch ==
  /\ at = "fetch"
  /\ at' = "connect"
  /\ \/ current' = srv /\ adopted' = srv
     \/ UNCHANGED <<current, adopted>>
  /\ UNCHANGED <<fVars, replays, srv, stream>>

Connect ==
  /\ at = "connect"
  /\ at' = "open"
  /\ stream' = IF replays THEN <<srv>> ELSE <<>>
  /\ UNCHANGED <<fVars, replays, srv, current, adopted>>

ConnectFails ==
  /\ at = "connect"
  /\ at' = "broken"
  /\ UNCHANGED <<fVars, replays, srv, stream, current, adopted>>

\* Mutant: only a version that follows the last one counts.
ReadEventInSequence ==
  /\ at = "open" /\ stream # <<>>
  /\ Apply(IF Head(stream) = current + 1 THEN Head(stream) ELSE current)
  /\ stream' = Tail(stream)
  /\ UNCHANGED <<replays, srv, at, adopted>>

ReadEvent ==
  /\ at = "open" /\ stream # <<>>
  /\ Apply(Head(stream))
  /\ stream' = Tail(stream)
  /\ UNCHANGED <<replays, srv, at, adopted>>

\* The connection ends, or nothing was read for sseReadTimeout: what was on the
\* way is lost.
Break ==
  /\ at = "open"
  /\ at' = "broken"
  /\ stream' = <<>>
  /\ UNCHANGED <<fVars, replays, srv, current, adopted>>

\* Mutant: a fetch after a disconnect is taken for the initial one.
ReconcileSilently ==
  /\ at = "broken"
  /\ at' = "backoff"
  /\ current' = srv
  /\ UNCHANGED <<fVars, replays, srv, stream, adopted>>

Reconcile ==
  /\ at = "broken"
  /\ at' = "backoff"
  /\ Apply(srv)
  /\ UNCHANGED <<replays, srv, stream, adopted>>

ReconcileFails ==
  /\ at = "broken"
  /\ at' = "backoff"
  /\ UNCHANGED <<fVars, replays, srv, stream, current, adopted>>

BackoffEnds ==
  /\ at = "backoff"
  /\ at' = "connect"
  /\ UNCHANGED <<fVars, replays, srv, stream, current, adopted>>

\* The daemon's context is cancelled. Flushes that were scheduled still happen.
Stop ==
  /\ at' = "stopped" /\ at # "stopped"
  /\ stream' = <<>>
  /\ UNCHANGED <<fVars, replays, srv, current, adopted>>

Flush == FFlush /\ UNCHANGED watcherVars

WNext ==
  \/ InitialFetch \/ Connect \/ ConnectFails \/ ReadEvent \/ Break
  \/ Reconcile \/ ReconcileFails \/ BackoffEnds
  \/ Publish \/ Stop \/ Flush

\* Requests end, one way or the other, and what was sent is read. The network
\* is not assumed to recover, nor the daemon to keep running.
WFairness ==
  /\ WF_allVars(InitialFetch) /\ WF_allVars(Connect \/ ConnectFails)
  /\ WF_allVars(ReadEvent) /\ WF_allVars(BackoffEnds)
  /\ WF_allVars(Reconcile \/ ReconcileFails)

WSpec == WInit /\ [][WNext]_allVars /\ WFairness /\ FLive

-----------------------------------------------------------------------------
(* Properties.                                                             *)

\* No answer in the proxy's cache is older than the newest rules. (The system's
\* cache follows unless its command fails: SettledIsFresh of RulesFlush.)
UpToDate == flushed = srv

\* A version newer than the one the initial fetch returned is the newest. What
\* was cached before that fetch is not purged for the version it returns (22-24),
\* so that without a newer one it stays.
Changed == srv # adopted

\* The loop never claims a version nobody published, and never knows of one it
\* did not hand to scheduleFlush, except the one it started with (22-24, 77-82,
\* 99-102).
KnowsWhatItScheduled ==
  /\ scheduled <= current /\ current <= srv
  /\ current \in {scheduled, adopted}

\* When the stream stays open in the end and the service replays its version to
\* a new stream, a change of the rules purges the caches of everything older,
\* whatever was lost before (76-82).
UpToDateWhenOpen ==
  replays /\ <>[](at = "open") /\ <>[]Changed => <>[]UpToDate

\* Whatever change was missed is made good by a later disconnect, even if the
\* service replays nothing: if fetches after a disconnect keep succeeding, the
\* caches are purged of everything older than the rules (98-102).
LaterReconcileRepairs ==
  []<><<Reconcile>>_at /\ <>[]Changed => <>[]UpToDate
=============================================================================
