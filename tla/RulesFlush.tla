----------------------------- MODULE RulesFlush -----------------------------
(***************************************************************************)
(* The debounced cache flush of internal/runtime/rules_watcher.go. Every   *)
(* new rules version is handed to scheduleFlush, which arms a timer and    *)
(* disarms the one before; a version that finds the first pending one old  *)
(* enough is flushed at once. Timer callbacks run on goroutines of their   *)
(* own and take the same mutex, so a timer that cannot be stopped any more *)
(* may run its callback after a later scheduleFlush.                       *)
(*                                                                         *)
(* flushGen counts the timers armed. Versions only grow, so the version    *)
(* that armed a timer stands for its generation.                           *)
(***************************************************************************)
EXTENDS Naturals

CONSTANTS
  Debounce,        \* the delay of the timer (2s)
  MaxFlushDelay,   \* how long events may postpone a flush (10s)
  MaxVersion,      \* bound: rules versions
  MaxTime          \* bound: the clock

ASSUME TimesAssumption ==
  /\ Debounce \in Nat \ {0} /\ MaxFlushDelay \in Nat
  /\ MaxVersion \in Nat /\ MaxTime \in Nat

Nil      == 0        \* flushTimer = nil; the first version is 1
Versions == 1 .. MaxVersion
Times    == 0 .. MaxTime

VARIABLES
  now,           \* the clock
  version,       \* the newest version handed to scheduleFlush
  flushTimer,    \* the generation of the timer flushTimer points to, or Nil
  flushGen,      \* the generation of the newest timer
  firstPending,  \* since when a flush has been pending
  armed,         \* timers that have not fired: generation and due time
  fired,         \* generations whose callback waits for the mutex
  purging,       \* doFlush calls that have not purged the DNS cache yet
  osFlushing,    \* doFlush calls that run the system's flush command
  purgedAt,      \* what was handed over before the last purge
  osPurgedAt,    \* what the system's caches are as new as
  osFailed,      \* the last flush command failed
  armedAt,       \* when the newest timer was armed
  waitingSince   \* since when a version has been waiting for a purge

timerVars == <<flushTimer, flushGen, firstPending, armed, armedAt>>
cacheVars == <<purgedAt, osPurgedAt, osFailed>>
vars == <<now, version, flushTimer, flushGen, firstPending, armed, fired,
          purging, osFlushing, purgedAt, osPurgedAt, osFailed, armedAt,
          waitingSince>>

TypeOK ==
  /\ now \in Times
  /\ version \in Versions \cup {0}
  /\ flushTimer \in Versions \cup {Nil}
  /\ flushGen \in Versions \cup {0}
  /\ firstPending \in Times
  /\ armed \subseteq [gen : Versions, due : Nat]
  /\ fired \subseteq Versions
  /\ purging \subseteq Versions
  /\ osFlushing \subseteq Versions
  /\ purgedAt \in Versions \cup {0}
  /\ osPurgedAt \in Versions \cup {0}
  /\ osFailed \in BOOLEAN
  /\ armedAt \in Times
  /\ waitingSince \in Times

Init ==
  /\ now = 0 /\ version = 0
  /\ flushTimer = Nil /\ flushGen = 0 /\ firstPending = 0
  /\ armed = {} /\ fired = {} /\ purging = {} /\ osFlushing = {}
  /\ purgedAt = 0 /\ osPurgedAt = 0 /\ osFailed = FALSE
  /\ armedAt = 0 /\ waitingSince = 0

-----------------------------------------------------------------------------
(* scheduleFlush, under the mutex.                                         *)

\* Stop disarms the timer flushTimer points to, if it has not fired.
Others == {t \in armed : t.gen # flushTimer}

\* Mutant: the deadline is stored and taken for the time a flush is pending.
PendingUntil == IF flushTimer = Nil THEN now + MaxFlushDelay ELSE firstPending

PendingSince == IF flushTimer = Nil THEN now ELSE firstPending

Overdue == now - PendingSince >= MaxFlushDelay

\* Mutant: the overdue timer is disarmed and nothing is flushed.
FlushNowForgets(v) ==
  /\ Overdue
  /\ flushTimer' = Nil
  /\ armed' = Others
  /\ UNCHANGED <<flushGen, armedAt, purging>>

FlushNow(v) ==
  /\ Overdue
  /\ flushTimer' = Nil
  /\ armed' = Others
  /\ purging' = purging \cup {v}
  /\ UNCHANGED <<flushGen, armedAt>>

ArmTimer(v) ==
  /\ ~Overdue
  /\ flushTimer' = v /\ flushGen' = v
  /\ armed' = Others \cup {[gen |-> v, due |-> now + Debounce]}
  /\ armedAt' = now
  /\ UNCHANGED purging

ScheduleFlush(v) ==
  /\ version' = v
  /\ firstPending' = PendingSince
  /\ FlushNow(v) \/ ArmTimer(v)
  /\ waitingSince' = IF purgedAt = version THEN now ELSE waitingSince
  /\ UNCHANGED <<now, fired, osFlushing, cacheVars>>

\* The loop hands over a version that is newer than the last (bound: while the
\* clock can still reach the due time).
Event ==
  /\ now + Debounce <= MaxTime
  /\ \E v \in Versions : v > version /\ ScheduleFlush(v)

-----------------------------------------------------------------------------
(* The timer and its callback.                                             *)

Fire(t) ==
  /\ t.due <= now
  /\ armed' = armed \ {t}
  /\ fired' = fired \cup {t.gen}
  /\ UNCHANGED <<now, version, flushTimer, flushGen, firstPending, armedAt,
                 purging, osFlushing, cacheVars, waitingSince>>

\* Mutant: the generation is not compared.
CallbackAlways(g) ==
  /\ fired' = fired \ {g}
  /\ flushTimer' = Nil
  /\ purging' = purging \cup {g}
  /\ UNCHANGED <<now, version, flushGen, firstPending, armed, armedAt,
                 osFlushing, cacheVars, waitingSince>>

\* Mutant: the comparison is the wrong way round.
CallbackStaleOnly(g) ==
  /\ fired' = fired \ {g}
  /\ flushTimer' = Nil
  /\ purging' = IF g = flushGen THEN purging ELSE purging \cup {g}
  /\ UNCHANGED <<now, version, flushGen, firstPending, armed, armedAt,
                 osFlushing, cacheVars, waitingSince>>

Callback(g) ==
  /\ fired' = fired \ {g}
  /\ flushTimer' = Nil
  /\ purging' = IF g = flushGen THEN purging \cup {g} ELSE purging
  /\ UNCHANGED <<now, version, flushGen, firstPending, armed, armedAt,
                 osFlushing, cacheVars, waitingSince>>

-----------------------------------------------------------------------------
(* doFlush, outside the mutex: purge the proxy's cache, then run the       *)
(* system's flush command, whose failure is only logged.                   *)

\* Mutant: doFlush ends when the proxy's cache is purged.
PurgeOnly(v) ==
  /\ purging' = purging \ {v}
  /\ purgedAt' = version
  /\ UNCHANGED <<now, version, timerVars, fired, osFlushing, osPurgedAt, osFailed,
                 waitingSince>>

Purge(v) ==
  /\ purging' = purging \ {v}
  /\ osFlushing' = osFlushing \cup {v}
  /\ purgedAt' = version
  /\ UNCHANGED <<now, version, timerVars, fired, osPurgedAt, osFailed, waitingSince>>

\* The system's caches are refilled from the proxy.
FlushDNSCaches(v) ==
  /\ osFlushing' = osFlushing \ {v}
  /\ \/ osPurgedAt' = purgedAt /\ osFailed' = FALSE
     \/ osFailed' = TRUE /\ UNCHANGED osPurgedAt
  /\ UNCHANGED <<now, version, timerVars, fired, purging, purgedAt, waitingSince>>

Tick ==
  /\ now < MaxTime
  /\ now' = now + 1
  /\ UNCHANGED <<version, timerVars, fired, purging, osFlushing, cacheVars, waitingSince>>

-----------------------------------------------------------------------------
Timers == \/ \E t \in armed : Fire(t)
          \/ \E g \in fired : Callback(g)
Jobs   == \/ \E v \in purging : Purge(v)
          \/ \E v \in osFlushing : FlushDNSCaches(v)

Next == Event \/ Timers \/ Jobs \/ Tick

\* The runtime fires due timers and schedules goroutines; time passes.
Fairness ==
  /\ WF_vars(Tick) /\ WF_vars(Timers)
  /\ WF_vars(\E v \in purging : Purge(v))
  /\ WF_vars(\E v \in osFlushing : FlushDNSCaches(v))

Spec     == Init /\ [][Next]_vars
FairSpec == Spec /\ Fairness

\* A machine without any lag: no time passes while a timer is due, a callback
\* waits for the mutex or the cache is about to be purged.
Prompt     == fired = {} /\ purging = {} /\ \A t \in armed : t.due > now
PromptSpec == Init /\ [][Next /\ (now' # now => Prompt)]_vars /\ Fairness

-----------------------------------------------------------------------------
(* Properties.                                                             *)

\* No version is forgotten: while a version has not been covered by a purge,
\* the newest timer is armed, its callback is about to run, or a flush is under
\* way, however timers, callbacks and new versions interleave (rules_watcher.go
\* 25-27: a stale callback is a no-op and the newest one is not).
FlushIsOwed ==
  purgedAt < version =>
    \/ purging # {}
    \/ flushGen \in fired
    \/ \E t \in armed : t.gen = flushGen

\* When nothing is left to do, the system's caches are as new as the proxy's,
\* which are as new as the rules, unless the flush command failed: the proxy is
\* purged first, or the system would refill from stale answers (doFlush, 35-44).
SettledIsFresh ==
  armed = {} /\ fired = {} /\ purging = {} /\ osFlushing = {} =>
    /\ purgedAt = version
    /\ osPurgedAt = version \/ osFailed

\* A burst of versions is flushed once it pauses: a callback starts a flush only
\* when no timer has been armed for as long as the debounce lasts (25-27).
FlushAfterPause ==
  [][\A g \in fired : Callback(g) /\ purging' # purging =>
       now >= armedAt + Debounce]_vars

\* Why: generations are never ahead of the version, the newest timer fires no
\* sooner than its due time, and every job that purged goes on to the system.
NothingAhead ==
  /\ purgedAt <= version /\ flushGen <= version
  /\ \A t \in armed : t.gen <= version
  /\ \A g \in fired : g <= version

NewestNotEarly ==
  /\ \A t \in armed : t.gen = flushGen => t.due = armedAt + Debounce
  /\ flushGen \in fired => now >= armedAt + Debounce

SystemFollows ==
  purging = {} /\ osFlushing = {} => osPurgedAt = purgedAt \/ osFailed

IInv == TypeOK /\ FlushIsOwed /\ NothingAhead /\ NewestNotEarly /\ SystemFollows

\* The flush implements what the watcher relies on.
Promise == INSTANCE FlushPromise WITH scheduled <- version, flushed <- purgedAt
KeepsPromise == Promise!FSpec

\* "maxFlushDelay caps how long continuous events can postpone a flush" (28):
\* on a machine without lag a version waits for its purge no longer than the
\* cap and one more debounce.
FlushCap ==
  purgedAt < version => now - waitingSince <= MaxFlushDelay + Debounce
=============================================================================
