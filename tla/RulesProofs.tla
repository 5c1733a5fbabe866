---------------------------- MODULE RulesProofs -----------------------------
(***************************************************************************)
(* What holds of the rules watcher for any number of versions. Of the      *)
(* debounced flush, for every debounce and cap: no version is forgotten, a *)
(* burst is flushed after its pause, and every step is one of FlushPromise.*)
(* Of the loop, whatever streams break and whatever fetches fail: it knows *)
(* of no version that it did not hand to the flush. Of both together: what *)
(* the loop knows of is flushed.                                           *)
(***************************************************************************)
EXTENDS RulesFlush, RulesWatcher, TLAPS

\* Nothing is pending before the first event (rules_watcher.go 30-34).
LEMMA InitIInv == Init => IInv
<1> SUFFICES ASSUME Init PROVE IInv
  OBVIOUS
<1>1. 0 \in Times
  BY TimesAssumption DEF Times
<1>2. TypeOK
  BY <1>1 DEF Init, TypeOK, Nil
<1>3. FlushIsOwed /\ NothingAhead /\ NewestNotEarly /\ SystemFollows
  BY DEF Init, FlushIsOwed, NothingAhead, NewestNotEarly, SystemFollows
<1> QED BY <1>2, <1>3 DEF IInv

\* The parts of scheduleFlush that the invariant depends on, with the version
\* it was given: it either adds a flush or arms the newest timer (45-72).
LEMMA ScheduleCases ==
  ASSUME IInv, Event
  PROVE  \E v \in Versions :
           /\ v > version /\ version' = v
           /\ now + Debounce \in Nat
           /\ firstPending' \in Times
           /\ waitingSince' \in Times
           /\ \/ FlushNow(v)
              \/ ArmTimer(v)
           /\ UNCHANGED <<now, fired, osFlushing, cacheVars>>
<1>1. PICK v \in Versions : v > version /\ ScheduleFlush(v)
  BY DEF Event
<1>2. firstPending' \in Times /\ waitingSince' \in Times
  BY <1>1 DEF ScheduleFlush, PendingSince, IInv, TypeOK
<1>3. now + Debounce \in Nat
  BY TimesAssumption DEF IInv, TypeOK, Times
<1> QED BY <1>1, <1>2, <1>3 DEF ScheduleFlush

\* A new version keeps the invariant.
LEMMA EventStep == IInv /\ Event => IInv'
<1> SUFFICES ASSUME IInv, Event PROVE IInv'
  OBVIOUS
<1>1. PICK v \in Versions :
        /\ v > version /\ version' = v
        /\ now + Debounce \in Nat
        /\ firstPending' \in Times
        /\ waitingSince' \in Times
        /\ FlushNow(v) \/ ArmTimer(v)
        /\ UNCHANGED <<now, fired, osFlushing, cacheVars>>
  BY ScheduleCases
<1> USE DEF IInv, cacheVars
<1>2. v \in Nat /\ version \in Nat /\ v # 0 /\ \A g \in Versions : g \in Nat
  BY TimesAssumption DEF Versions, TypeOK
<1>3. Others \subseteq armed
  BY DEF Others
<1>4. \A n \in Nat : n <= version => n <= v /\ n < v
  BY <1>1, <1>2
<1>5. /\ \A t \in Others : t.gen \in Nat /\ t.gen <= version
      /\ \A g \in fired : g \in Nat /\ g <= version
      /\ purgedAt \in Nat /\ flushGen \in Nat
  <2>1. \A t \in armed : t.gen \in Versions
    BY DEF TypeOK
  <2>2. (\A t \in armed : t.gen <= version) /\ (\A g \in fired : g <= version)
    BY DEF NothingAhead
  <2>3. \A t \in Others : t.gen \in Nat /\ t.gen <= version
    BY <1>2, <1>3, <2>1, <2>2
  <2>4. fired \subseteq Versions /\ purgedAt \in Nat /\ flushGen \in Nat
    BY <1>2 DEF TypeOK
  <2> QED BY <1>2, <2>2, <2>3, <2>4
<1>6. CASE FlushNow(v)
  <2>1. TypeOK'
    BY <1>1, <1>3, <1>6 DEF FlushNow, TypeOK
  <2>2. FlushIsOwed' /\ SystemFollows'
    BY <1>6 DEF FlushNow, FlushIsOwed, SystemFollows
  <2>3. /\ version' = v /\ armed' = Others
        /\ UNCHANGED <<purgedAt, flushGen, fired, now, armedAt>>
    BY <1>1, <1>6 DEF FlushNow
  <2>4. NothingAhead'
    BY <1>4, <1>5, <2>3 DEF NothingAhead
  <2>5. NewestNotEarly'
    BY <1>3, <2>3 DEF NewestNotEarly
  <2> QED BY <2>1, <2>2, <2>4, <2>5
<1>7. CASE ArmTimer(v)
  <2> DEFINE new == [gen |-> v, due |-> now + Debounce]
  <2>1. new \in [gen : Versions, due : Nat] /\ armed' = Others \cup {new}
    BY <1>1, <1>7 DEF ArmTimer
  <2>2. TypeOK'
    BY <1>1, <1>3, <1>7, <2>1 DEF ArmTimer, TypeOK, Nil
  <2>3. /\ version' = v /\ flushGen' = v /\ armedAt' = now
        /\ UNCHANGED <<purgedAt, fired, now>>
    BY <1>1, <1>7 DEF ArmTimer
  <2>4. new \in armed' /\ new.gen = flushGen' /\ new.due = armedAt' + Debounce
    BY <2>1, <2>3
  <2>5. FlushIsOwed'
    BY <2>4 DEF FlushIsOwed
  <2>6. SystemFollows'
    BY <1>1, <1>7 DEF ArmTimer, SystemFollows
  <2>7. NothingAhead'
    <3>1. v <= v
      BY <1>2
    <3> QED BY <1>4, <1>5, <2>1, <2>3, <3>1 DEF NothingAhead
  <2>8. NewestNotEarly'
    <3>1. (\A t \in Others : t.gen # v) /\ v \notin fired
      BY <1>2, <1>4, <1>5
    <3> QED BY <2>1, <2>3, <2>4, <3>1 DEF NewestNotEarly
  <2> QED BY <2>2, <2>5, <2>6, <2>7, <2>8
<1> QED BY <1>1, <1>6, <1>7

\* A timer that fires and a callback, stale or not, keep the invariant.
LEMMA TimersStep == IInv /\ Timers => IInv'
<1> SUFFICES ASSUME IInv, Timers PROVE IInv'
  OBVIOUS
<1> USE DEF IInv, cacheVars
<1>1. ASSUME NEW t \in armed, Fire(t) PROVE IInv'
  <2>1. t.gen \in Versions
    BY DEF TypeOK
  <2>2. TypeOK'
    BY <1>1, <2>1 DEF Fire, TypeOK
  <2>3. FlushIsOwed' /\ SystemFollows'
    BY <1>1 DEF Fire, FlushIsOwed, SystemFollows
  <2>4. NothingAhead'
    BY <1>1 DEF Fire, NothingAhead
  <2>5. NewestNotEarly'
    BY <1>1 DEF Fire, NewestNotEarly
  <2> QED BY <2>2, <2>3, <2>4, <2>5
<1>2. ASSUME NEW g \in fired, Callback(g) PROVE IInv'
  <2>1. TypeOK'
    BY <1>2 DEF Callback, TypeOK, timerVars
  <2>2. FlushIsOwed' /\ SystemFollows'
    BY <1>2 DEF Callback, FlushIsOwed, SystemFollows
  <2>3. NothingAhead'
    BY <1>2 DEF Callback, NothingAhead
  <2>4. NewestNotEarly'
    BY <1>2 DEF Callback, NewestNotEarly
  <2> QED BY <2>1, <2>2, <2>3, <2>4
<1> QED BY <1>1, <1>2 DEF Timers

\* Purges, flush commands and the clock keep the invariant.
LEMMA JobsStep == IInv /\ (Jobs \/ Tick) => IInv'
<1> SUFFICES ASSUME IInv, Jobs \/ Tick PROVE IInv'
  OBVIOUS
<1> USE DEF IInv, cacheVars, timerVars
<1>1. ASSUME NEW v \in purging, Purge(v) PROVE IInv'
  <2>1. version \in Nat /\ TypeOK'
    BY <1>1, TimesAssumption DEF Purge, TypeOK, Versions
  <2>2. FlushIsOwed' /\ SystemFollows'
    BY <1>1, <2>1 DEF Purge, FlushIsOwed, SystemFollows
  <2>3. NothingAhead'
    BY <1>1, <2>1 DEF Purge, NothingAhead
  <2>4. NewestNotEarly'
    BY <1>1 DEF Purge, NewestNotEarly
  <2> QED BY <2>1, <2>2, <2>3, <2>4
<1>2. ASSUME NEW v \in osFlushing, FlushDNSCaches(v) PROVE IInv'
  <2>1. TypeOK'
    BY <1>2 DEF FlushDNSCaches, TypeOK
  <2>2. FlushIsOwed' /\ SystemFollows'
    BY <1>2 DEF FlushDNSCaches, FlushIsOwed, SystemFollows
  <2>3. NothingAhead'
    BY <1>2 DEF FlushDNSCaches, NothingAhead
  <2>4. NewestNotEarly'
    BY <1>2 DEF FlushDNSCaches, NewestNotEarly
  <2> QED BY <2>1, <2>2, <2>3, <2>4
<1>3. ASSUME Tick PROVE IInv'
  <2>1. now \in Nat /\ now' = now + 1 /\ now' \in Times
    BY <1>3, TimesAssumption DEF Tick, TypeOK, Times
  <2>2. TypeOK'
    BY <1>3, <2>1 DEF Tick, TypeOK
  <2>3. FlushIsOwed' /\ SystemFollows' /\ NothingAhead'
    BY <1>3 DEF Tick, FlushIsOwed, SystemFollows, NothingAhead
  <2>4. armedAt + Debounce \in Nat
    BY TimesAssumption DEF TypeOK, Times
  <2>5. NewestNotEarly'
    BY <1>3, <2>1, <2>4 DEF Tick, NewestNotEarly
  <2> QED BY <2>2, <2>3, <2>5
<1> QED BY <1>1, <1>2, <1>3 DEF Jobs

\* The inductive invariant of the flush.
THEOREM Inductive == Spec => []IInv
<1>1. IInv /\ UNCHANGED vars => IInv'
  BY DEF IInv, TypeOK, FlushIsOwed, NothingAhead, NewestNotEarly, SystemFollows, vars
<1>2. IInv /\ [Next]_vars => IInv'
  BY <1>1, EventStep, TimersStep, JobsStep DEF Next
<1> QED BY InitIInv, <1>2, PTL DEF Spec

\* The types of the flush's state (rules_watcher.go 30-34).
THEOREM TypeCorrect == Spec => []TypeOK
<1>1. IInv => TypeOK
  BY DEF IInv
<1> QED BY Inductive, <1>1, PTL

\* No version handed to scheduleFlush is ever forgotten (25-27, 45-72).
THEOREM NoLostFlush == Spec => []FlushIsOwed
<1>1. IInv => FlushIsOwed
  BY DEF IInv
<1> QED BY Inductive, <1>1, PTL

\* With nothing left to do, both caches are as new as the rules, unless the
\* flush command failed (doFlush, 35-44).
THEOREM Settled == Spec => []SettledIsFresh
<1>1. IInv => SettledIsFresh
  <2> SUFFICES ASSUME IInv, armed = {}, fired = {}, purging = {}, osFlushing = {}
               PROVE  purgedAt = version /\ (osPurgedAt = version \/ osFailed)
    BY DEF SettledIsFresh
  <2>1. purgedAt \in Nat /\ version \in Nat
    BY TimesAssumption DEF IInv, TypeOK, Versions
  <2>2. purgedAt = version
    BY <2>1 DEF IInv, FlushIsOwed, NothingAhead
  <2> QED BY <2>2 DEF IInv, SystemFollows
<1> QED BY Inductive, <1>1, PTL

\* A callback starts a flush only after a pause as long as the debounce (25-27).
THEOREM AfterPause == Spec => FlushAfterPause
<1> DEFINE Paused == \A g \in fired : Callback(g) /\ purging' # purging =>
                       now >= armedAt + Debounce
<1>1. IInv => Paused
  BY DEF IInv, NewestNotEarly, Callback
<1> QED BY Inductive, <1>1, PTL DEF FlushAfterPause

\* The flush implements the steps of FlushPromise: only a purge moves what is
\* flushed, and it moves it to everything handed over so far.
THEOREM ImplementsPromise == Spec => Promise!FInit /\ [][Promise!FNext]_(Promise!fVars)
<1>1. Init => Promise!FInit
  BY DEF Init, Promise!FInit
<1>2. ASSUME IInv, [Next]_vars PROVE [Promise!FNext]_(Promise!fVars)
  <2> USE DEF Promise!FNext, Promise!FFlush, Promise!FSchedule, Promise!fVars
  <2>1. CASE Event
    BY <2>1 DEF Event, ScheduleFlush, cacheVars
  <2>2. CASE Timers
    BY <2>2 DEF Timers, Fire, Callback, cacheVars
  <2>3. CASE Jobs
    BY <2>3 DEF Jobs, Purge, FlushDNSCaches
  <2>4. CASE Tick \/ UNCHANGED vars
    BY <2>4 DEF Tick, cacheVars, vars
  <2> QED BY <1>2, <2>1, <2>2, <2>3, <2>4 DEF Next
<1> QED BY Inductive, <1>1, <1>2, PTL DEF Spec

-----------------------------------------------------------------------------
(* The loop.                                                               *)

\* An event on its way announces a version that was published.
StreamOfPublished == \A i \in 1 .. Len(stream) : stream[i] <= srv

WatcherInv == WTypeOK /\ StreamOfPublished /\ KnowsWhatItScheduled

\* A version that was published reaches the loop and is handed to scheduleFlush,
\* or is not newer (rules_watcher.go 77-82).
LEMMA AppliedIsScheduled ==
  ASSUME WatcherInv, NEW v \in Published, v <= srv, Apply(v),
         UNCHANGED <<srv, adopted>>
  PROVE  /\ scheduled' \in Published /\ flushed' \in Published /\ current' \in Published
         /\ KnowsWhatItScheduled'
<1> USE DEF WatcherInv, WTypeOK, KnowsWhatItScheduled, Published
<1>1. CASE v <= current /\ UNCHANGED <<current, fVars>>
  BY <1>1 DEF fVars
<1>2. CASE v > current /\ current' = v /\ FSchedule(v)
  BY <1>2, WatcherAssumption DEF FSchedule
<1> QED BY <1>1, <1>2 DEF Apply

\* The order of versions is kept by every step: requests that fail, streams that
\* break, versions that are published meanwhile.
THEOREM WatcherInductive == WSpec => []WatcherInv
<1>1. WInit => WatcherInv
  BY WatcherAssumption DEF WInit, FInit, WatcherInv, WTypeOK, StreamOfPublished,
                         KnowsWhatItScheduled, Published
<1>2. WatcherInv /\ [WNext]_(allVars) => WatcherInv'
  <2> SUFFICES ASSUME WatcherInv, [WNext]_(allVars) PROVE WatcherInv'
    OBVIOUS
  <2> USE WatcherAssumption
  <2>1. CASE InitialFetch
    BY <2>1 DEF InitialFetch, WatcherInv, WTypeOK, StreamOfPublished,
                KnowsWhatItScheduled, Published, fVars
  <2>2. CASE Connect
    <3>1. stream' \in {<<srv>>, <<>>} /\ srv' = srv /\ srv \in Published
      BY <2>2 DEF Connect, WatcherInv, WTypeOK
    <3>2. stream' \in Seq(Published)
      <4>1. <<srv>> \in Seq(Published) /\ <<>> \in Seq(Published)
        BY <3>1
      <4> QED BY <3>1, <4>1
    <3>3. StreamOfPublished'
      BY <3>1 DEF StreamOfPublished, Published
    <3> QED BY <2>2, <3>2, <3>3 DEF Connect, WatcherInv, WTypeOK, KnowsWhatItScheduled,
                                    fVars
  <2>3. CASE ConnectFails \/ ReconcileFails \/ BackoffEnds
    BY <2>3 DEF ConnectFails, ReconcileFails, BackoffEnds, WatcherInv, WTypeOK,
                StreamOfPublished, KnowsWhatItScheduled, fVars
  <2>4. CASE ReadEvent
    <3>1. Head(stream) \in Published /\ Head(stream) <= srv
      BY <2>4 DEF ReadEvent, WatcherInv, WTypeOK, StreamOfPublished
    <3>2. stream' \in Seq(Published) /\ StreamOfPublished'
      <4>1. stream' \in Seq(Published) /\ Len(stream') = Len(stream) - 1
        BY <2>4 DEF ReadEvent, WatcherInv, WTypeOK
      <4>2. ASSUME NEW i \in 1 .. Len(stream') PROVE stream'[i] <= srv'
        <5>1. i + 1 \in 1 .. Len(stream) /\ stream'[i] = stream[i + 1]
          BY <2>4, <4>1 DEF ReadEvent, WatcherInv, WTypeOK
        <5> QED BY <2>4, <5>1 DEF ReadEvent, WatcherInv, StreamOfPublished
      <4> QED BY <4>1, <4>2 DEF StreamOfPublished
    <3>3. Apply(Head(stream)) /\ UNCHANGED <<replays, srv, at, adopted>>
      BY <2>4 DEF ReadEvent
    <3>4. /\ scheduled' \in Published /\ flushed' \in Published /\ current' \in Published
          /\ KnowsWhatItScheduled'
      BY <3>1, <3>3, AppliedIsScheduled
    <3> QED BY <3>2, <3>3, <3>4 DEF WatcherInv, WTypeOK
  <2>5. CASE Break \/ Stop
    <3>1. stream' = <<>>
      BY <2>5 DEF Break, Stop
    <3>2. stream' \in Seq(Published) /\ StreamOfPublished'
      BY <3>1 DEF StreamOfPublished
    <3> QED BY <2>5, <3>2 DEF Break, Stop, WatcherInv, WTypeOK, KnowsWhatItScheduled,
                              fVars
  <2>6. CASE Reconcile
    <3>1. Apply(srv) /\ UNCHANGED <<replays, srv, stream, adopted>> /\ at' = "backoff"
      BY <2>6 DEF Reconcile
    <3>2. /\ scheduled' \in Published /\ flushed' \in Published /\ current' \in Published
          /\ KnowsWhatItScheduled'
      <4>1. srv \in Published /\ srv <= srv
        BY DEF WatcherInv, WTypeOK, Published
      <4> QED BY <3>1, <4>1, AppliedIsScheduled
    <3>3. WTypeOK'
      BY <3>1, <3>2 DEF WatcherInv, WTypeOK
    <3>4. StreamOfPublished'
      BY <3>1 DEF WatcherInv, StreamOfPublished
    <3> QED BY <3>2, <3>3, <3>4 DEF WatcherInv
  <2>7. CASE Publish
    <3>1. srv' \in Published /\ srv' = srv + 1
      BY <2>7 DEF Publish, WatcherInv, WTypeOK, Published
    <3>2. stream' \in Seq(Published) /\ StreamOfPublished'
      <4>1. CASE at = "open"
        <5>1. stream' = Append(stream, srv')
          BY <2>7, <4>1 DEF Publish
        <5>2. stream' \in Seq(Published) /\ Len(stream') = Len(stream) + 1
          BY <3>1, <5>1 DEF WatcherInv, WTypeOK
        <5>3. ASSUME NEW i \in 1 .. Len(stream') PROVE stream'[i] <= srv'
          <6>1. CASE i \in 1 .. Len(stream)
            <7>1. stream'[i] = stream[i] /\ stream[i] \in Published
              BY <5>1, <6>1 DEF WatcherInv, WTypeOK
            <7> QED BY <3>1, <6>1, <7>1 DEF WatcherInv, WTypeOK, StreamOfPublished,
                       Published
          <6>2. CASE i = Len(stream) + 1
            <7>1. stream'[i] = srv'
              BY <5>1, <6>2 DEF WatcherInv, WTypeOK
            <7> QED BY <3>1, <7>1 DEF Published
          <6> QED BY <5>2, <6>1, <6>2 DEF WatcherInv, WTypeOK
        <5> QED BY <5>2, <5>3 DEF StreamOfPublished
      <4>2. CASE at # "open"
        <5>1. stream' = stream
          BY <2>7, <4>2 DEF Publish
        <5>2. \A i \in 1 .. Len(stream) : stream[i] \in Published
          BY DEF WatcherInv, WTypeOK
        <5> QED BY <3>1, <5>1, <5>2 DEF WatcherInv, WTypeOK, StreamOfPublished, Published
      <4> QED BY <4>1, <4>2
    <3> QED BY <2>7, <3>1, <3>2 DEF Publish, WatcherInv, WTypeOK, KnowsWhatItScheduled,
                                    Published, fVars
  <2>8. CASE Flush
    BY <2>8 DEF Flush, FFlush, watcherVars, WatcherInv, WTypeOK, StreamOfPublished,
                KnowsWhatItScheduled
  <2>9. CASE UNCHANGED allVars
    BY <2>9 DEF allVars, fVars, watcherVars, WatcherInv, WTypeOK, StreamOfPublished,
                KnowsWhatItScheduled
  <2> QED BY <2>1, <2>2, <2>3, <2>4, <2>5, <2>6, <2>7, <2>8, <2>9 DEF WNext
<1> QED BY <1>1, <1>2, PTL DEF WSpec

\* The types of the watcher's state (rules_watcher.go 14-116).
THEOREM WatcherTypeCorrect == WSpec => []WTypeOK
<1>1. WatcherInv => WTypeOK
  BY DEF WatcherInv
<1> QED BY <1>1, WatcherInductive, PTL

\* The loop never knows of a version it did not hand to scheduleFlush, nor of one
\* that was not published, for any number of versions, broken streams and failed
\* fetches: no version is lost between currentVersion and the flush
\* (rules_watcher.go 77-82, 99-102).
THEOREM KnowsOnlyScheduled == WSpec => []KnowsWhatItScheduled
<1>1. WatcherInv => KnowsWhatItScheduled
  BY DEF WatcherInv
<1> QED BY <1>1, WatcherInductive, PTL

-----------------------------------------------------------------------------
(* The loop and the flush together: what FlushPromise is about are the     *)
(* variables of the flush.                                                 *)

Linked == scheduled = version /\ flushed = purgedAt

\* Once the loop knows of another version than the one its initial fetch returned
\* (for which nothing is purged, rules_watcher.go 22-24), the proxy's cache holds
\* nothing older than what the loop knows of, or a flush for it is under way: it
\* has begun, its callback runs, or its timer is armed (45-72, 77-82, 99-102).
KnownIsOwed ==
  current # adopted /\ purgedAt < current =>
    \/ purging # {}
    \/ flushGen \in fired
    \/ \E t \in armed : t.gen = flushGen

\* It holds for any number of versions, whatever timers are late and whatever
\* streams break.
THEOREM KnownVersionsAreFlushed == Spec /\ WSpec /\ []Linked => []KnownIsOwed
<1>1. FlushIsOwed /\ KnowsWhatItScheduled /\ Linked => KnownIsOwed
  BY DEF FlushIsOwed, KnowsWhatItScheduled, Linked, KnownIsOwed
<1> QED BY <1>1, NoLostFlush, KnowsOnlyScheduled, PTL
=============================================================================
