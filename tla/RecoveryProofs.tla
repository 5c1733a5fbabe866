--------------------------- MODULE RecoveryProofs ---------------------------
(***************************************************************************)
(* What holds of the endpoint manager for any number of callers, resolvers *)
(* and refreshes: the inductive invariant IInv, and from it the properties *)
(* TLC checks on a small instance. It is proved for callers that call when *)
(* they like (EndpointManager's Spec), and then for the queries and        *)
(* goroutines that do call it (Recovery's RSpec), for any number of        *)
(* queries and of moves of the service.                                    *)
(***************************************************************************)
EXTENDS Recovery, TLAPS

-----------------------------------------------------------------------------
(* The endpoint manager.                                                   *)

\* The constructor leaves the manager in a state that satisfies IInv
\* (newEndpointManager, endpoint_fallback.go 39-55).
LEMMA InitIInv == Init => IInv
<1> SUFFICES ASSUME Init PROVE IInv
  OBVIOUS
<1>1. 0 \in Doh /\ 0 \in Endpoints
  BY RefreshAssumption DEF Doh, Endpoints
<1>2. TypeOK
  BY <1>1 DEF Init, TypeOK, PC
<1>3. OneRun
  BY CallersAssumption DEF Init, OneRun, LeaderPC
<1>4. CandidateNotOlder /\ Synced
  BY <1>1 DEF Init, CandidateNotOlder, Synced, SyncedAfterSuccess
<1> QED BY <1>2, <1>3, <1>4 DEF IInv

\* Every step keeps the types: a run that reaches its commit has chosen an
\* endpoint, and the fallback provider returns plaintext endpoints only.
LEMMA StepTypeOK == IInv /\ Next => TypeOK'
<1> SUFFICES ASSUME IInv, Next PROVE TypeOK'
  OBVIOUS
<1> USE DEF TypeOK, PC, LeaderPC, runVars, Go, IInv
<1>1. ASSUME NEW c \in Callers, Call(c) \/ Collect(c) \/ Cancel(c)
      PROVE  TypeOK'
  BY <1>1 DEF Call, Collect, Cancel
<1>2. ASSUME NEW c \in Callers, Enter(c) PROVE TypeOK'
  BY <1>2 DEF Enter, EnterDone, EnterJoin, EnterLead, Return
<1>3. ASSUME NEW c \in Callers, GetDoh(c) PROVE TypeOK'
  BY <1>3 DEF GetDoh, Endpoints
<1>4. ASSUME NEW c \in Callers, GetPlain(c) PROVE TypeOK'
  <2>1. \A found \in SUBSET Local : found \cup Public \subseteq Endpoints
    BY DEF Endpoints, Plain
  <2>2. cand' \subseteq Endpoints
    BY <1>4, <2>1 DEF GetPlain
  <2> QED BY <1>4, <2>2 DEF GetPlain
<1>5. ASSUME NEW c \in Callers, Probe(c) PROVE TypeOK'
  BY <1>5 DEF Probe, ProbeOk, ProbeFail
<1>6. ASSUME NEW c \in Callers, Commit(c) PROVE TypeOK'
  <2>1. chosen \in Endpoints
    BY <1>6 DEF Commit, CandidateNotOlder, Endpoints
  <2> QED BY <1>6, <2>1 DEF Commit
<1>7. ASSUME NEW c \in Callers, Sync(c) PROVE TypeOK'
  BY <1>7 DEF Sync
<1>8. ASSUME NEW c \in Callers, Close(c) PROVE TypeOK'
  BY <1>8 DEF Close
<1>9. ASSUME NEW c \in Callers, WaitDone(c) \/ WaitCancelled(c) PROVE TypeOK'
  <2>1. result[c] \in {"none", "ok", "error"}
    OBVIOUS
  <2> QED BY <1>9, <2>1 DEF WaitDone, WaitCancelled, Return
<1>10. ASSUME Expire \/ Network \/ LibraryRetest PROVE TypeOK'
  BY <1>10 DEF Expire, Network, LibraryRetest
<1>11. ASSUME StoreDoh PROVE TypeOK'
  BY <1>11, RefreshAssumption DEF StoreDoh, Doh
<1> QED
  BY <1>1, <1>2, <1>3, <1>4, <1>5, <1>6, <1>7, <1>8, <1>9, <1>10, <1>11
  DEF Next, Step

\* Every step keeps the coalescing of Test.
LEMMA StepOneRun == IInv /\ Next => OneRun'
<1> SUFFICES ASSUME IInv, Next PROVE OneRun'
  OBVIOUS
<1> USE CallersAssumption DEF TypeOK, PC, LeaderPC, runVars, Go, IInv, OneRun
<1>1. ASSUME NEW c \in Callers, Call(c) \/ Collect(c) \/ Cancel(c)
      PROVE  OneRun'
  BY <1>1 DEF Call, Collect, Cancel
<1>2. ASSUME NEW c \in Callers, Enter(c) PROVE OneRun'
  BY <1>2 DEF Enter, EnterDone, EnterJoin, EnterLead, Return
<1>3. ASSUME NEW c \in Callers, GetDoh(c) \/ GetPlain(c) PROVE OneRun'
  BY <1>3 DEF GetDoh, GetPlain
<1>4. ASSUME NEW c \in Callers, Probe(c) PROVE OneRun'
  BY <1>4 DEF Probe, ProbeOk, ProbeFail
<1>5. ASSUME NEW c \in Callers, Commit(c) \/ Sync(c) PROVE OneRun'
  BY <1>5 DEF Commit, Sync
<1>6. ASSUME NEW c \in Callers, Close(c) PROVE OneRun'
  BY <1>6 DEF Close
<1>7. ASSUME NEW c \in Callers, WaitDone(c) \/ WaitCancelled(c) PROVE OneRun'
  BY <1>7 DEF WaitDone, WaitCancelled, Return
<1>8. ASSUME Expire \/ Network \/ LibraryRetest \/ StoreDoh PROVE OneRun'
  BY <1>8 DEF Expire, Network, LibraryRetest, StoreDoh
<1> QED
  BY <1>1, <1>2, <1>3, <1>4, <1>5, <1>6, <1>7, <1>8 DEF Next, Step

\* Every step keeps the candidates of the run at least as new as the selection:
\* dohEp only grows, and nobody else swaps the selection during a run.
LEMMA StepCandidateNotOlder == IInv /\ Next => CandidateNotOlder'
<1> SUFFICES ASSUME IInv, Next PROVE CandidateNotOlder'
  OBVIOUS
<1> USE DEF TypeOK, PC, LeaderPC, runVars, Go, IInv, OneRun, CandidateNotOlder
<1>0. dohEp \in Nat /\ \A e \in Doh : e \in Nat
  BY RefreshAssumption DEF Doh
<1>1. ASSUME NEW c \in Callers, Call(c) \/ Collect(c) \/ Cancel(c)
      PROVE  CandidateNotOlder'
  BY <1>1 DEF Call, Collect, Cancel
<1>2. ASSUME NEW c \in Callers, Enter(c) PROVE CandidateNotOlder'
  BY <1>2 DEF Enter, EnterDone, EnterJoin, EnterLead, Return
<1>3. ASSUME NEW c \in Callers, GetDoh(c) PROVE CandidateNotOlder'
  BY <1>0, <1>3 DEF GetDoh
<1>4. ASSUME NEW c \in Callers, GetPlain(c) PROVE CandidateNotOlder'
  BY <1>4 DEF GetPlain, Plain
<1>5. ASSUME NEW c \in Callers, Probe(c) PROVE CandidateNotOlder'
  BY <1>5 DEF Probe, ProbeOk, ProbeFail
<1>6. ASSUME NEW c \in Callers, Commit(c) PROVE CandidateNotOlder'
  <2>1. \A d \in Callers : pc'[d] \notin {"probeDoh", "probePlain", "commit"}
    BY <1>6 DEF Commit
  <2>2. selected' = selected \/ selected' = chosen
    BY <1>6 DEF Commit
  <2>3. selected' \in Doh => selected' <= dohEp
    <3>1. chosen \in Plain \/ chosen <= dohEp
      BY <1>6 DEF Commit
    <3>2. chosen \in Plain => chosen \notin Doh
      BY EndpointAssumption
    <3> QED BY <2>2, <3>1, <3>2
  <2>4. dohEp' = dohEp
    BY <1>6 DEF Commit
  <2> QED BY <2>1, <2>3, <2>4
<1>7. ASSUME NEW c \in Callers, Sync(c) PROVE CandidateNotOlder'
  BY <1>7 DEF Sync
<1>8. ASSUME NEW c \in Callers, Close(c) PROVE CandidateNotOlder'
  BY <1>8 DEF Close
<1>9. ASSUME NEW c \in Callers, WaitDone(c) \/ WaitCancelled(c)
      PROVE  CandidateNotOlder'
  BY <1>9 DEF WaitDone, WaitCancelled, Return
<1>10. ASSUME Expire \/ Network \/ LibraryRetest PROVE CandidateNotOlder'
  BY <1>10 DEF Expire, Network, LibraryRetest
<1>11. ASSUME StoreDoh PROVE CandidateNotOlder'
  <2>1. \A e \in Doh : e <= dohEp => e <= dohEp'
    BY <1>0, <1>11 DEF StoreDoh
  <2>2. UNCHANGED <<selected, cand, chosen, pc>>
    BY <1>11 DEF StoreDoh
  <2> QED BY <2>1, <2>2
<1> QED
  BY <1>1, <1>2, <1>3, <1>4, <1>5, <1>6, <1>7, <1>8, <1>9, <1>10, <1>11
  DEF Next, Step

\* Every step keeps the library in step with the selection of a run that
\* reports success.
LEMMA StepSynced == IInv /\ Next => Synced'
<1> SUFFICES ASSUME IInv, Next PROVE Synced'
  OBVIOUS
<1> USE CallersAssumption DEF TypeOK, PC, LeaderPC, runVars, Go, IInv, OneRun, Synced, SyncedAfterSuccess
<1>1. ASSUME NEW c \in Callers, Call(c) \/ Collect(c) \/ Cancel(c)
      PROVE  Synced'
  BY <1>1 DEF Call, Collect, Cancel
<1>2. ASSUME NEW c \in Callers, Enter(c) PROVE Synced'
  BY <1>2 DEF Enter, EnterDone, EnterJoin, EnterLead, Return
<1>3. ASSUME NEW c \in Callers, GetDoh(c) \/ GetPlain(c) PROVE Synced'
  BY <1>3 DEF GetDoh, GetPlain
<1>4. ASSUME NEW c \in Callers, Probe(c) PROVE Synced'
  BY <1>4 DEF Probe, ProbeOk, ProbeFail
<1>5. ASSUME NEW c \in Callers, Commit(c) \/ Sync(c) PROVE Synced'
  BY <1>5 DEF Commit, Sync
<1>6. ASSUME NEW c \in Callers, Close(c) PROVE Synced'
  BY <1>6 DEF Close
<1>7. ASSUME NEW c \in Callers, WaitDone(c) \/ WaitCancelled(c) PROVE Synced'
  BY <1>7 DEF WaitDone, WaitCancelled, Return
<1>8. ASSUME Expire \/ Network \/ LibraryRetest \/ StoreDoh PROVE Synced'
  BY <1>8 DEF Expire, Network, LibraryRetest, StoreDoh
<1> QED
  BY <1>1, <1>2, <1>3, <1>4, <1>5, <1>6, <1>7, <1>8 DEF Next, Step

\* A step that changes nothing changes nothing of the invariant.
LEMMA StutterIInv == IInv /\ UNCHANGED vars => IInv'
BY DEF IInv, TypeOK, OneRun, CandidateNotOlder, Synced, SyncedAfterSuccess, vars, runVars

\* The inductive invariant of the manager.
THEOREM Inductive == Spec => []IInv
<1>1. IInv /\ [Next]_vars => IInv'
  BY StepTypeOK, StepOneRun, StepCandidateNotOlder, StepSynced, StutterIInv
  DEF IInv
<1> QED BY InitIInv, <1>1, PTL DEF Spec

\* Every variable keeps its type: in particular a commit never stores an empty
\* selection (endpoint_fallback.go 93).
THEOREM TypeCorrect == Spec => []TypeOK
<1>1. IInv => TypeOK
  BY DEF IInv
<1> QED BY Inductive, <1>1, PTL

\* There is at most one run, and nobody waits without one (endpoint_fallback.go
\* 63-76): a waiter is always woken by the close of a run.
THEOREM OneRunAtATime == Spec => []OneRun
<1>1. IInv => OneRun
  BY DEF IInv
<1> QED BY Inductive, <1>1, PTL

\* After a run that reported success the library uses the selection
\* (endpoint_fallback.go 93-103).
THEOREM LibraryFollows == Spec => []SyncedAfterSuccess
<1>1. IInv => SyncedAfterSuccess
  BY DEF IInv, Synced
<1> QED BY Inductive, <1>1, PTL

\* A step never takes the selection back to an older DoH endpoint.
Forward == (selected \in Doh /\ selected' \in Doh) => (selected' >= selected)

LEMMA StepForward == IInv /\ [Next]_vars => Forward
<1> SUFFICES ASSUME IInv, [Next]_vars PROVE Forward
  OBVIOUS
<1> USE DEF Forward
<1>1. \A e \in Doh : e \in Nat /\ e >= e
  BY RefreshAssumption DEF Doh
<1>2. ASSUME NEW c \in Callers, Commit(c) PROVE Forward
  <2>1. CASE selected' = chosen
    BY <1>1, <1>2, <2>1, EndpointAssumption DEF Commit, IInv, CandidateNotOlder
  <2>2. CASE selected' = selected
    BY <1>1, <2>2
  <2> QED BY <1>2, <2>1, <2>2 DEF Commit
<1>3. CASE selected' = selected
  BY <1>1, <1>3
<1>4. selected' = selected \/ \E c \in Callers : Commit(c)
  BY DEF Next, vars, runVars, Call, Collect, Cancel, Step, Enter, EnterDone, EnterJoin,
         EnterLead, GetDoh, GetPlain, Probe, ProbeOk, ProbeFail, Sync, Close,
         WaitDone, WaitCancelled, Expire, Network, StoreDoh, LibraryRetest
<1> QED BY <1>2, <1>3, <1>4

\* No run replaces a DoH endpoint by one of an older generation, whatever
\* refresh overtakes its probes (endpoint_fallback.go 80-93).
THEOREM NeverRegresses == Spec => SelectionNeverRegresses
<1>1. SelectionNeverRegresses <=> [][Forward]_vars
  BY DEF SelectionNeverRegresses, Forward
<1> QED BY Inductive, StepForward, <1>1, PTL DEF Spec

-----------------------------------------------------------------------------
(* Queries and goroutines that call it.                                    *)

\* A refresh stores addresses the service has; the manager is as it was proved.
Composed == IInv /\ RTypeOK /\ dohEp <= srv

\* What the steps of queries and goroutines are to the manager: one of its own
\* steps, a refresh that calls it, or none.
LEMMA StepOfManager ==
  ASSUME CallersAre, RNext
  PROVE  Next \/ RefreshStore \/ UNCHANGED vars
<1>1. ASSUME NEW q \in Queries, Arrive(q) \/ QueryStep(q) \/ QueryTimeout(q)
      PROVE  Next \/ UNCHANGED vars
  <2>1. q \in Callers
    BY CallersAre
  <2> QED
    BY <1>1, <2>1 DEF Arrive, QueryStep, QueryTimeout, FirstOk, FirstFails, Recovered, SecondOk,
                      SecondFails, Next
<1>2. ASSUME Tick \/ TickDone \/ NetChange \/ NetTest \/ NetRefresh \/ RefreshNothing \/ RefreshDone
      PROVE  Next \/ UNCHANGED vars
  <2>1. {Watcher, NetWatcher, Refresher} \subseteq Callers
    BY CallersAre
  <2> QED
    BY <1>2, <2>1 DEF Tick, TickDone, NetChange, NetTest, NetRefresh, RefreshNothing, RefreshDone,
                      Next
<1>3. ASSUME NEW c \in Callers, Manager(c) PROVE Next
  BY <1>3 DEF Manager, Next
<1>4. ASSUME Migrate \/ EndpointsChange \/ Retest \/ RunExpires PROVE Next \/ UNCHANGED vars
  BY <1>4 DEF Migrate, EndpointsChange, Retest, RunExpires, Next
<1> QED BY <1>1, <1>2, <1>3, <1>4 DEF RNext

\* A refresh in the middle of a run leaves what the run holds valid.
LEMMA RefreshKeepsIInv ==
  ASSUME Composed, RefreshStore PROVE IInv'
<1> USE DEF Composed, IInv, RTypeOK, TypeOK, RefreshStore, Go, runVars
<1>1. /\ dohEp \in Nat /\ dohEp' \in Doh /\ dohEp <= dohEp'
      /\ \A e \in Doh : e \in Nat /\ (e <= dohEp => e <= dohEp')
  BY RefreshAssumption DEF Doh
<1>2. TypeOK'
  BY <1>1 DEF PC
<1>3. OneRun'
  BY DEF OneRun, LeaderPC, PC
<1>4. CandidateNotOlder'
  BY <1>1 DEF CandidateNotOlder, PC
<1>5. Synced'
  BY DEF Synced, SyncedAfterSuccess, PC
<1> QED BY <1>2, <1>3, <1>4, <1>5

\* The daemon begins with the manager tested and nobody calling it.
LEMMA ComposedInit == RInit => Composed
<1> SUFFICES ASSUME RInit PROVE Composed
  OBVIOUS
<1>1. IInv
  BY InitIInv DEF RInit
<1>2. srv \in Doh /\ dohEp <= srv
  BY RefreshAssumption DEF RInit, Init, Doh
<1>3. RTypeOK
  BY <1>1, <1>2 DEF RTypeOK, RInit, IInv
<1> QED BY <1>1, <1>2, <1>3 DEF Composed

\* Every step of the composition keeps the manager's invariant and its own types.
LEMMA ComposedStep == Composed /\ [RNext]_allVars => Composed'
<1> SUFFICES ASSUME Composed, [RNext]_allVars PROVE Composed'
  OBVIOUS
<1> USE DEF procVars
<1>1. CASE UNCHANGED allVars
  BY <1>1, StutterIInv DEF Composed, allVars, vars, RTypeOK, IInv
<1>2. CASE RNext
  <2>1. IInv'
    <3>1. CASE Next
      BY <3>1, StepTypeOK, StepOneRun, StepCandidateNotOlder, StepSynced DEF Composed, IInv
    <3>2. CASE RefreshStore
      BY <3>2, RefreshKeepsIInv
    <3>3. CASE UNCHANGED vars
      BY <3>3, StutterIInv DEF Composed
    <3> QED BY <1>2, <3>1, <3>2, <3>3, StepOfManager, CallersAre
  <2>2. srv' \in Doh /\ dohEp' <= srv'
    <3>1. dohEp \in Nat /\ srv \in Nat /\ srv \in Doh /\ dohEp <= srv
      BY RefreshAssumption DEF Composed, RTypeOK, TypeOK, IInv, Doh
    <3>2. CASE Migrate
      BY <3>1, <3>2, RefreshAssumption DEF Migrate, vars, Doh
    <3>3. CASE RefreshStore
      BY <3>1, <3>3 DEF RefreshStore
    <3>4. CASE UNCHANGED <<srv, dohEp>>
      BY <3>1, <3>4
    <3>5. Migrate \/ RefreshStore \/ UNCHANGED <<srv, dohEp>>
      BY <1>2 DEF RNext, Arrive, QueryStep, QueryTimeout, FirstOk, FirstFails, Recovered, SecondOk,
           SecondFails, Tick, TickDone, NetChange, NetTest, NetRefresh, RefreshNothing,
           RefreshDone, EndpointsChange, Retest, RunExpires, Manager, vars, Call, Collect, Cancel,
           Step, Enter, EnterDone, EnterJoin, EnterLead, GetDoh, GetPlain, Probe, ProbeOk,
           ProbeFail, Commit, Sync, Close, WaitDone, WaitCancelled, Expire, Network, LibraryRetest
    <3> QED BY <3>2, <3>3, <3>4, <3>5
  <2>3. /\ query' \in [Queries -> {"idle", "first", "recover", "second"}]
        /\ netEvent' \in BOOLEAN /\ netPc' \in {"idle", "test"}
        /\ refresher' \in {"idle", "resolve", "test"} /\ clients' \in BOOLEAN
    BY <1>2 DEF Composed, RTypeOK, RNext, At, Arrive, QueryStep, QueryTimeout, FirstOk, FirstFails,
         Recovered, SecondOk, SecondFails, Tick, TickDone, NetChange, NetTest, NetRefresh,
         RefreshNothing, RefreshStore, RefreshDone, Migrate, EndpointsChange, Retest, RunExpires,
         Manager
  <2> QED BY <2>1, <2>2, <2>3 DEF Composed, RTypeOK, IInv
<1> QED BY <1>1, <1>2

\* The manager's invariant holds of the composition.
THEOREM ComposedInductive == RSpec => []Composed
BY ComposedInit, ComposedStep, PTL DEF RSpec

\* The types of the queries' and the goroutines' state (resolver_retry.go 30-50,
\* runtime_run.go 110-125, dns_bootstrap.go 217-250).
THEOREM RTypeCorrect == RSpec => []RTypeOK
<1>1. Composed => RTypeOK
  BY DEF Composed
<1> QED BY ComposedInductive, <1>1, PTL

\* However many queries, ticks, network changes and refreshes test endpoints at
\* the same time, they share one run (endpoint_fallback.go 63-76), and after one
\* that succeeded the library sends queries to what it selected (93-103).
THEOREM CallersShareARun == RSpec => [](OneRun /\ SyncedAfterSuccess)
<1>1. Composed => OneRun /\ SyncedAfterSuccess
  BY DEF Composed, IInv, Synced
<1> QED BY ComposedInductive, <1>1, PTL

\* A refresh that stores the addresses the service moved to while a run probes
\* the old ones is never undone by that run (endpoint_fallback.go 80-93,
\* dns_bootstrap.go 217-250), however far the service has moved.
THEOREM MovesAreNotUndone == RSpec => SelectionNeverRegresses
<1>1. Composed /\ [RNext]_allVars => [Forward]_vars
  <2> SUFFICES ASSUME Composed, RNext, ~UNCHANGED vars PROVE Forward
    BY DEF allVars
  <2>1. CASE Next
    BY <2>1, StepForward DEF Composed
  <2>2. CASE RefreshStore
    <3>1. UNCHANGED selected /\ \A e \in Doh : e \in Nat
      BY <2>2, RefreshAssumption DEF RefreshStore, Doh
    <3> QED BY <3>1 DEF Forward
  <2> QED BY <2>1, <2>2, StepOfManager, CallersAre
<1>2. SelectionNeverRegresses <=> [][Forward]_vars
  BY DEF SelectionNeverRegresses, Forward
<1> QED BY ComposedInductive, <1>1, <1>2, PTL DEF RSpec
=============================================================================
