------------------------------ MODULE Recovery ------------------------------
(***************************************************************************)
(* Who calls the endpoint manager, and when: queries whose first attempt   *)
(* failed (resolver_retry.go), the watch that looks for the encrypted      *)
(* endpoint while a fallback is selected (endpoint_fallback.go), and a     *)
(* network change, which tests and then refreshes the bootstrap addresses  *)
(* of the DoH endpoint (runtime_run.go, dns_bootstrap.go).                 *)
(***************************************************************************)
EXTENDS EndpointManager

CONSTANTS
  Queries,                           \* DNS queries in flight
  Watcher, NetWatcher, Refresher     \* the three goroutines of the daemon

ASSUME CallersAre == Callers = Queries \cup {Watcher, NetWatcher, Refresher}

VARIABLES
  srv,        \* the generation of addresses the DoH hostname resolves to
  query,      \* where each query is in retryResolver.Resolve
  netEvent,   \* the channel of network changes holds an event
  netPc,      \* where the loop that reads it is
  refresher,  \* the refresh goroutine; "idle" means busy is false
  clients     \* scenario: clients send queries and the service has moved
              \* already, or else none do and it moves

procVars == <<query, netEvent, netPc, refresher>>
allVars  == <<vars, srv, query, netEvent, netPc, refresher, clients>>

RTypeOK ==
  /\ TypeOK
  /\ srv \in Doh
  /\ query \in [Queries -> {"idle", "first", "recover", "second"}]
  /\ netEvent \in BOOLEAN
  /\ netPc \in {"idle", "test"}
  /\ refresher \in {"idle", "resolve", "test"}
  /\ clients \in BOOLEAN

RInit ==
  /\ Init
  /\ clients \in BOOLEAN
  /\ srv = IF clients THEN MaxRefresh ELSE 0
  /\ \A e \in Doh : e > srv => e \notin reach
  /\ query = [q \in Queries |-> "idle"]
  /\ netEvent = FALSE /\ netPc = "idle"
  /\ refresher = "idle"

At(q, here, next) ==
  /\ query[q] = here
  /\ query' = [query EXCEPT ![q] = next]

-----------------------------------------------------------------------------
(* A query: first attempt, recovery, second attempt.                       *)

Arrive(q) ==
  /\ clients
  /\ At(q, "idle", "first")
  /\ UNCHANGED <<vars, srv, netEvent, netPc, refresher, clients>>

FirstOk(q) ==
  /\ At(q, "first", "idle")
  /\ active \in reach
  /\ UNCHANGED <<vars, srv, netEvent, netPc, refresher, clients>>

\* Mutant: a query that failed is sent again without a test of the endpoints.
FirstFailsAlone(q) ==
  /\ At(q, "first", "second")
  /\ active \notin reach
  /\ UNCHANGED <<vars, srv, netEvent, netPc, refresher, clients>>

FirstFails(q) ==
  /\ At(q, "first", "recover")
  /\ active \notin reach
  /\ Call(q)
  /\ UNCHANGED <<srv, netEvent, netPc, refresher, clients>>

\* The error of the recovery is ignored: the second attempt follows anyway.
Recovered(q) ==
  /\ At(q, "recover", "second")
  /\ Collect(q)
  /\ UNCHANGED <<srv, netEvent, netPc, refresher, clients>>

SecondOk(q) ==
  /\ At(q, "second", "idle")
  /\ active \in reach
  /\ UNCHANGED <<vars, srv, netEvent, netPc, refresher, clients>>

SecondFails(q) ==
  /\ At(q, "second", "idle")
  /\ active \notin reach
  /\ UNCHANGED <<vars, srv, netEvent, netPc, refresher, clients>>

\* The recovery context times out. It lasts longer than the one second a run
\* may spend on the DoH endpoint, whether the query leads the run or joined it.
QueryTimeout(q) ==
  /\ PastDoh
  /\ Cancel(q)
  /\ UNCHANGED <<srv, procVars, clients>>

-----------------------------------------------------------------------------
(* The daemon's goroutines; their context lasts as long as the daemon.     *)

\* Mutant: the watch tests while the encrypted endpoint is selected.
TickEncrypted ==
  /\ selected \notin Plain
  /\ Call(Watcher)
  /\ UNCHANGED <<srv, procVars, clients>>

\* Every five seconds, when the selection is a plaintext endpoint.
Tick ==
  /\ selected \in Plain
  /\ Call(Watcher)
  /\ UNCHANGED <<srv, procVars, clients>>

TickDone ==
  /\ Collect(Watcher)
  /\ UNCHANGED <<srv, procVars, clients>>

\* watchNetworkChanges puts a reason into a channel that holds one. Bound: beside
\* clients, changes come until the moved service is found, none while the last
\* one is being handled.
NetChange ==
  /\ ~netEvent
  /\ clients => dohEp # srv /\ netPc = "idle" /\ refresher = "idle"
  /\ netEvent' = TRUE
  /\ UNCHANGED <<vars, srv, query, netPc, refresher, clients>>

\* onNetworkChange, first half: testEndpoints.
NetTest ==
  /\ netPc = "idle" /\ netEvent
  /\ netEvent' = FALSE
  /\ netPc' = "test"
  /\ Call(NetWatcher)
  /\ UNCHANGED <<srv, query, refresher, clients>>

\* onNetworkChange, second half: start a refresh unless one is busy.
NetRefresh ==
  /\ netPc = "test"
  /\ Collect(NetWatcher)
  /\ netPc' = "idle"
  /\ refresher' = IF refresher = "idle" THEN "resolve" ELSE refresher
  /\ UNCHANGED <<srv, query, netEvent, clients>>

\* Mutant: the return with nothing to store leaves busy set.
RefreshNothingBusy ==
  /\ refresher = "resolve"
  /\ refresher' = "busy"
  /\ UNCHANGED <<vars, srv, query, netEvent, netPc, clients>>

\* The lookup failed, found the addresses the endpoint already has, or began
\* before the service moved.
RefreshNothing ==
  /\ refresher = "resolve"
  /\ refresher' = "idle"
  /\ UNCHANGED <<vars, srv, query, netEvent, netPc, clients>>

\* The lookup found new addresses: store a new endpoint and test.
RefreshStore ==
  /\ refresher = "resolve"
  /\ srv # dohEp
  /\ dohEp' = srv
  /\ pc[Refresher] = "idle"
  /\ Go(Refresher, "enter")
  /\ refresher' = "test"
  /\ UNCHANGED <<reach, selected, active, runVars, ctxDone, result,
                 srv, query, netEvent, netPc, clients>>

RefreshDone ==
  /\ refresher = "test"
  /\ Collect(Refresher)
  /\ refresher' = "idle"
  /\ UNCHANGED <<srv, query, netEvent, netPc, clients>>

\* The service moves to other addresses; endpoints come and go.
Migrate ==
  /\ ~clients
  /\ srv < MaxRefresh
  /\ srv' = srv + 1
  /\ UNCHANGED <<vars, procVars, clients>>

EndpointsChange ==
  /\ Network
  /\ \A e \in Doh : e > srv => e \notin reach'
  /\ UNCHANGED <<srv, procVars, clients>>

Retest ==
  /\ LibraryRetest
  /\ UNCHANGED <<srv, procVars, clients>>

Manager(c) == Step(c) /\ UNCHANGED <<srv, procVars, clients>>
RunExpires == Expire /\ UNCHANGED <<srv, procVars, clients>>

QueryStep(q) ==
  FirstOk(q) \/ FirstFails(q) \/ Recovered(q) \/ SecondOk(q) \/ SecondFails(q)

RNext ==
  \/ \E q \in Queries : Arrive(q) \/ QueryStep(q) \/ QueryTimeout(q)
  \/ \E c \in Callers : Manager(c)
  \/ Tick \/ TickDone \/ NetChange \/ NetTest \/ NetRefresh
  \/ RefreshNothing \/ RefreshStore \/ RefreshDone
  \/ Migrate \/ EndpointsChange \/ Retest \/ RunExpires

\* Goroutines are scheduled, the ticker ticks, probes and lookups end. Nothing
\* is assumed of the network, of queries arriving or of the library's retests.
RFairness ==
  /\ \A c \in Callers : WF_allVars(Manager(c))
  /\ \A q \in Queries : WF_allVars(QueryStep(q))
  /\ WF_allVars(Tick) /\ WF_allVars(TickDone)
  /\ WF_allVars(NetTest) /\ WF_allVars(NetRefresh)
  /\ WF_allVars(RefreshNothing \/ RefreshStore) /\ WF_allVars(RefreshDone)

RSpec == RInit /\ [][RNext]_allVars /\ RFairness

-----------------------------------------------------------------------------
(* Properties.                                                             *)

\* From some time on the endpoint behind dohEp answers.
DohStaysUp == <>[](dohEp \in reach)

\* A plaintext fallback bypasses the profile's filtering; it is not kept. Once
\* the DoH endpoint keeps answering, queries are sent to DoH for good, even if
\* none of them fails: watch sees to it (endpoint_fallback.go 142-156).
ReturnsToEncrypted == DohStaysUp => <>[](active \in Doh)

\* Once the DoH endpoint keeps answering, queries stop failing. The endpoint in
\* use may be a dead encrypted one: a refresh has stored a newer endpoint and
\* the test after it found nothing that answered. watch does not look at it and
\* no network change is to come, so that only the test a failing query asks for
\* before its second attempt brings the stored endpoint into use
\* (resolver_retry.go 42-48, endpoint_fallback.go 151).
QueriesRecover ==
  DohStaysUp => <>[][\A q \in Queries : ~SecondFails(q)]_allVars

\* "A server IP migration does not require a daemon restart"
\* (dns_bootstrap.go 217-218): a refresh that is asked for while another is busy
\* is dropped, but as long as there are network changes, and lookups that find
\* what there is, the addresses the service moved to come into use.
LookupsFind == <>[][RefreshNothing => dohEp = srv]_allVars

MovesAreFollowed == []<>netEvent /\ LookupsFind => <>[](dohEp = srv)
=============================================================================
