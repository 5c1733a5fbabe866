------------------------------ MODULE Bootstrap ------------------------------
(***************************************************************************)
(* How the daemon finds the addresses of its DoH server without asking the *)
(* system, which may be asking the daemon (bootstrapLookup.resolve in      *)
(* internal/runtime/dns_bootstrap.go). Public resolvers are asked first,   *)
(* each over UDP and TCP at the same time; then, with what is left of the  *)
(* budget, the resolvers of the network. Time is counted in ticks.         *)
(***************************************************************************)
EXTENDS Integers, FiniteSets

CONSTANTS
  Public,       \* bootstrapResolvers
  Network,      \* what a discovery of the network's resolvers may find
  Loopback,     \* those of Network that are loopback or unspecified addresses
  Budget,       \* ten seconds
  Discovery,    \* the budget of a discovery
  Deadlines     \* what is left of the caller's deadline, at most

ASSUME ServersAssumption ==
  /\ IsFiniteSet(Public) /\ IsFiniteSet(Network)
  /\ Loopback \subseteq Network /\ Public \cap Network = {}
ASSUME TimesAssumption   == Budget \in Nat /\ Discovery \in Nat /\ Deadlines \subseteq Nat

VARIABLES
  total,      \* the time the whole resolution has
  left,       \* what is left of it; 0 when its context is done
  pleft,      \* what is left for the public resolvers
  dleft,      \* what is left for the discovery
  phase,      \* where resolve is
  asked,      \* the exchanges of the lookup under way
  flying,     \* exchanges whose goroutine has not ended, of both lookups
  results,    \* the results in the channel of the lookup under way
  received,   \* how many it has taken from there
  room,       \* the room in the channel of each lookup
  answered,   \* a usable answer was sent in time
  outcome     \* what resolve returns

clock == <<total, left, pleft, dleft>>
chans == <<asked, flying, results, received, room, answered>>
vars  == <<clock, phase, chans, outcome>>

Exchanges == (Public \cup Network) \X {"udp", "tcp"}
Lookups   == {"public", "system"}

\* Who an exchange belongs to.
Lookup(x) == IF x[1] \in Public THEN "public" ELSE "system"

TypeOK ==
  /\ total \in 0 .. Budget /\ left \in 0 .. total
  /\ pleft \in 0 .. total /\ dleft \in 0 .. Discovery
  /\ phase \in {"start", "discover", "done"} \cup Lookups
  /\ asked \subseteq Exchanges /\ flying \subseteq Exchanges
  /\ results \subseteq Exchanges \X {"usable", "unusable"}
  /\ received \in Nat
  /\ room \in [Lookups -> Int]
  /\ answered \in BOOLEAN
  /\ outcome \in {"none", "addresses", "error"}

\* Mutant: nothing is reserved for the network's resolvers.
PublicAll(time) == time

PublicShare(time) == time \div 2

Init ==
  /\ total \in {IF d < Budget THEN d ELSE Budget : d \in Deadlines}
  /\ left = total /\ pleft = PublicShare(total) /\ dleft = 0
  /\ phase = "start"
  /\ asked = {} /\ flying = {} /\ results = {} /\ received = 0
  /\ room = [l \in Lookups |-> 0]
  /\ answered = FALSE /\ outcome = "none"

-----------------------------------------------------------------------------
(* A lookup: many exchanges, the first usable answer.                      *)

InTime == left > 0 /\ (phase = "public" => pleft > 0)

\* Mutant: one result of each server is expected.
CountServers(servers) == Cardinality(servers)

\* Results that are received at most, and the capacity of their channel.
Count(servers) == 2 * Cardinality(servers)

Ask(lookup, servers) ==
  /\ phase' = lookup
  /\ asked' = servers \X {"udp", "tcp"}
  /\ flying' = flying \cup asked'
  /\ room' = [room EXCEPT ![lookup] = Count(servers)]
  /\ results' = {} /\ received' = 0

\* The lookup returns; results that are still in its channel stay there.
Leave(next) ==
  /\ phase' = next
  /\ asked' = {} /\ results' = {} /\ received' = 0

Fail ==
  /\ outcome' = "error"
  /\ Leave("done")
  /\ UNCHANGED <<clock, flying, room, answered>>

\* After the public resolvers it is the turn of the network's.
LookupFails ==
  IF phase # "system" /\ left > 0
    THEN /\ Leave("discover")
         /\ dleft' = IF Discovery < left THEN Discovery ELSE left
         /\ UNCHANGED <<total, left, pleft, flying, room, answered, outcome>>
    ELSE Fail

\* A goroutine sends what its exchange found, ...
Send(x) ==
  /\ x \in flying \cap asked /\ InTime
  /\ room[phase] > 0
  /\ \E r \in {"usable", "unusable"} :
       /\ results' = results \cup {<<x, r>>}
       /\ answered' = (answered \/ r = "usable")
  /\ flying' = flying \ {x}
  /\ room' = [room EXCEPT ![phase] = @ - 1]
  /\ UNCHANGED <<clock, phase, asked, received, outcome>>

\* ... or, once its context is done, an error, which nobody may wait for.
SendLate(x) ==
  /\ x \in flying
  /\ x \in asked => ~InTime
  /\ room[Lookup(x)] > 0
  /\ flying' = flying \ {x}
  /\ results' = IF x \in asked THEN results \cup {<<x, "unusable">>} ELSE results
  /\ room' = [room EXCEPT ![Lookup(x)] = @ - 1]
  /\ UNCHANGED <<clock, phase, asked, received, answered, outcome>>

\* Mutant: the first result decides, usable or not.
ReceiveFirst ==
  /\ phase \in Lookups
  /\ \E res \in results :
       IF res[2] = "usable"
         THEN /\ outcome' = "addresses" /\ Leave("done")
              /\ UNCHANGED <<clock, flying, room, answered>>
         ELSE LookupFails

\* Addresses are returned as soon as there are any; an error only when every
\* exchange has failed.
Receive ==
  /\ phase \in Lookups
  /\ \E res \in results :
       \/ /\ res[2] = "usable"
          /\ outcome' = "addresses" /\ Leave("done")
          /\ UNCHANGED <<clock, flying, room, answered>>
       \/ /\ res[2] = "unusable"
          /\ received + 1 < Count({x[1] : x \in asked})
          /\ results' = results \ {res} /\ received' = received + 1
          /\ room' = [room EXCEPT ![phase] = @ + 1]
          /\ UNCHANGED <<clock, phase, asked, flying, answered, outcome>>
       \/ /\ res[2] = "unusable"
          /\ received + 1 = Count({x[1] : x \in asked})
          /\ LookupFails

\* The context is done: select may prefer it to a result.
Expire ==
  /\ phase \in Lookups /\ ~InTime
  /\ LookupFails

-----------------------------------------------------------------------------
(* resolve.                                                                *)

\* A lookup whose context is done asks nobody.
Start ==
  /\ phase = "start"
  /\ IF left > 0 /\ pleft > 0
       THEN Ask("public", Public) /\ UNCHANGED <<clock, answered, outcome>>
       ELSE LookupFails

\* Loopback addresses are left out: there the daemon would ask itself.
Discover ==
  /\ phase = "discover"
  /\ \E found \in SUBSET Network :
       IF left > 0 /\ found \ Loopback # {}
         THEN Ask("system", found \ Loopback) /\ UNCHANGED <<clock, answered, outcome>>
         ELSE Fail

\* Whoever asked gives up. Then no answer counts.
Cancel ==
  /\ phase # "done" /\ left > 0
  /\ left' = 0
  /\ answered' = FALSE
  /\ UNCHANGED <<total, pleft, dleft, phase, asked, flying, results, received, room, outcome>>

Least(m) == IF m > 0 THEN m - 1 ELSE 0

\* resolve never waits when it could go on.
Tick ==
  /\ left > 0
  /\ \/ phase \in Lookups /\ InTime /\ results = {}
     \/ phase = "discover" /\ dleft > 0
  /\ left' = left - 1 /\ pleft' = Least(pleft) /\ dleft' = Least(dleft)
  /\ UNCHANGED <<total, phase, chans, outcome>>

-----------------------------------------------------------------------------
Resolve == Start \/ Discover \/ Receive \/ Expire

Next ==
  \/ Resolve \/ Cancel \/ Tick
  \/ \E x \in Exchanges : Send(x) \/ SendLate(x)

\* Time passes, resolve goes on, a goroutine whose context is done ends.
Fairness ==
  /\ WF_vars(Tick) /\ WF_vars(Resolve)
  /\ \A x \in Exchanges : WF_vars(SendLate(x))

Spec     == Init /\ [][Next]_vars
FairSpec == Spec /\ Fairness

-----------------------------------------------------------------------------
(* Properties.                                                             *)

\* lookup "returns the first usable answer" (dns_bootstrap.go 76): whatever fails
\* before or after it, and in whatever order results come in, an answer that
\* came in time is not lost.
AnswerCounts == outcome = "error" => ~answered

\* "Reserve half the total budget for system DNS on networks blocking public DNS"
\* (dns_bootstrap.go 45): when the network's resolvers are asked, however the
\* lookup before went, they have half of the time but for the discovery.
HalfIsReserved ==
  [][phase # "system" /\ phase' = "system"
       => left' + Discovery >= total - total \div 2]_vars

\* The channel has room for the result of every goroutine ("count", 80-81), also of
\* one that is late and whose lookup has returned, or is over and has another
\* after it: none finds it full, with nobody left to receive.
NobodyBlocks == \A x \in flying : room[Lookup(x)] > 0

\* resolve returns in time, and no goroutine of a lookup that returned with its
\* first answer is blocked on its result for ever.
EverybodyEnds == <>(phase = "done" /\ flying = {})
=============================================================================
