---------------------------- MODULE BootstrapProofs ----------------------------
(***************************************************************************)
(* What holds of the bootstrap lookup for any resolvers, budgets and       *)
(* deadlines, in whatever order answers, errors and the ends of contexts   *)
(* come.                                                                   *)
(***************************************************************************)
EXTENDS Bootstrap, FiniteSetTheorems, TLAPS

\* The goroutines of a lookup that have not sent their result.
Flying(l) == {x \in flying : Lookup(x) = l}

\* Nobody is asked before it is its turn, and who is asked belongs to the lookup
\* under way.
Turns ==
  /\ phase = "start" => flying = {}
  /\ phase \in {"start", "public", "discover"} => Flying("system") = {}
  /\ phase \notin Lookups => asked = {} /\ results = {}
  /\ \A x \in asked : Lookup(x) = phase
  /\ outcome = "none" <=> phase # "done"

\* The channel has room for every result that is still to come.
HasRoom == \A l \in Lookups : Cardinality(Flying(l)) <= room[l]

\* Each exchange is in flight, in the channel or received, and in one place only.
Counted ==
  /\ \A res \in results : res[1] \in asked \ flying
  /\ IsFiniteSet(results)
  /\ phase \in Lookups =>
       received + Cardinality(results) + Cardinality(flying \cap asked)
         = Count({x[1] : x \in asked})

\* An answer that came in time is in the channel until it is returned.
Kept ==
  answered => \/ outcome = "addresses"
              \/ phase \in Lookups /\ InTime /\ \E res \in results : res[2] = "usable"

\* What is left, by how much of the other half is left.
HalfLeft ==
  /\ phase = "start" => pleft = PublicShare(total) /\ left \in {0, total}
  /\ phase = "public" /\ left > 0 => left >= total - PublicShare(total) + pleft
  /\ phase = "discover" /\ left > 0 => left + Discovery >= total - PublicShare(total) + dleft

IInv == TypeOK /\ Turns /\ HasRoom /\ Counted /\ Kept /\ HalfLeft

Transports == {"udp", "tcp"}

-----------------------------------------------------------------------------
(* Counting.                                                               *)

\* A lookup has two exchanges for each server it asks.
LEMMA TwoEach ==
  ASSUME NEW S \in SUBSET (Public \cup Network)
  PROVE  /\ S \X Transports \subseteq Exchanges
         /\ IsFiniteSet(S \X Transports)
         /\ Cardinality(S \X Transports) = Count(S)
         /\ {x[1] : x \in S \X Transports} = S
<1>1. IsFiniteSet(S)
  BY ServersAssumption, FS_Union, FS_Subset
<1>2. IsFiniteSet(Transports) /\ Cardinality(Transports) = 2
  <2>1. IsFiniteSet({"udp"}) /\ Cardinality({"udp"}) = 1 /\ Transports = {"udp"} \cup {"tcp"}
    BY FS_Singleton DEF Transports
  <2> QED BY <2>1, FS_AddElement
<1>3. Cardinality(S) \in Nat
  BY <1>1, FS_CardinalityType
<1>4. IsFiniteSet(S \X Transports) /\ Cardinality(S \X Transports) = Cardinality(S) * 2
  BY <1>1, <1>2, FS_Product
<1>5. {x[1] : x \in S \X Transports} = S
  <2>1. ASSUME NEW s \in S PROVE \E x \in S \X Transports : x[1] = s
    <3>1. <<s, "udp">> \in S \X Transports /\ <<s, "udp">>[1] = s
      BY DEF Transports
    <3> QED BY <3>1
  <2>2. \A x \in S \X Transports : x[1] \in S
    OBVIOUS
  <2> QED BY <2>1, <2>2
<1> QED BY <1>3, <1>4, <1>5 DEF Count, Exchanges, Transports

\* There are finitely many exchanges.
LEMMA FewExchanges ==
  ASSUME NEW E \in SUBSET Exchanges
  PROVE  IsFiniteSet(E) /\ Cardinality(E) \in Nat
<1>1. IsFiniteSet(Exchanges)
  BY TwoEach DEF Exchanges, Transports
<1> QED BY <1>1, FS_Subset, FS_CardinalityType

\* A goroutine that sends its result takes the room it had been given.
LEMMA RoomIsTaken ==
  ASSUME flying \subseteq Exchanges, room \in [Lookups -> Int], HasRoom, NEW x \in flying,
         flying' = flying \ {x}, room' = [room EXCEPT ![Lookup(x)] = @ - 1]
  PROVE  HasRoom'
<1> SUFFICES ASSUME NEW l \in Lookups PROVE Cardinality(Flying(l)') <= room'[l]
  BY DEF HasRoom
<1>1. /\ IsFiniteSet(Flying(l)) /\ Cardinality(Flying(l)) \in Nat
      /\ Cardinality(Flying(l)) <= room[l]
  BY FewExchanges DEF Flying, HasRoom
<1>2. CASE l = Lookup(x)
  <2>1. Flying(l)' = Flying(l) \ {x} /\ x \in Flying(l)
    BY <1>2 DEF Flying, Lookup
  <2>2. Cardinality(Flying(l)') = Cardinality(Flying(l)) - 1
    BY <1>1, <2>1, FS_RemoveElement
  <2>3. room'[l] = room[l] - 1
    BY <1>2
  <2> QED BY <1>1, <2>2, <2>3
<1>3. CASE l # Lookup(x)
  <2>1. Flying(l)' = Flying(l)
    BY <1>3 DEF Flying, Lookup
  <2>2. room'[l] = room[l]
    BY <1>3
  <2> QED BY <1>1, <2>1, <2>2
<1> QED BY <1>2, <1>3

\* An exchange under way moves from those in flight to the channel.
LEMMA MovesToChannel ==
  ASSUME asked \subseteq Exchanges, Counted, NEW x \in flying \cap asked, NEW r,
         results' = results \cup {<<x, r>>}, flying' = flying \ {x},
         received \in Nat, UNCHANGED <<phase, asked, received>>
  PROVE  Counted'
<1>1. /\ IsFiniteSet(results) /\ Cardinality(results) \in Nat
      /\ IsFiniteSet(flying \cap asked) /\ Cardinality(flying \cap asked) \in Nat
  BY FewExchanges, FS_CardinalityType DEF Counted
<1>2. <<x, r>> \notin results
  BY DEF Counted
<1>3. IsFiniteSet(results') /\ Cardinality(results') = Cardinality(results) + 1
  BY <1>1, <1>2, FS_AddElement
<1>4. flying' \cap asked' = (flying \cap asked) \ {x}
  OBVIOUS
<1>5. Cardinality(flying' \cap asked') = Cardinality(flying \cap asked) - 1
  <2>1. \A E : IsFiniteSet(E) /\ x \in E => Cardinality(E \ {x}) = Cardinality(E) - 1
    BY FS_RemoveElement
  <2>2. Cardinality((flying \cap asked) \ {x}) = Cardinality(flying \cap asked) - 1
    BY <1>1, <2>1
  <2> QED BY <1>4, <2>2
<1>6. \A res \in results' : res[1] \in asked' \ flying'
  BY DEF Counted
<1> QED BY <1>1, <1>3, <1>5, <1>6 DEF Counted

\* A half is a part of the whole.
LEMMA ShareFits ==
  ASSUME NEW time \in Nat PROVE PublicShare(time) \in 0 .. time
BY DEF PublicShare

-----------------------------------------------------------------------------
(* The steps.                                                              *)

\* lookup asks its servers: nothing has come, everything is in flight.
LEMMA AskKeeps ==
  ASSUME IInv, NEW l \in Lookups, NEW S \in SUBSET (Public \cup Network), Ask(l, S),
         \A x \in S \X Transports : Lookup(x) = l,
         phase = IF l = "public" THEN "start" ELSE "discover",
         UNCHANGED <<clock, answered, outcome>>
  PROVE  IInv'
<1> USE DEF IInv, clock
<1>1. /\ asked' = S \X Transports /\ flying' = flying \cup asked' /\ results' = {} /\ received' = 0
      /\ phase' = l /\ room' = [room EXCEPT ![l] = Count(S)]
  BY DEF Ask, Transports
<1>2. /\ asked' \subseteq Exchanges /\ IsFiniteSet(asked') /\ Cardinality(asked') = Count(S)
      /\ {x[1] : x \in asked'} = S /\ Count(S) \in Nat
  BY <1>1, TwoEach, FewExchanges
<1>3. Flying(l) = {}
  BY DEF Turns, Flying, Lookups
<1>4. TypeOK'
  BY <1>1, <1>2 DEF TypeOK, Lookups
<1>5. Turns'
  BY <1>1 DEF Turns, Flying, Lookups, Lookup
<1>6. HasRoom'
  <2> SUFFICES ASSUME NEW k \in Lookups PROVE Cardinality(Flying(k)') <= room'[k]
    BY DEF HasRoom
  <2>1. CASE k = l
    <3>1. Flying(k)' = asked'
      BY <1>1, <1>3, <2>1 DEF Flying, Lookup
    <3>2. room'[k] = Count(S)
      BY <1>1, <2>1 DEF TypeOK
    <3> QED BY <1>2, <3>1, <3>2
  <2>2. CASE k # l
    <3>1. Flying(k)' = Flying(k)
      BY <1>1, <2>2 DEF Flying, Lookup
    <3>2. room'[k] = room[k]
      BY <1>1, <2>2 DEF TypeOK
    <3> QED BY <3>1, <3>2 DEF HasRoom
  <2> QED BY <2>1, <2>2
<1>7. Counted'
  <2>1. flying' \cap asked' = asked'
    BY <1>1
  <2>2. IsFiniteSet(results') /\ Cardinality(results') = 0
    BY <1>1, FS_EmptySet
  <2>3. Count({x[1] : x \in asked'}) = Count(S) /\ Cardinality(flying' \cap asked') = Count(S)
    BY <1>2, <2>1
  <2>4. received' + Cardinality(results') + Cardinality(flying' \cap asked')
          = Count({x[1] : x \in asked'})
    <3> HIDE DEF Count
    <3>1. received' = 0 /\ Count(S) \in Nat
      BY <1>1, <1>2
    <3> QED BY <2>2, <2>3, <3>1
  <2> QED BY <1>1, <2>2, <2>4 DEF Counted
<1>8. Kept'
  <2>1. phase \notin Lookups /\ outcome = "none"
    BY DEF Turns, Lookups
  <2> QED BY <2>1 DEF Kept
<1>9. HalfLeft'
  <2> USE <1>1 DEF HalfLeft
  <2>1. CASE l = "public"
    <3>1. /\ phase' = "public" /\ left' = left /\ pleft' = pleft /\ total' = total
          /\ left \in {0, total} /\ pleft = PublicShare(total) /\ total \in Nat
      BY <2>1 DEF TypeOK
    <3>2. total >= total - PublicShare(total) + PublicShare(total)
      BY <3>1, ShareFits
    <3> QED BY <3>1, <3>2
  <2>2. CASE l # "public"
    BY <2>2 DEF Lookups
  <2> QED BY <2>1, <2>2
<1> QED BY <1>4, <1>5, <1>6, <1>7, <1>8, <1>9

\* A lookup that fails has lost no answer; resolve goes on to the network's
\* resolvers or ends.
LEMMA FailKeeps ==
  ASSUME IInv, ~answered,
         \/ phase \in {"start"} \cup Lookups /\ LookupFails
         \/ phase = "discover" /\ Fail
  PROVE  IInv'
<1> USE DEF IInv, clock
<1>1. /\ phase' \in {"discover", "done"} /\ asked' = {} /\ results' = {} /\ received' = 0
      /\ phase' = "done" => outcome' = "error" /\ UNCHANGED <<left, dleft>>
      /\ phase' = "discover" =>
           /\ outcome' = outcome /\ phase # "system" /\ left > 0
           /\ left' = left /\ dleft' = IF Discovery < left THEN Discovery ELSE left
      /\ UNCHANGED <<total, pleft, flying, room, answered>>
  BY DEF LookupFails, Fail, Leave
<1>2. phase' \notin Lookups
  BY <1>1 DEF Lookups
<1>3. TypeOK'
  BY <1>1, TimesAssumption DEF TypeOK
<1>4. Turns'
  BY <1>1, <1>2 DEF Turns, Flying, Lookups, TypeOK
<1>5. HasRoom'
  BY <1>1 DEF HasRoom, Flying
<1>6. Counted'
  BY <1>1, <1>2, FS_EmptySet DEF Counted
<1>7. Kept'
  BY <1>1 DEF Kept
<1>8. HalfLeft'
  <2>1. CASE phase' = "discover"
    <3>1. phase \in {"start", "public"}
      BY <1>1, <2>1 DEF Fail, Leave, Lookups
    <3>2. dleft' \in Nat /\ dleft' <= Discovery
      BY <1>1, <2>1, TimesAssumption DEF TypeOK
    <3>3. /\ total \in Nat /\ PublicShare(total) \in 0 .. total /\ UNCHANGED total
          /\ left \in Nat /\ left > 0 /\ left' = left /\ pleft \in Nat
      BY <1>1, <2>1, ShareFits DEF TypeOK
    <3>4. left >= total - PublicShare(total)
      <4> HIDE DEF PublicShare
      <4>1. CASE phase = "start"
        BY <3>3, <4>1 DEF HalfLeft
      <4>2. CASE phase = "public"
        BY <3>3, <4>2 DEF HalfLeft
      <4> QED BY <3>1, <4>1, <4>2
    <3> QED BY <2>1, <3>2, <3>3, <3>4, TimesAssumption DEF HalfLeft
  <2>2. CASE phase' = "done"
    BY <2>2 DEF HalfLeft
  <2> QED BY <1>1, <2>1, <2>2
<1> QED BY <1>3, <1>4, <1>5, <1>6, <1>7, <1>8

\* A result arrives in the channel, from the lookup under way or, of no interest
\* any more, from the one before.
LEMMA SendKeeps ==
  ASSUME IInv, NEW x \in flying, Send(x) \/ SendLate(x)
  PROVE  IInv'
<1> USE DEF IInv, clock
<1>1. /\ flying' = flying \ {x} /\ room' = [room EXCEPT ![Lookup(x)] = @ - 1]
      /\ UNCHANGED <<total, left, pleft, dleft, phase, asked, received, outcome>>
      /\ x \in asked => phase \in Lookups /\ Lookup(x) = phase
  BY DEF Send, SendLate, Turns
<1>2. \/ x \notin asked /\ UNCHANGED <<results, answered>>
      \/ /\ x \in asked
         /\ \E r \in {"usable", "unusable"} :
              /\ results' = results \cup {<<x, r>>}
              /\ \/ answered' = answered
                 \/ InTime /\ r = "usable" /\ answered' = TRUE
  <2>1. CASE Send(x)
    <3>1. PICK r \in {"usable", "unusable"} :
            /\ results' = results \cup {<<x, r>>}
            /\ answered' = (answered \/ r = "usable")
      BY <2>1 DEF Send
    <3>2. answered' = answered \/ (r = "usable" /\ answered' = TRUE)
      BY <3>1 DEF TypeOK
    <3> QED BY <2>1, <3>1, <3>2 DEF Send
  <2>2. CASE SendLate(x)
    BY <2>2 DEF SendLate
  <2> QED BY <2>1, <2>2
<1>3. TypeOK'
  <2>1. Lookup(x) \in Lookups /\ room' \in [Lookups -> Int]
    BY <1>1 DEF TypeOK, Lookup, Lookups
  <2>2. results' \subseteq Exchanges \X {"usable", "unusable"}
    <3>1. x \in Exchanges /\ \A r \in {"usable", "unusable"} :
            <<x, r>> \in Exchanges \X {"usable", "unusable"}
      BY DEF TypeOK
    <3> QED BY <1>2, <3>1 DEF TypeOK
  <2>3. answered' \in BOOLEAN
    BY <1>2 DEF TypeOK
  <2> QED BY <1>1, <2>1, <2>2, <2>3 DEF TypeOK
<1>4. Turns'
  BY <1>1, <1>2 DEF Turns, Flying
<1>5. HasRoom'
  BY <1>1, RoomIsTaken DEF TypeOK
<1>6. Counted'
  <2>1. CASE x \in asked
    BY <1>1, <1>2, <2>1, MovesToChannel DEF TypeOK
  <2>2. CASE x \notin asked
    <3>1. flying' \cap asked' = flying \cap asked
      BY <1>1, <2>2
    <3> QED BY <1>1, <1>2, <2>2, <3>1 DEF Counted
  <2> QED BY <2>1, <2>2
<1>7. Kept'
  <2>1. CASE answered' = answered
    BY <1>1, <1>2, <2>1 DEF Kept, InTime
  <2>2. CASE answered' # answered
    <3>1. x \in asked /\ InTime /\ <<x, "usable">> \in results'
      BY <1>2, <2>2 DEF TypeOK
    <3> QED BY <1>1, <3>1 DEF Kept, InTime
  <2> QED BY <2>1, <2>2
<1>8. HalfLeft'
  BY <1>1 DEF HalfLeft
<1> QED BY <1>3, <1>4, <1>5, <1>6, <1>7, <1>8

\* lookup receives a result: addresses are returned, an error is the last one or
\* is put aside.
LEMMA ReceiveKeeps ==
  ASSUME IInv, Receive PROVE IInv'
<1> USE DEF IInv, clock
<1>1. phase \in Lookups /\ outcome = "none"
  BY DEF Receive, Turns, Lookups
<1>2. PICK res \in results :
       \/ /\ res[2] = "usable"
          /\ outcome' = "addresses" /\ Leave("done")
          /\ UNCHANGED <<clock, flying, room, answered>>
       \/ /\ res[2] = "unusable"
          /\ received + 1 < Count({x[1] : x \in asked})
          /\ results' = results \ {res} /\ received' = received + 1
          /\ room' = [room EXCEPT ![phase] = @ + 1]
          /\ UNCHANGED <<clock, phase, asked, flying, answered, outcome>>
       \/ /\ res[2] = "unusable"
          /\ received + 1 = Count({x[1] : x \in asked})
          /\ LookupFails
  BY DEF Receive
<1>3. /\ IsFiniteSet(results) /\ Cardinality(results) \in Nat
      /\ Cardinality(flying \cap asked) \in Nat
      /\ received + Cardinality(results) + Cardinality(flying \cap asked)
           = Count({x[1] : x \in asked})
  BY <1>1, FewExchanges, FS_CardinalityType DEF Counted, TypeOK
<1>4. CASE res[2] = "usable"
  <2>1. /\ outcome' = "addresses" /\ phase' = "done" /\ asked' = {} /\ results' = {}
        /\ received' = 0
        /\ UNCHANGED <<total, left, pleft, dleft, flying, room, answered>>
    BY <1>2, <1>4 DEF Leave
  <2>2. TypeOK'
    BY <2>1 DEF TypeOK
  <2>3. Turns' /\ HalfLeft' /\ Kept'
    BY <2>1 DEF Turns, HalfLeft, Kept, Lookups
  <2>4. HasRoom'
    BY <2>1 DEF HasRoom, Flying
  <2>5. Counted'
    BY <2>1, FS_EmptySet DEF Counted, Lookups
  <2> QED BY <2>2, <2>3, <2>4, <2>5
<1>5. CASE res[2] = "unusable" /\ received + 1 < Count({x[1] : x \in asked})
  <2>1. /\ results' = results \ {res} /\ received' = received + 1
        /\ room' = [room EXCEPT ![phase] = @ + 1]
        /\ UNCHANGED <<total, left, pleft, dleft, phase, asked, flying, answered, outcome>>
    <3> HIDE DEF Count
    <3> QED BY <1>2, <1>3, <1>5 DEF TypeOK
  <2>2. TypeOK'
    <3>1. room' \in [Lookups -> Int]
      <4>1. room \in [Lookups -> Int] /\ room[phase] + 1 \in Int
        BY <1>1 DEF TypeOK
      <4> QED BY <2>1, <4>1
    <3>2. received' \in Nat
      BY <2>1 DEF TypeOK
    <3>3. results' \subseteq Exchanges \X {"usable", "unusable"}
      BY <2>1 DEF TypeOK
    <3> QED BY <2>1, <3>1, <3>2, <3>3 DEF TypeOK
  <2>3. Turns' /\ HalfLeft'
    BY <2>1 DEF Turns, HalfLeft, Flying
  <2>4. Kept'
    BY <1>5, <2>1 DEF Kept, InTime
  <2>5. HasRoom'
    <3> SUFFICES ASSUME NEW l \in Lookups PROVE Cardinality(Flying(l)') <= room'[l]
      BY DEF HasRoom
    <3>1. Flying(l)' = Flying(l) /\ Cardinality(Flying(l)) \in Nat
          /\ Cardinality(Flying(l)) <= room[l]
      BY <2>1, FewExchanges DEF Flying, TypeOK, HasRoom
    <3>2. room'[l] >= room[l] /\ room[l] \in Int /\ room'[l] \in Int
      BY <2>1 DEF TypeOK
    <3> QED BY <3>1, <3>2
  <2>6. Counted'
    <3>1. IsFiniteSet(results') /\ Cardinality(results') = Cardinality(results) - 1
      BY <1>3, <2>1, FS_RemoveElement
    <3>2. received' + Cardinality(results') + Cardinality(flying' \cap asked')
            = Count({x[1] : x \in asked'})
      <4> HIDE DEF Count
      <4> QED BY <1>3, <2>1, <3>1 DEF TypeOK
    <3> QED BY <2>1, <3>1, <3>2 DEF Counted
  <2> QED BY <2>2, <2>3, <2>4, <2>5, <2>6
<1>6. CASE res[2] = "unusable" /\ received + 1 = Count({x[1] : x \in asked})
  <2>1. Cardinality(results) = 1
    <3>1. Cardinality(results) # 0
      BY <1>3, FS_EmptySet
    <3> HIDE DEF Count
    <3> QED BY <1>3, <1>6, <3>1 DEF TypeOK
  <2>2. results = {res}
    BY <1>3, <2>1, FS_Singleton
  <2>3. ~answered
    BY <1>1, <1>6, <2>2 DEF Kept
  <2>4. LookupFails
    <3> HIDE DEF Count
    <3> QED BY <1>2, <1>3, <1>6 DEF TypeOK
  <2> QED BY <1>1, <2>3, <2>4, FailKeeps
<1> QED BY <1>2, <1>4, <1>5, <1>6

\* The other steps of resolve.
LEMMA ResolveKeeps ==
  ASSUME IInv, Start \/ Discover \/ Expire PROVE IInv'
<1> USE DEF IInv
<1>1. CASE Expire
  <2>1. phase \in Lookups /\ ~answered /\ LookupFails
    BY <1>1 DEF Expire, Kept, Turns, Lookups
  <2> QED BY <2>1, FailKeeps
<1>2. CASE Start
  <2>1. phase = "start" /\ ~answered
    BY <1>2 DEF Start, Kept, Turns, Lookups
  <2>2. CASE left > 0 /\ pleft > 0
    <3>1. Ask("public", Public) /\ UNCHANGED <<clock, answered, outcome>>
      BY <1>2, <2>2 DEF Start
    <3>2. \A x \in Public \X Transports : Lookup(x) = "public"
      BY DEF Lookup
    <3>3. "public" \in Lookups /\ Public \in SUBSET (Public \cup Network)
      BY DEF Lookups
    <3> QED BY <2>1, <3>1, <3>2, <3>3, AskKeeps
  <2>3. CASE ~(left > 0 /\ pleft > 0)
    BY <1>2, <2>1, <2>3, FailKeeps DEF Start
  <2> QED BY <2>2, <2>3
<1>3. CASE Discover
  <2>1. phase = "discover" /\ ~answered
    BY <1>3 DEF Discover, Kept, Turns, Lookups
  <2>2. PICK found \in SUBSET Network :
          IF left > 0 /\ found \ Loopback # {}
            THEN Ask("system", found \ Loopback) /\ UNCHANGED <<clock, answered, outcome>>
            ELSE Fail
    BY <1>3 DEF Discover
  <2>3. CASE left > 0 /\ found \ Loopback # {}
    <3>1. Ask("system", found \ Loopback) /\ UNCHANGED <<clock, answered, outcome>>
      BY <2>2, <2>3
    <3>2. \A x \in (found \ Loopback) \X Transports : Lookup(x) = "system"
      BY ServersAssumption DEF Lookup
    <3>3. "system" \in Lookups /\ found \ Loopback \in SUBSET (Public \cup Network)
      BY DEF Lookups
    <3> QED BY <2>1, <3>1, <3>2, <3>3, AskKeeps
  <2>4. CASE ~(left > 0 /\ found \ Loopback # {})
    BY <2>1, <2>2, <2>4, FailKeeps
  <2> QED BY <2>3, <2>4
<1> QED BY <1>1, <1>2, <1>3

\* Whoever asked gives up, or time passes.
LEMMA TimeKeeps ==
  ASSUME IInv, Cancel \/ Tick PROVE IInv'
<1> USE DEF IInv
<1>1. CASE Cancel
  <2>1. /\ left' = 0 /\ answered' = FALSE
        /\ UNCHANGED <<total, pleft, dleft, phase, asked, flying, results, received, room, outcome>>
    BY <1>1 DEF Cancel
  <2>2. TypeOK'
    <3>1. left' \in 0 .. total'
      BY <2>1, TimesAssumption DEF TypeOK
    <3>2. answered' \in BOOLEAN
      BY <2>1
    <3> QED BY <2>1, <3>1, <3>2 DEF TypeOK
  <2>3. Turns' /\ HasRoom' /\ Kept'
    BY <2>1 DEF Turns, HasRoom, Flying, Kept
  <2>4. Counted'
    BY <2>1 DEF Counted
  <2>5. HalfLeft'
    BY <2>1 DEF HalfLeft
  <2> QED BY <2>2, <2>3, <2>4, <2>5
<1>2. CASE Tick
  <2>1. /\ left > 0 /\ left' = left - 1 /\ pleft' = Least(pleft) /\ dleft' = Least(dleft)
        /\ UNCHANGED <<total, phase, asked, flying, results, received, room, answered, outcome>>
        /\ \/ phase \in Lookups /\ InTime /\ results = {}
           \/ phase = "discover" /\ dleft > 0
    BY <1>2 DEF Tick, chans
  <2>2. TypeOK'
    BY <2>1, TimesAssumption DEF TypeOK, Least
  <2>3. Turns' /\ HasRoom'
    BY <2>1 DEF Turns, HasRoom, Flying
  <2>4. Counted'
    BY <2>1 DEF Counted
  <2>5. Kept'
    BY <2>1 DEF Kept, Turns, Lookups
  <2>6. HalfLeft'
    <3>1. PublicShare(total) \in 0 .. total /\ total \in Nat
      BY ShareFits DEF TypeOK
    <3>2. phase # "start" /\ left \in Nat /\ pleft \in Nat /\ dleft \in Nat /\ Discovery \in Nat
      BY <2>1, TimesAssumption DEF Lookups, TypeOK
    <3>3. CASE phase = "public"
      <4>1. pleft > 0 /\ pleft' = pleft - 1
        BY <2>1, <3>2, <3>3 DEF InTime, Least
      <4> QED BY <2>1, <3>1, <3>2, <3>3, <4>1 DEF HalfLeft
    <3>4. CASE phase = "discover"
      <4>1. dleft > 0 /\ dleft' = dleft - 1
        BY <2>1, <3>2, <3>4 DEF Lookups, Least
      <4> QED BY <2>1, <3>1, <3>2, <3>4, <4>1 DEF HalfLeft
    <3>5. CASE phase \notin {"start", "public", "discover"}
      BY <2>1, <3>5 DEF HalfLeft
    <3> QED BY <3>2, <3>3, <3>4, <3>5
  <2> QED BY <2>2, <2>3, <2>4, <2>5, <2>6
<1> QED BY <1>1, <1>2

-----------------------------------------------------------------------------
(* The theorems.                                                           *)

\* The inductive invariant of the lookup: every result is somewhere, and there is
\* room for it where it is going.
THEOREM Inductive == Spec => []IInv
<1>1. Init => IInv
  <2> SUFFICES ASSUME Init PROVE IInv
    OBVIOUS
  <2>1. total \in Nat /\ total <= Budget
    BY TimesAssumption DEF Init
  <2>2. PublicShare(total) \in 0 .. total
    BY <2>1, ShareFits
  <2>3. TypeOK
    <3>1. total \in 0 .. Budget /\ left \in 0 .. total /\ pleft \in 0 .. total
      BY <2>1, <2>2, TimesAssumption DEF Init
    <3>2. dleft \in 0 .. Discovery /\ received \in Nat /\ room \in [Lookups -> Int]
      BY TimesAssumption DEF Init
    <3>3. phase \in {"start", "discover", "done"} \cup Lookups /\ answered \in BOOLEAN
          /\ outcome \in {"none", "addresses", "error"}
          /\ asked \subseteq Exchanges /\ flying \subseteq Exchanges
          /\ results \subseteq Exchanges \X {"usable", "unusable"}
      BY DEF Init
    <3> QED BY <3>1, <3>2, <3>3 DEF TypeOK
  <2>4. Turns /\ Kept /\ HalfLeft
    BY DEF Init, Turns, Kept, HalfLeft, Flying, Lookups
  <2>5. HasRoom
    <3>1. \A l \in Lookups : Flying(l) = {} /\ room[l] = 0
      BY DEF Init, Flying
    <3> QED BY <3>1, FS_EmptySet DEF HasRoom
  <2>6. Counted
    BY FS_EmptySet DEF Init, Counted, Lookups
  <2> QED BY <2>3, <2>4, <2>5, <2>6 DEF IInv
<1>2. IInv /\ [Next]_vars => IInv'
  <2> SUFFICES ASSUME IInv, [Next]_vars PROVE IInv'
    OBVIOUS
  <2>1. CASE UNCHANGED vars
    <3>1. TypeOK' /\ Turns' /\ HasRoom' /\ Kept' /\ HalfLeft'
      BY <2>1 DEF vars, clock, chans, IInv, TypeOK, Turns, HasRoom, Flying, Kept, InTime, HalfLeft
    <3>2. Counted'
      BY <2>1 DEF vars, chans, IInv, Counted
    <3> QED BY <3>1, <3>2 DEF IInv
  <2>2. ASSUME NEW x \in Exchanges, Send(x) \/ SendLate(x) PROVE IInv'
    BY <2>2, SendKeeps DEF Send, SendLate
  <2> QED BY <2>1, <2>2, ReceiveKeeps, ResolveKeeps, TimeKeeps DEF Next, Resolve
<1> QED BY <1>1, <1>2, PTL DEF Spec

\* The types of the lookup's state (dns_bootstrap.go 40-115).
THEOREM TypeCorrect == Spec => []TypeOK
<1>1. IInv => TypeOK
  BY DEF IInv
<1> QED BY <1>1, Inductive, PTL

\* An answer that came in time is never lost to errors, whatever their number
\* and order (dns_bootstrap.go 76, 96-113).
THEOREM NoAnswerLost == Spec => []AnswerCounts
<1>1. IInv => AnswerCounts
  BY DEF IInv, Kept, Turns, AnswerCounts, Lookups
<1> QED BY <1>1, Inductive, PTL

\* No goroutine ever finds the channel full, in which case it would never end:
\* a lookup that returned with its first answer receives no more
\* (dns_bootstrap.go 81-94).
THEOREM ChannelHasRoom == Spec => []NobodyBlocks
<1>1. IInv => NobodyBlocks
  <2> SUFFICES ASSUME IInv, NEW x \in flying PROVE room[Lookup(x)] > 0
    BY DEF NobodyBlocks
  <2> DEFINE F == Flying(Lookup(x))
  <2>1. x \in F /\ F \subseteq Exchanges /\ Lookup(x) \in Lookups
    BY DEF Flying, Lookup, Lookups, IInv, TypeOK
  <2>2. IsFiniteSet(F) /\ Cardinality(F) \in Nat /\ Cardinality(F) # 0
    BY <2>1, FewExchanges, FS_EmptySet
  <2>3. Cardinality(F) <= room[Lookup(x)] /\ room[Lookup(x)] \in Int
    BY <2>1 DEF IInv, HasRoom, TypeOK
  <2> QED BY <2>2, <2>3
<1> QED BY <1>1, Inductive, PTL

\* The network's resolvers get the half of the time that was reserved, but for
\* the discovery, however the public ones failed (dns_bootstrap.go 45-50).
THEOREM HalfIsLeft == Spec => HalfIsReserved
<1>1. IInv /\ [Next]_vars =>
        [phase # "system" /\ phase' = "system"
           => left' + Discovery >= total - total \div 2]_vars
  <2> SUFFICES ASSUME IInv, Next, phase # "system", phase' = "system"
               PROVE  left' + Discovery >= total - total \div 2
    OBVIOUS
  <2>1. Discover
    BY DEF Next, Resolve, Start, Receive, Expire, Ask, LookupFails, Fail, Leave, Cancel, Tick, chans,
           Send, SendLate
  <2>2. phase = "discover" /\ left > 0 /\ left' = left
    BY <2>1 DEF Discover, Fail, Leave, clock
  <2> QED BY <2>2, TimesAssumption DEF IInv, HalfLeft, TypeOK, PublicShare
<1> QED BY <1>1, Inductive, PTL DEF Spec, HalfIsReserved
=============================================================================
