---------------------------- MODULE RetryResolver ----------------------------
(***************************************************************************)
(* One DNS query in retryResolver.Resolve (internal/runtime/               *)
(* resolver_retry.go): a first attempt on part of the time, a recovery of  *)
(* the upstream endpoints, a second attempt on what is left, and the       *)
(* expired cached answer if all else failed. The query's payload and the   *)
(* buffer for the answer may be the same memory, so that the payload is    *)
(* copied first and the copy sent the second time.                         *)
(***************************************************************************)
EXTENDS Naturals

CONSTANTS
  Deadlines,     \* the time a query may have, at most queryTimeout (5s)
  FirstCap,      \* the most the first attempt may take (1.5s)
  RecoverCap     \* the most the recovery may take (2s)

ASSUME BudgetAssumption ==
  Deadlines \subseteq Nat \ {0} /\ FirstCap \in Nat /\ RecoverCap \in Nat

VARIABLES
  total,      \* the time this query has
  left,       \* what is left of it
  cancelled,  \* the client has gone
  pc,
  buf,        \* what the buffer for the answer holds
  payload,    \* where q.Payload lies: "buffer", memory of its "own", "copy"
  copy,       \* what the copy of the payload holds, "none" before it is made
  out,        \* what the last attempt returned
  stale,      \* the copy of an expired cached answer, or "none"
  asked,      \* what the second attempt sent
  result      \* what Resolve returned to the proxy

memory == <<buf, payload, copy>>
vars   == <<total, left, cancelled, pc, memory, out, stale, asked, result>>

Contents == {"query", "answer", "expired", "garbage"}
Outcomes == {"answer", "expired", "failure"}

TypeOK ==
  /\ total \in Deadlines /\ left \in 0 .. total
  /\ cancelled \in BOOLEAN
  /\ pc \in {"copy", "first", "recover", "second", "finish", "done"}
  /\ buf \in Contents /\ copy \in {"none"} \cup Contents
  /\ payload \in {"buffer", "own", "copy"}
  /\ out \in Outcomes \cup {"none"}
  /\ stale \in {"none", "expired"}
  /\ asked \in {"none"} \cup Contents
  /\ result \in {"none", "error"} \cup Contents

Init ==
  /\ total \in Deadlines /\ left = total /\ cancelled = FALSE
  /\ payload \in {"buffer", "own"} /\ copy = "none"
  /\ buf = IF payload = "buffer" THEN "query" ELSE "garbage"
  /\ pc = "copy" /\ out = "none" /\ stale = "none"
  /\ asked = "none" /\ result = "none"

Least(a, b) == IF a <= b THEN a ELSE b

Alive == left > 0 /\ ~cancelled

\* What q.Payload reads when it lies at m; nobody writes to memory of its own.
At(m) == CASE m = "buffer" -> buf [] m = "copy" -> copy [] m = "own" -> "query"

Spend(budget) == left' \in (left - budget) .. left

\* The inner resolver: an answer, an error with an expired cached answer in the
\* buffer, or an error that may have left anything there.
Resolve(o) ==
  /\ out' = o
  /\ buf' \in IF o = "failure" THEN {buf, "garbage"} ELSE {o}

Copy ==
  /\ pc = "copy"
  /\ pc' = "first"
  /\ copy' = At(payload)
  /\ UNCHANGED <<total, left, cancelled, buf, payload, out, stale, asked, result>>

\* Mutant: the first attempt is bounded by its cap alone.
FirstBudgetCapped == Least(FirstCap, left)

FirstBudget == Least(FirstCap, left \div 3)

First ==
  /\ pc = "first"
  /\ Spend(FirstBudget)
  /\ \E o \in Outcomes :
       /\ Resolve(o)
       /\ stale' = IF o = "expired" THEN buf' ELSE stale
       /\ pc' = IF o = "answer" THEN "finish" ELSE "recover"
  /\ UNCHANGED <<total, cancelled, payload, copy, asked, result>>

RecoverBudget == Least(RecoverCap, left \div 2)

\* The outcome of the recovery is ignored.
Recover ==
  /\ pc = "recover"
  /\ IF Alive THEN Spend(RecoverBudget) /\ pc' = "second"
              ELSE pc' = "finish" /\ UNCHANGED left
  /\ UNCHANGED <<total, cancelled, memory, out, stale, asked, result>>

\* Mutant: the payload is left where it was.
NotPutBack == payload' = payload

PutBack == payload' = "copy"

\* The copy is put back into the query, which is sent again.
Second ==
  /\ pc = "second"
  /\ pc' = "finish"
  /\ IF Alive
       THEN /\ Spend(left)
            /\ PutBack
            /\ asked' = At(payload')
            /\ \E o \in Outcomes : Resolve(o)
       ELSE UNCHANGED <<left, payload, asked, out, buf>>
  /\ UNCHANGED <<total, cancelled, copy, stale, result>>

\* Mutant: the cached answer of the first attempt is not copied back.
FinishShared ==
  /\ pc = "finish"
  /\ pc' = "done"
  /\ result' = IF out = "failure" /\ stale = "none" THEN "error" ELSE buf
  /\ UNCHANGED <<total, left, cancelled, memory, out, stale, asked>>

\* An expired answer of the last attempt is in the buffer; one of the first is
\* copied back.
Finish ==
  /\ pc = "finish"
  /\ pc' = "done"
  /\ IF out = "failure" /\ stale # "none"
       THEN buf' = stale /\ result' = stale
       ELSE /\ result' = IF out = "failure" THEN "error" ELSE buf
            /\ UNCHANGED buf
  /\ UNCHANGED <<total, left, cancelled, payload, copy, out, stale, asked>>

Cancel ==
  /\ pc # "done" /\ ~cancelled
  /\ cancelled' = TRUE
  /\ UNCHANGED <<total, left, pc, memory, out, stale, asked, result>>

Next == Copy \/ First \/ Recover \/ Second \/ Finish \/ Cancel

Spec == Init /\ [][Next]_vars

-----------------------------------------------------------------------------
(* Properties.                                                             *)

\* Time is reserved "for recovery and a second attempt within one deadline"
\* (13-14): however long the first attempt and the recovery take, a third of the
\* time is left when the second attempt begins, and the deadline is kept.
SecondAttemptHasTime == pc = "second" => 3 * left >= total

\* "An expired cached answer survives even if the fallback has no cache" (14):
\* once an attempt has seen one, the client gets an answer, intact, and not an
\* error, whatever the later attempt did to the buffer and even if time ran out.
CachedAnswerSurvives ==
  pc = "done" /\ "expired" \in {stale, out} => result \in {"answer", "expired"}

\* The second attempt sends the query: the copy was made before anything could
\* be written over the payload in a shared buffer, nothing was written over the
\* copy since, and it is the copy that is sent (24-27, 45-46).
AsksTheQuery == asked \in {"none", "query"}
=============================================================================
