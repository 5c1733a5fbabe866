------------------------ MODULE RetryResolverProofs ------------------------
(***************************************************************************)
(* What holds of one query for every deadline and every pair of caps.      *)
(***************************************************************************)
EXTENDS RetryResolver, TLAPS

\* After the first attempt two thirds of the time are left.
AfterFirst ==
  /\ pc \in {"copy", "first"} => left = total
  /\ pc = "recover" => 3 * left >= 2 * total

\* An expired answer that was seen is in the copy, or last in the buffer.
Kept ==
  /\ pc \in {"copy", "first"} => out = "none"
  /\ pc \in {"recover", "second", "finish"} => out \in Outcomes
  /\ pc \in {"recover", "second"} => out # "answer"
  /\ pc \in {"recover", "second", "finish"} /\ out = "expired" => buf = "expired"
  /\ pc = "finish" /\ out = "answer" => buf = "answer"

\* The query can be read where it lies until the copy is made; then the copy holds
\* it, whatever the buffer holds.
Preserved ==
  /\ pc = "copy" => payload # "copy" /\ At(payload) = "query"
  /\ pc # "copy" => copy = "query"
  /\ AsksTheQuery

IInv == TypeOK /\ AfterFirst /\ SecondAttemptHasTime /\ Kept
        /\ CachedAnswerSurvives /\ Preserved

\* What is left after spending at most a budget.
LEMMA Spending ==
  ASSUME NEW b \in Nat, left \in Nat, b <= left, Spend(b)
  PROVE  left' \in Nat /\ left' <= left /\ left' >= left - b
BY DEF Spend

\* Neither budget exceeds its share of what is left.
LEMMA Budgets ==
  ASSUME left \in Nat
  PROVE  /\ FirstBudget \in Nat /\ 3 * FirstBudget <= left
         /\ RecoverBudget \in Nat /\ 2 * RecoverBudget <= left
<1>1. left \div 3 \in Nat /\ 3 * (left \div 3) <= left
  OBVIOUS
<1>2. left \div 2 \in Nat /\ 2 * (left \div 2) <= left
  OBVIOUS
<1> QED BY <1>1, <1>2, BudgetAssumption DEF FirstBudget, RecoverBudget, Least

\* IInv is inductive.
THEOREM Inductive == Spec => []IInv
<1>1. Init => IInv
  <2> SUFFICES ASSUME Init PROVE IInv
    OBVIOUS
  <2>1. total \in Nat \ {0} /\ left \in 0 .. total
    BY BudgetAssumption DEF Init
  <2>2. TypeOK
    BY <2>1 DEF Init, TypeOK, Contents, Outcomes
  <2>3. AfterFirst /\ SecondAttemptHasTime
    BY DEF Init, AfterFirst, SecondAttemptHasTime
  <2>4. Kept /\ CachedAnswerSurvives /\ Preserved
    BY DEF Init, Kept, CachedAnswerSurvives, Preserved, At, AsksTheQuery
  <2> QED BY <2>2, <2>3, <2>4 DEF IInv
<1>2. IInv /\ [Next]_vars => IInv'
  <2> SUFFICES ASSUME IInv, [Next]_vars PROVE IInv'
    OBVIOUS
  <2>0. total \in Nat /\ left \in Nat /\ left <= total
    BY BudgetAssumption DEF IInv, TypeOK
  <2> USE DEF IInv, Contents, Outcomes, memory
  <2>6. CASE Copy
    <3>1. copy' = "query"
      BY <2>6 DEF Copy, Preserved
    <3>2. TypeOK'
      BY <2>6, <3>1 DEF Copy, TypeOK
    <3>3. AfterFirst' /\ SecondAttemptHasTime'
      BY <2>6 DEF Copy, AfterFirst, SecondAttemptHasTime
    <3>4. Kept' /\ CachedAnswerSurvives' /\ Preserved'
      BY <2>6, <3>1 DEF Copy, Kept, CachedAnswerSurvives, Preserved, AsksTheQuery
    <3> QED BY <3>2, <3>3, <3>4
  <2>1. CASE First
    <3>1. left' \in 0 .. total /\ 3 * left' >= 2 * total
      BY <2>0, <2>1, Budgets, Spending DEF First, AfterFirst
    <3>2. TypeOK'
      BY <2>1, <3>1 DEF First, Resolve, TypeOK
    <3>3. AfterFirst' /\ SecondAttemptHasTime'
      BY <2>1, <3>1 DEF First, AfterFirst, SecondAttemptHasTime
    <3>4. Kept' /\ CachedAnswerSurvives' /\ Preserved'
      BY <2>1 DEF First, Resolve, Kept, CachedAnswerSurvives, Preserved, AsksTheQuery
    <3> QED BY <3>2, <3>3, <3>4
  <2>2. CASE Recover
    <3>1. left' \in 0 .. total /\ (pc' = "second" => 3 * left' >= total)
      BY <2>0, <2>2, Budgets, Spending DEF Recover, AfterFirst
    <3>2. TypeOK'
      BY <2>2, <3>1 DEF Recover, TypeOK
    <3>3. AfterFirst' /\ SecondAttemptHasTime'
      BY <2>2, <3>1 DEF Recover, AfterFirst, SecondAttemptHasTime
    <3>4. Kept' /\ CachedAnswerSurvives' /\ Preserved'
      BY <2>2 DEF Recover, Kept, CachedAnswerSurvives, Preserved, AsksTheQuery
    <3> QED BY <3>2, <3>3, <3>4
  <2>3. CASE Second
    <3>1. left' \in 0 .. total
      BY <2>0, <2>3, Spending DEF Second
    <3>2. TypeOK'
      <4>1. payload' \in {"buffer", "own", "copy"} /\ asked' \in {"none"} \cup Contents
        BY <2>3 DEF Second, PutBack, At, TypeOK
      <4> QED BY <2>3, <3>1, <4>1 DEF Second, Resolve, TypeOK
    <3>3. AfterFirst' /\ SecondAttemptHasTime'
      BY <2>3 DEF Second, AfterFirst, SecondAttemptHasTime
    <3>4. Kept' /\ CachedAnswerSurvives' /\ Preserved'
      <4>1. pc = "second" /\ pc' = "finish" /\ copy = "query" /\ copy' = copy
        BY <2>3 DEF Second, Preserved
      <4>5. Preserved'
        BY <2>3, <4>1 DEF Second, PutBack, At, Preserved, AsksTheQuery
      <4>2. CASE Alive
        <5>1. PICK o \in Outcomes : Resolve(o)
          BY <2>3, <4>2 DEF Second
        <5>2. out' = o /\ (o # "failure" => buf' = o)
          BY <5>1 DEF Resolve
        <5> QED BY <4>1, <4>5, <5>2 DEF Kept, CachedAnswerSurvives
      <4>3. CASE ~Alive
        <5>1. UNCHANGED <<out, buf>> /\ out # "answer"
          BY <2>3, <4>3, <4>1 DEF Second, Kept
        <5> QED BY <4>1, <4>5, <5>1 DEF Kept, CachedAnswerSurvives
      <4> QED BY <4>1, <4>2, <4>3
    <3> QED BY <3>2, <3>3, <3>4
  <2>4. CASE Finish
    <3>1. TypeOK'
      BY <2>4 DEF Finish, TypeOK
    <3>2. AfterFirst' /\ SecondAttemptHasTime'
      BY <2>4 DEF Finish, AfterFirst, SecondAttemptHasTime
    <3>3. Kept' /\ CachedAnswerSurvives' /\ Preserved'
      <4>1. /\ pc = "finish" /\ pc' = "done" /\ out \in Outcomes
            /\ UNCHANGED <<out, stale, asked, copy>>
        BY <2>4 DEF Finish, Kept
      <4>2. stale \in {"none", "expired"}
        BY DEF TypeOK
      <4>3. CASE out = "failure"
        BY <2>4, <4>1, <4>2, <4>3 DEF Finish, Kept, CachedAnswerSurvives, Preserved, AsksTheQuery
      <4>4. CASE out # "failure"
        <5>1. buf = out /\ result' = buf
          BY <2>4, <4>1, <4>4 DEF Finish, Kept
        <5> QED BY <4>1, <4>4, <5>1 DEF Kept, CachedAnswerSurvives, Preserved, AsksTheQuery
      <4> QED BY <4>3, <4>4
    <3> QED BY <3>1, <3>2, <3>3
  <2>5. CASE Cancel \/ UNCHANGED vars
    <3>1. TypeOK'
      <4>1. UNCHANGED <<total, left, pc, memory, out, stale, asked, result>>
        BY <2>5 DEF Cancel, vars
      <4>2. cancelled' \in BOOLEAN
        BY <2>5 DEF Cancel, vars, TypeOK
      <4> QED BY <4>1, <4>2 DEF TypeOK
    <3>2. AfterFirst' /\ SecondAttemptHasTime'
      BY <2>5 DEF Cancel, vars, AfterFirst, SecondAttemptHasTime
    <3>3. Kept' /\ CachedAnswerSurvives' /\ Preserved'
      <4>1. UNCHANGED <<pc, memory, out, stale, asked, result>>
        BY <2>5 DEF Cancel, vars
      <4> QED BY <4>1 DEF Kept, CachedAnswerSurvives, Preserved, At, AsksTheQuery
    <3> QED BY <3>1, <3>2, <3>3
  <2> QED BY <2>1, <2>2, <2>3, <2>4, <2>5, <2>6 DEF Next
<1> QED BY <1>1, <1>2, PTL DEF Spec

\* Types, and with them that the deadline is kept: left never falls below zero.
THEOREM TypeCorrect == Spec => []TypeOK
<1>1. IInv => TypeOK
  BY DEF IInv
<1> QED BY Inductive, <1>1, PTL

\* A third of the time is reserved for the second attempt, whatever the caps
\* (resolver_retry.go 28, 44).
THEOREM TimeReserved == Spec => []SecondAttemptHasTime
<1>1. IInv => SecondAttemptHasTime
  BY DEF IInv
<1> QED BY Inductive, <1>1, PTL

\* An expired cached answer is never lost (resolver_retry.go 34-57).
THEOREM CachedSurvives == Spec => []CachedAnswerSurvives
<1>1. IInv => CachedAnswerSurvives
  BY DEF IInv
<1> QED BY Inductive, <1>1, PTL

\* The second attempt sends the query itself: the copy is made while the payload
\* is still intact, wherever it lies, and outlives what the first attempt writes
\* into a shared buffer (resolver_retry.go 24-27, 45-46).
THEOREM QueryAsked == Spec => []AsksTheQuery
<1>1. IInv => AsksTheQuery
  BY DEF IInv, Preserved
<1> QED BY Inductive, <1>1, PTL
=============================================================================
