--------------------------- MODULE CheckedRunProofs ---------------------------
(***************************************************************************)
(* First Router alone: the failover order, the records and the refinement  *)
(* of FailoverPromise for any number of calls, adapters and attempts.      *)
(*                                                                         *)
(* Then a run and its router: they compose for any number of leaves,       *)
(* providers, attempts and rules; each half is the module that models it   *)
(* alone, so what is proved of Router holds of the composition, and the    *)
(* two agree on every leaf.                                                *)
(***************************************************************************)
EXTENDS CheckedRun, FiniteSetTheorems, TLAPS

\* attempt_num counts the failures of the adapter in turn.
AttemptCounts ==
    \A c \in Call :
        /\ pc[c] = "new" => adapter[c] = 1 /\ failures[c][1] = 0
        /\ pc[c] \in {"calling", "answered", "raised"} =>
              attempt[c] = failures[c][adapter[c]] + 1
        /\ pc[c] = "backoff" => attempt[c] = failures[c][adapter[c]]
        /\ pc[c] = "unavailable" => adapter[c] = NumAdapters

RInv == TypeOK /\ OutageResilience /\ AttemptCounts

LEMMA RInit == Init => RInv
BY RouterAssumption
   DEF Init, RInv, TypeOK, OutageResilience, AttemptCounts, StoppedAt, Pcs, Adapter

\* What is known of a call while an adapter works for it.
LEMMA InTurn ==
    ASSUME RInv, NEW c \in Call, pc[c] \in {"calling", "backoff"}
    PROVE  /\ adapter[c] \in Adapter
           /\ failures[c] \in [Adapter -> 0..MaxAttempts]
           /\ failures[c][adapter[c]] \in 0..(MaxAttempts - 1)
           /\ pc[c] = "calling" => attempt[c] = failures[c][adapter[c]] + 1
           /\ pc[c] = "backoff" => attempt[c] = failures[c][adapter[c]]
<1>1. adapter[c] \in Adapter /\ failures[c] \in [Adapter -> 0..MaxAttempts]
  BY DEF RInv, TypeOK
<1>2. failures[c][adapter[c]] \in 0..MaxAttempts
  BY <1>1
<1>3. StoppedAt(c, adapter[c])
  BY DEF RInv, OutageResilience
<1>4. failures[c][adapter[c]] < MaxAttempts
  BY <1>1, <1>3 DEF StoppedAt
<1>5. /\ pc[c] = "calling" => attempt[c] = failures[c][adapter[c]] + 1
      /\ pc[c] = "backoff" => attempt[c] = failures[c][adapter[c]]
  BY DEF RInv, AttemptCounts
<1> QED
  BY <1>1, <1>2, <1>4, <1>5, RouterAssumption

LEMMA RTypeStep ==
    ASSUME RInv, [Next]_vars
    PROVE  TypeOK'
<1>0. TypeOK
  BY DEF RInv
<1> SUFFICES ASSUME NEW c \in Call, CallNext(c) PROVE TypeOK'
  BY <1>0 DEF Next, Quiescent, vars, TypeOK
<1> USE RouterAssumption, <1>0 DEF TypeOK, Adapter, Pcs
<1>a. pc[c] \in {"calling", "backoff"} =>
         /\ failures[c][adapter[c]] \in 0..(MaxAttempts - 1)
         /\ pc[c] = "calling" => attempt[c] = failures[c][adapter[c]] + 1
         /\ pc[c] = "backoff" => attempt[c] = failures[c][adapter[c]]
  BY InTurn
<1>1. CASE Route(c)
  BY <1>1 DEF Route
<1>2. CASE Succeed(c)
  <2>1. attempt[c] \in 1..MaxAttempts
    BY <1>2, <1>a DEF Succeed
  <2>2. [call |-> c, provider |-> adapter[c], attempt |-> attempt[c]] \in Record
    BY <2>1 DEF Record
  <2>3. /\ records' \in Seq(Record)
        /\ UNCHANGED <<adapter, failures>>
    BY <1>2, <2>2 DEF Succeed
  <2>4. pc' \in [Call -> Pcs] /\ attempt' \in [Call -> 0..MaxAttempts]
    BY <1>2 DEF Succeed
  <2> QED
    BY <2>3, <2>4
<1>3. ASSUME Transient(c)
      PROVE  failures' \in [Call -> [Adapter -> 0..MaxAttempts]]
  <2>1. failures[c][adapter[c]] + 1 \in 0..MaxAttempts
    BY <1>3, <1>a DEF Transient
  <2> QED
    BY <1>3, <2>1 DEF Transient
<1>4. CASE Backoff(c)
  BY <1>4, <1>3 DEF Backoff, Transient
<1>5. CASE Retry(c)
  <2>1. attempt[c] + 1 \in 0..MaxAttempts
    BY <1>5, <1>a DEF Retry
  <2> QED
    BY <1>5, <2>1 DEF Retry
<1>6. CASE Failover(c)
  <2>1. adapter[c] + 1 \in Adapter /\ 1 \in 0..MaxAttempts
    BY <1>6 DEF Failover
  <2> QED
    BY <1>6, <1>3, <2>1 DEF Failover, Transient
<1>7. CASE Exhaust(c)
  BY <1>7, <1>3 DEF Exhaust, Transient
<1>8. CASE Raise(c)
  BY <1>8 DEF Raise
<1> QED
  BY <1>1, <1>2, <1>4, <1>5, <1>6, <1>7, <1>8 DEF CallNext

\* The order invariants of one call d.
OrderOf(d) ==
    /\ pc[d] = "unavailable" => /\ \A i \in Adapter : failures[d][i] = MaxAttempts
                                /\ adapter[d] = NumAdapters
    /\ pc[d] # "unavailable" => StoppedAt(d, adapter[d])
    /\ pc[d] = "new" => adapter[d] = 1 /\ failures[d][1] = 0
    /\ pc[d] \in {"calling", "answered", "raised"} =>
          attempt[d] = failures[d][adapter[d]] + 1
    /\ pc[d] = "backoff" => attempt[d] = failures[d][adapter[d]]

LEMMA ROrder ==
    (OutageResilience /\ AttemptCounts) <=> \A d \in Call : OrderOf(d)
BY DEF OutageResilience, AttemptCounts, OrderOf

LEMMA NextInOrder ==
    ASSUME NEW n \in Adapter, n < NumAdapters
    PROVE  n + 1 \in Adapter /\ n # n + 1
BY RouterAssumption DEF Adapter

\* A step of one call leaves the others as they were.
LEMMA ROrderStep ==
    ASSUME RInv, [Next]_vars
    PROVE  (\A d \in Call : OrderOf(d))'
<1>0. TypeOK /\ \A d \in Call : OrderOf(d)
  BY ROrder DEF RInv
<1>1. CASE UNCHANGED vars
  BY <1>0, <1>1 DEF vars, OrderOf, StoppedAt
<1>2. ASSUME NEW c \in Call, CallNext(c), NEW d \in Call
      PROVE  OrderOf(d)'
  <2>0. /\ pc \in [Call -> Pcs]
        /\ adapter \in [Call -> Adapter]
        /\ attempt \in [Call -> 0..MaxAttempts]
        /\ failures \in [Call -> [Adapter -> 0..MaxAttempts]]
        /\ failures[c] \in [Adapter -> 0..MaxAttempts]
        /\ adapter[c] \in Adapter
    BY <1>0 DEF TypeOK
  <2>1. CASE d # c
    <3>1. pc'[d] = pc[d] /\ adapter'[d] = adapter[d] /\ attempt'[d] = attempt[d]
          /\ failures'[d] = failures[d]
      BY <1>2, <2>0, <2>1 DEF CallNext, Route, Succeed, Backoff, Retry, Failover,
         Exhaust, Raise, Transient
    <3> QED
      BY <1>0, <3>1 DEF OrderOf, StoppedAt
  <2>2. CASE d = c
    <3>0. OrderOf(c) /\ RouterAssumption
      BY <1>0, RouterAssumption
    <3>1. ASSUME Transient(c)
          PROVE  /\ failures'[c][adapter[c]] = failures[c][adapter[c]] + 1
                 /\ \A i \in Adapter : i # adapter[c] => failures'[c][i] = failures[c][i]
                 /\ pc[c] = "calling"
      BY <2>0, <3>1 DEF Transient
    <3> USE <2>0, <3>0 DEF OrderOf, StoppedAt, Adapter, RouterAssumption
    <3>2. CASE Route(c)
      BY <2>2, <3>2 DEF Route
    <3>3. CASE Succeed(c)
      BY <2>2, <3>3 DEF Succeed
    <3>4. CASE Backoff(c)
      BY <2>2, <3>1, <3>4 DEF Backoff
    <3>5. CASE Retry(c)
      <4>1. /\ pc'[c] = "calling" /\ attempt'[c] = attempt[c] + 1
            /\ pc[c] = "backoff" /\ adapter' = adapter /\ failures' = failures
        BY <3>5 DEF Retry
      <4> QED
        BY <2>2, <4>1
    <3>6. CASE Failover(c)
      <4>1. /\ pc'[c] = "calling"
            /\ adapter'[c] = adapter[c] + 1
            /\ attempt'[c] = 1
            /\ Transient(c)
        BY <3>6, <3>1 DEF Failover
      <4>2. failures[c][adapter[c]] + 1 = MaxAttempts
        BY <3>6, <3>1 DEF Failover
      <4>3. failures'[c][adapter[c]] = MaxAttempts
        BY <3>1, <4>1, <4>2
      <4>4. adapter[c] + 1 \in Adapter /\ adapter[c] # adapter[c] + 1
        <5>1. adapter[c] < NumAdapters
          BY <3>6 DEF Failover
        <5> HIDE DEF OrderOf, StoppedAt, Adapter
        <5>2. adapter[c] \in Adapter
          OBVIOUS
        <5> QED
          BY <5>1, <5>2, NextInOrder, Zenon
      <4>5. \A i \in Adapter : i > adapter[c] => failures'[c][i] = 0
        BY <3>1, <4>1
      <4>6. \A i \in Adapter : i < adapter[c] => failures'[c][i] = MaxAttempts
        BY <3>1, <4>1
      <4>7. \A i \in Adapter :
              /\ i < adapter[c] + 1 => failures'[c][i] = MaxAttempts
              /\ i >= adapter[c] + 1 => failures'[c][i] = 0
        <5>1. TAKE i \in Adapter
        <5>2. CASE i < adapter[c]
          BY <5>2, <4>6
        <5>3. CASE i = adapter[c]
          BY <5>3, <4>3
        <5>4. CASE i > adapter[c]
          BY <5>4, <4>5
        <5> QED
          BY <5>2, <5>3, <5>4
      <4>8. \A i \in Adapter :
              /\ i < adapter'[c] => failures'[c][i] = MaxAttempts
              /\ i = adapter'[c] => failures'[c][i] < MaxAttempts
              /\ i > adapter'[c] => failures'[c][i] = 0
        <5>1. TAKE i \in Adapter
        <5>2. i \in Int /\ adapter[c] + 1 \in Int
          BY <5>1
        <5>3. i < adapter'[c] => failures'[c][i] = MaxAttempts
          BY <5>1, <4>1, <4>7
        <5>4. i = adapter'[c] => failures'[c][i] = 0
          BY <5>1, <5>2, <4>1, <4>7
        <5>5. i > adapter'[c] => failures'[c][i] = 0
          BY <5>1, <5>2, <4>1, <4>7
        <5>6. 0 < MaxAttempts
          OBVIOUS
        <5> QED
          BY <5>3, <5>4, <5>5, <5>6
      <4> QED
        BY <2>2, <4>1, <4>4, <4>7, <4>8
    <3>7. CASE Exhaust(c)
      <4>1. pc'[c] = "unavailable" /\ adapter'[c] = NumAdapters /\ Transient(c)
        BY <3>7, <2>0 DEF Exhaust
      <4>2. failures[c][adapter[c]] + 1 = MaxAttempts /\ adapter[c] = NumAdapters
        BY <3>7, <3>1, <4>1 DEF Exhaust
      <4>3. failures'[c][adapter[c]] = MaxAttempts
        BY <3>1, <4>1, <4>2
      <4>4. \A i \in Adapter : i # adapter[c] => failures'[c][i] = MaxAttempts
        BY <3>1, <4>1, <4>2
      <4>5. \A i \in Adapter : failures'[c][i] = MaxAttempts
        BY <4>3, <4>4
      <4> QED
        BY <2>2, <4>1, <4>5
    <3>8. CASE Raise(c)
      BY <2>2, <3>8 DEF Raise
    <3> QED
      BY <1>2, <3>2, <3>3, <3>4, <3>5, <3>6, <3>7, <3>8 DEF CallNext
  <2> QED
    BY <2>1, <2>2
<1> QED
  BY <1>0, <1>1, <1>2 DEF Next, Quiescent

\* The order in which providers fail, and the types it keeps.
THEOREM RInvCorrect == Spec => []RInv
<1>1. RInv /\ [Next]_vars => RInv'
  BY RTypeStep, ROrderStep, ROrder, PTL DEF RInv
<1> QED
  BY RInit, <1>1, PTL DEF Spec

\* Calls of route never leave the positions of its loops.
THEOREM TypesCorrect == Spec => []TypeOK
BY RInvCorrect, PTL DEF RInv

\* ProviderUnavailable means that every provider failed MaxAttempts times; an
\* answer or an abort comes from the first provider that did not (route).
THEOREM ResilienceCorrect == Spec => []OutageResilience
BY RInvCorrect, PTL DEF RInv

-----------------------------------------------------------------------------
(* The records. *)

LEMMA RecordsStep ==
    ASSUME RInv, RecordsAreAnswers, [Next]_vars
    PROVE  RecordsAreAnswers'
<1>0. /\ pc \in [Call -> Pcs]
      /\ records \in Seq(Record)
      /\ \A c \in Call : pc[c] = "calling" =>
            attempt[c] = failures[c][adapter[c]] + 1
  BY DEF RInv, TypeOK, AttemptCounts
<1>1. CASE UNCHANGED vars
  BY <1>1 DEF vars, RecordsAreAnswers, RecordsOf
<1>2. ASSUME NEW c \in Call, CallNext(c), NEW d \in Call, d # c
      PROVE  pc'[d] = pc[d] /\ adapter'[d] = adapter[d] /\ failures'[d] = failures[d]
  <2>1. /\ adapter \in [Call -> Adapter]
        /\ failures \in [Call -> [Adapter -> 0..MaxAttempts]]
    BY DEF RInv, TypeOK
  <2> QED
    BY <1>0, <1>2, <2>1 DEF CallNext, Route, Succeed, Backoff, Retry, Failover,
       Exhaust, Raise, Transient
<1>3. ASSUME NEW c \in Call, CallNext(c), ~Succeed(c)
      PROVE  RecordsAreAnswers'
  <2>1. records' = records /\ pc[c] # "answered" /\ pc'[c] # "answered"
    BY <1>0, <1>3 DEF CallNext, Route, Backoff, Retry, Failover, Exhaust, Raise,
       Transient
  <2>2. ASSUME NEW d \in Call
        PROVE  /\ RecordsOf(d)' = RecordsOf(d)
               /\ pc'[d] = "answered" <=> pc[d] = "answered"
               /\ pc[d] = "answered" =>
                     adapter'[d] = adapter[d] /\ failures'[d] = failures[d]
    BY <1>2, <1>3, <2>1 DEF RecordsOf
  <2> QED
    BY <2>1, <2>2 DEF RecordsAreAnswers
<1>4. ASSUME NEW c \in Call, Succeed(c)
      PROVE  RecordsAreAnswers'
  <2> DEFINE n == Len(records) + 1
  <2>1. /\ pc[c] = "calling" /\ pc'[c] = "answered"
        /\ adapter' = adapter /\ failures' = failures
        /\ CallNext(c)
    BY <1>0, <1>4 DEF Succeed, CallNext
  <2>2. /\ Len(records') = n /\ Len(records) \in Nat
        /\ \A k \in 1..Len(records) : records'[k] = records[k]
        /\ records'[n].call = c
        /\ records'[n].provider = adapter[c]
        /\ records'[n].attempt = attempt[c]
    BY <1>0, <1>4 DEF Succeed
  <2>3. RecordsOf(c) = {}
    BY <2>1 DEF RecordsAreAnswers
  <2>4. RecordsOf(c)' = {n}
    BY <2>2, <2>3 DEF RecordsOf
  <2>5. \A d \in Call : d # c => RecordsOf(d)' = RecordsOf(d)
    BY <2>2 DEF RecordsOf
  <2>6. ASSUME NEW d \in Call, d # c
        PROVE  /\ pc'[d] = pc[d]
               /\ \A k \in RecordsOf(d) : records'[k] = records[k]
    BY <1>2, <2>1, <2>2, <2>6 DEF RecordsOf
  <2>7. attempt[c] = failures[c][adapter[c]] + 1
    BY <1>0, <2>1
  <2>8. ASSUME NEW d \in Call
        PROVE  /\ \A k \in RecordsOf(d)' :
                     /\ pc'[d] = "answered"
                     /\ records'[k].provider = adapter'[d]
                     /\ records'[k].attempt = failures'[d][adapter'[d]] + 1
               /\ pc'[d] = "answered" =>
                     \E k \in RecordsOf(d)' : RecordsOf(d)' = {k}
    <3>1. CASE d = c
      BY <2>1, <2>2, <2>4, <2>7, <3>1
    <3>2. CASE d # c
      BY <2>1, <2>5, <2>6, <3>2 DEF RecordsAreAnswers
    <3> QED
      BY <3>1, <3>2
  <2> QED
    BY <2>8 DEF RecordsAreAnswers
<1> QED
  BY <1>1, <1>3, <1>4 DEF Next, Quiescent

\* on_call is given one record for each answered call, of the provider and the
\* attempt that answered, and none for the others (_call_with_span).
THEOREM RecordsCorrect == Spec => []RecordsAreAnswers
<1>1. Init => RecordsAreAnswers
  <2> SUFFICES ASSUME Init PROVE RecordsAreAnswers
    OBVIOUS
  <2>1. Len(records) = 0 /\ \A c \in Call : pc[c] = "new"
    BY DEF Init
  <2>2. 1..Len(records) = {}
    BY <2>1
  <2> QED
    BY <2>1, <2>2 DEF RecordsAreAnswers, RecordsOf
<1>2. RInv /\ RecordsAreAnswers /\ [Next]_vars => RecordsAreAnswers'
  BY RecordsStep
<1> QED
  BY <1>1, <1>2, RInvCorrect, PTL DEF Spec

-----------------------------------------------------------------------------
(* The refinement. *)

LEMMA PromiseStep ==
    ASSUME RInv, NEW c \in Call, CallNext(c)
    PROVE  [Promise!Next]_(Promise!vars)
<1> DEFINE o == [x \in Call |-> IF pc[x] \in {"calling", "backoff"} THEN "pending"
                                                                   ELSE pc[x]]
           g == [x \in Call |-> IF pc[x] = "unavailable" THEN NumAdapters
                                                         ELSE adapter[x] - 1]
<1>0. /\ pc \in [Call -> Pcs]
      /\ adapter \in [Call -> Adapter]
      /\ NumAdapters \in Nat
  BY RouterAssumption DEF RInv, TypeOK
<1>1. CASE Backoff(c) \/ Retry(c)
  <2>1. o' = o /\ g' = g
    BY <1>0, <1>1 DEF Backoff, Retry, Transient
  <2> QED
    BY <2>1 DEF Promise!vars
<1>5. CASE Route(c)
  <2>1. o[c] = "new" /\ o' = [o EXCEPT ![c] = "pending"] /\ g' = g
    BY <1>0, <1>5 DEF Route
  <2> QED
    BY <2>1 DEF Promise!Next, Promise!Ask
<1>2. CASE Succeed(c) \/ Raise(c)
  <2>1. g' = g
    BY <1>0, <1>2 DEF Succeed, Raise
  <2>2. o[c] = "pending" /\ o' = [o EXCEPT ![c] = pc'[c]]
    BY <1>0, <1>2 DEF Succeed, Raise
  <2>3. pc'[c] \in {"answered", "raised"}
    BY <1>0, <1>2 DEF Succeed, Raise
  <2> QED
    BY <2>1, <2>2, <2>3 DEF Promise!Next, Promise!Settle
<1>3. CASE Failover(c)
  <2>1. o' = o /\ o[c] = "pending"
    BY <1>0, <1>3 DEF Failover, Transient
  <2>2. g[c] + 1 # NumAdapters /\ g' = [g EXCEPT ![c] = @ + 1]
    <3>1. /\ pc[c] = "calling" /\ pc' = pc /\ adapter'[c] = adapter[c] + 1
          /\ \A x \in Call : x # c => adapter'[x] = adapter[x]
      BY <1>0, <1>3 DEF Failover, Transient
    <3>2. adapter[c] + 1 - 1 = adapter[c] - 1 + 1 /\ adapter[c] - 1 + 1 # NumAdapters
      BY <1>0, <1>3 DEF Failover, Adapter
    <3>3. pc'[c] = "calling"
      BY <3>1
    <3>4. g[c] = adapter[c] - 1
      BY <3>1
    <3>5. g'[c] = adapter'[c] - 1
      BY <3>3
    <3>6. adapter[c] \in Int
      BY <1>0 DEF Adapter
    <3>7. adapter'[c] - 1 = adapter[c] - 1 + 1
      BY <3>1, <3>6
    <3>8. g'[c] = g[c] + 1
      BY <3>4, <3>5, <3>7, Zenon
    <3>9. \A x \in Call : x # c => g'[x] = g[x]
      BY <3>1
    <3> HIDE DEF g
    <3>10. g \in [Call -> {g[x] : x \in Call}] /\ g' \in [Call -> {g'[x] : x \in Call}]
      BY DEF g
    <3> QED
      BY <3>2, <3>8, <3>9, <3>10, <3>4
  <2>3. o' = [o EXCEPT ![c] = IF g[c] + 1 = NumAdapters THEN "unavailable" ELSE @]
    BY <2>1, <2>2
  <2> QED
    BY <2>1, <2>2, <2>3 DEF Promise!Next, Promise!GiveUp
<1>4. CASE Exhaust(c)
  <2>1. o[c] = "pending" /\ o' = [o EXCEPT ![c] = "unavailable"]
    BY <1>0, <1>4 DEF Exhaust, Transient
  <2>2. g[c] + 1 = NumAdapters /\ g' = [g EXCEPT ![c] = @ + 1]
    <3>1. /\ pc[c] = "calling" /\ pc'[c] = "unavailable" /\ adapter[c] = NumAdapters
          /\ adapter' = adapter /\ \A x \in Call : x # c => pc'[x] = pc[x]
      BY <1>0, <1>4 DEF Exhaust, Transient
    <3>2. NumAdapters - 1 + 1 = NumAdapters
      BY <1>0
    <3>3. g[c] + 1 = NumAdapters /\ g'[c] = NumAdapters
      BY <3>1, <3>2
    <3>4. \A x \in Call : x # c => g'[x] = g[x]
      BY <3>1
    <3> HIDE DEF g
    <3>5. g \in [Call -> {g[x] : x \in Call}] /\ g' \in [Call -> {g'[x] : x \in Call}]
      BY DEF g
    <3> QED
      BY <3>3, <3>4, <3>5
  <2>3. o' = [o EXCEPT ![c] = IF g[c] + 1 = NumAdapters THEN "unavailable" ELSE @]
    BY <2>1, <2>2
  <2> QED
    BY <2>1, <2>2, <2>3 DEF Promise!Next, Promise!GiveUp
<1> QED
  BY <1>1, <1>2, <1>3, <1>4, <1>5 DEF CallNext

\* Every step of route is a step of the failover it promises, or none.
THEOREM RefinementCorrect == Spec => Promise!Spec
<1>1. Init => Promise!Init
  BY DEF Init, Promise!Init
<1>2. RInv /\ [Next]_vars => [Promise!Next]_(Promise!vars)
  <2>1. ASSUME UNCHANGED vars
        PROVE  UNCHANGED Promise!vars
    BY <2>1 DEF vars, Promise!vars
  <2> QED
    BY <2>1, PromiseStep DEF Next, Quiescent
<1> QED
  BY <1>1, <1>2, RInvCorrect, PTL DEF Spec, Promise!Spec

-----------------------------------------------------------------------------
(* The composition. *)


\* Every step of the composition is a step of Router, or none (route).
LEMMA RouterMoves == SysNext => [Next]_vars
<1> SUFFICES ASSUME SysNext PROVE [Next]_vars
  OBVIOUS
<1>1. CASE RunStep \/ Over
  BY <1>1 DEF RunStep, Over
<1>2. ASSUME NEW l \in Call, LeafStep(l)
      PROVE  [Next]_vars
  <2>1. CASE Begin(l) \/ Lookup(l)
    BY <2>1 DEF Begin, Lookup
  <2>2. CASE Ask(l) \/ Sleep(l)
    BY <2>2 DEF Ask, Sleep, Next, CallNext
  <2>3. CASE Hear(l)
    BY <2>3 DEF Hear, HearTransient, HearAnswer, Next, CallNext
  <2> QED
    BY <1>2, <2>1, <2>2, <2>3 DEF LeafStep
<1> QED
  BY <1>1, <1>2 DEF SysNext

\* ... and a step of Orchestrator, or none (run, _run_leaf_inner).
LEMMA RunMoves == SysNext => [O!Next]_runVars
<1> SUFFICES ASSUME SysNext PROVE [O!Next]_runVars
  OBVIOUS
<1>1. CASE RunStep \/ Over
  BY <1>1 DEF RunStep, Over, O!Next
<1>2. ASSUME NEW l \in Call, LeafStep(l)
      PROVE  [O!Next]_runVars
  <2>1. CASE Begin(l) \/ Lookup(l) \/ Ask(l)
    BY <2>1 DEF Begin, Lookup, Ask, O!Next, O!LeafNext
  <2>2. CASE Sleep(l)
    BY <2>2 DEF Sleep
  <2>3. CASE Hear(l)
    BY <2>3 DEF Hear, HearTransient, HearAnswer, O!Next, O!LeafNext
  <2> QED
    BY <1>2, <2>1, <2>2, <2>3 DEF LeafStep
<1> QED
  BY <1>1, <1>2 DEF SysNext

\* The composition is a run of the orchestrator whatever the router answers,
\* and a use of the router whatever the orchestrator asks (create_run).
THEOREM Composes == SysSpec => Spec /\ O!Spec
<1>1. SysInit => Init /\ O!Init
  BY DEF SysInit
<1>2. [SysNext]_sysVars => [Next]_vars /\ [O!Next]_(O!vars)
  <2>1. runVars = O!vars
    BY DEF runVars, O!vars
  <2>2. UNCHANGED sysVars => UNCHANGED vars /\ UNCHANGED runVars
    BY DEF sysVars
  <2> QED
    BY <2>1, <2>2, RouterMoves, RunMoves DEF runVars, O!vars
<1> QED
  BY <1>1, <1>2, PTL DEF SysSpec, Spec, O!Spec

-----------------------------------------------------------------------------
(* The ledger. *)

\* How the state of leaf l and that of its call of route go together.
Agree(l) ==
    /\ leaf[l] \in {"new", "cache"} => pc[l] = "new"
    /\ leaf[l] = "llm" => pc[l] \in {"calling", "backoff"}
    /\ leaf[l] = "raised" => pc[l] \in {"new", "answered", "raised"}
    /\ leaf[l] = "returned" =>
          /\ pc[l] \in {"new", "answered", "unavailable"}
          /\ pc[l] = "new" => ~outcome[l].errored
          /\ pc[l] = "unavailable" => outcome[l].errored

\* What the run task has filed of leaf l.
Filed(l) ==
    phase \in {"walk", "finished"} =>
        leaf[l] = "returned" /\ findings[l] = outcome[l]

SInv ==
    /\ pc \in [Call -> Pcs]
    /\ leaf \in [Call -> O!LeafPcs]
    /\ outcome = [l \in Call |-> outcome[l]]
    /\ findings = [n \in Call \cup Agg |-> findings[n]]
    /\ result # None => phase = "finished"
    /\ \A l \in Call : Agree(l) /\ Filed(l)

LEMMA SInit == SysInit => SInv
BY DEF SysInit, Init, O!Init, SInv, Agree, Filed, Pcs, O!LeafPcs, O!Node

\* The run task moves: it files what the leaves returned.
LEMMA SRunStep ==
    ASSUME SInv, RunStep
    PROVE  SInv'
<1> USE ConfiguredAssumption DEF SInv, Agree, Filed, RunStep, vars
<1>1. CASE O!RunStart
  BY <1>1 DEF O!RunStart, O!Emit
<1>2. CASE O!Abort
  BY <1>2 DEF O!Abort
<1>3. CASE O!Gathered
  BY <1>3 DEF O!Gathered, O!Node
<1>4. CASE O!SkipLeaf
  BY <1>4 DEF O!SkipLeaf
<1>5. CASE O!EvalAggregator
  <2>1. /\ phase' = phase /\ pc' = pc /\ leaf' = leaf
        /\ outcome' = outcome /\ result' = result
    BY <1>5 DEF O!EvalAggregator
  <2>2. PICK a, f : a \in Agg /\ findings' = [findings EXCEPT ![a] = f]
    BY <1>5 DEF O!EvalAggregator
  <2>3. /\ findings' = [n \in Call \cup Agg |-> findings'[n]]
        /\ \A l \in Call : findings'[l] = findings[l]
    BY <2>2
  <2> QED
    BY <2>1, <2>3
<1>6. CASE O!Finish
  <2>1. /\ phase = "walk" /\ phase' = "finished" /\ pc' = pc /\ leaf' = leaf
        /\ outcome' = outcome /\ findings' = findings
    BY <1>6 DEF O!Finish
  <2> QED
    BY <2>1
<1> QED
  BY <1>1, <1>2, <1>3, <1>4, <1>5, <1>6 DEF O!RunNext

\* A leaf task returns with finding f.
LEMMA SReturn ==
    ASSUME SInv, NEW l \in Call, NEW f, O!LeafReturn(l, f)
    PROVE  /\ phase' = phase /\ findings' = findings /\ result' = result
           /\ \A x \in Call : x # l => leaf'[x] = leaf[x] /\ outcome'[x] = outcome[x]
           /\ leaf' \in [Call -> O!LeafPcs]
           /\ outcome' = [x \in Call |-> outcome'[x]]
           /\ leaf'[l] = "returned" /\ outcome'[l] = f
BY DEF SInv, O!LeafReturn, O!LeafPcs

\* What a step of leaf task l does to it, and to nobody else.
LEMMA SLeafEffect ==
    ASSUME SInv, NEW l \in Call, LeafStep(l)
    PROVE  /\ phase' = phase /\ findings' = findings /\ result' = result
           /\ leaf[l] \notin {"returned", "raised"}
           /\ \A x \in Call : x # l => /\ leaf'[x] = leaf[x] /\ pc'[x] = pc[x]
                                       /\ outcome'[x] = outcome[x]
           /\ pc' \in [Call -> Pcs] /\ leaf' \in [Call -> O!LeafPcs]
           /\ outcome' = [x \in Call |-> outcome'[x]]
           /\ Agree(l)'
<1> USE DEF SInv, Agree, Pcs, O!LeafPcs, O!Clean, O!Errored
<1>1. CASE Begin(l)
  BY <1>1 DEF Begin, O!LeafStart, vars
<1>2. CASE Lookup(l)
  <2>1. CASE O!CacheHit(l)
    <3>1. PICK p \in BOOLEAN : O!LeafReturn(l, O!Clean(p))
      BY <2>1 DEF O!CacheHit
    <3>2. ~O!Clean(p).errored /\ pc' = pc /\ leaf[l] = "cache"
      BY <1>2, <2>1 DEF Lookup, O!CacheHit, vars
    <3> QED
      BY <3>1, <3>2, SReturn
  <2>2. CASE O!CacheRaise(l)
    BY <1>2, <2>2 DEF Lookup, O!CacheRaise, O!LeafRaise, vars
  <2> QED
    BY <1>2, <2>1, <2>2 DEF Lookup
<1>3. CASE Ask(l)
  BY <1>3 DEF Ask, O!CacheMiss, Route
<1>4. CASE Sleep(l)
  BY <1>4 DEF Sleep, Retry, runVars
<1>5. CASE (Backoff(l) \/ Failover(l)) /\ UNCHANGED runVars
  BY <1>5 DEF Backoff, Failover, Transient, runVars
<1>6. CASE Exhaust(l) /\ O!CheckErrored(l)
  <2>1. O!LeafReturn(l, O!Errored) /\ leaf[l] = "llm" /\ O!Errored.errored
    BY <1>6 DEF O!CheckErrored
  <2>2. pc' = [pc EXCEPT ![l] = "unavailable"]
    BY <1>6 DEF Exhaust
  <2> QED
    BY <2>1, <2>2, SReturn
<1>7. CASE Succeed(l) /\ (O!CheckAnswer(l) \/ O!CheckErrored(l))
  <2>1. PICK f : O!LeafReturn(l, f)
    BY <1>7 DEF O!CheckAnswer, O!CheckErrored
  <2>2. pc' = [pc EXCEPT ![l] = "answered"] /\ leaf[l] = "llm"
    BY <1>7 DEF Succeed, O!CheckAnswer, O!CheckErrored
  <2> QED
    BY <2>1, <2>2, SReturn
<1>8. CASE (Succeed(l) \/ Raise(l)) /\ O!CheckRaise(l)
  <2>1. /\ leaf[l] = "llm" /\ leaf' = [leaf EXCEPT ![l] = "raised"]
        /\ UNCHANGED <<phase, outcome, findings, result>>
    BY <1>8 DEF O!CheckRaise, O!LeafRaise
  <2>2. \E q \in {"answered", "raised"} : pc' = [pc EXCEPT ![l] = q]
    BY <1>8 DEF Succeed, Raise
  <2> QED
    BY <2>1, <2>2
<1>9. CASE Hear(l)
  BY <1>5, <1>6, <1>7, <1>8, <1>9, Zenon DEF Hear, HearTransient, HearAnswer
<1> QED
  BY <1>1, <1>2, <1>3, <1>4, <1>9, Zenon DEF LeafStep

LEMMA SStep ==
    ASSUME SInv, [SysNext]_sysVars
    PROVE  SInv'
<1>1. ASSUME UNCHANGED <<vars, runVars>>
      PROVE  SInv'
  BY <1>1 DEF SInv, Agree, Filed, vars, runVars
<1>2. ASSUME NEW l \in Call, LeafStep(l)
      PROVE  SInv'
  <2>1. phase \notin {"walk", "finished"}
    BY <1>2, SLeafEffect DEF SInv, Filed
  <2>2. \A x \in Call : Agree(x)'
    BY <1>2, SLeafEffect DEF SInv, Agree
  <2> QED
    BY <1>2, <2>1, <2>2, SLeafEffect DEF SInv, Filed
<1>3. CASE RunStep
  BY <1>3, SRunStep
<1>4. CASE Over \/ UNCHANGED sysVars
  <2>1. UNCHANGED <<vars, runVars>>
    BY <1>4 DEF Over, O!Quiescent, O!vars, sysVars, runVars
  <2> QED
    BY <1>1, <2>1
<1> QED
  BY <1>2, <1>3, <1>4 DEF SysNext

\* When a run has a result, its ledger has one row for every leaf that an LLM
\* answered and none for the others, and only unanswered leaves are errored
\* without one (_call_with_span, _run_leaf_inner, persist_run).
THEOREM LedgerCorrect == SysSpec => []LedgerMatchesResult
<1>1. SysSpec => []SInv
  BY SInit, SStep, PTL DEF SysSpec
<1>2. SysSpec => []RecordsAreAnswers
  BY Composes, RecordsCorrect, PTL
<1>3. SInv /\ RecordsAreAnswers => LedgerMatchesResult
  <2> SUFFICES ASSUME SInv, RecordsAreAnswers, result # None, NEW l \in Call
               PROVE  /\ pc[l] \in {"new", "answered", "unavailable"}
                      /\ Cardinality(RecordsOf(l)) = IF pc[l] = "answered" THEN 1 ELSE 0
                      /\ pc[l] = "new" => ~findings[l].errored
                      /\ pc[l] = "unavailable" => findings[l].errored
    BY DEF LedgerMatchesResult
  <2>1. leaf[l] = "returned" /\ findings[l] = outcome[l] /\ Agree(l)
    BY DEF SInv, Filed
  <2>2. CASE pc[l] = "answered"
    <3>1. PICK k : RecordsOf(l) = {k}
      BY <2>2 DEF RecordsAreAnswers
    <3> QED
      BY <2>1, <2>2, <3>1, FS_Singleton DEF Agree
  <2>3. CASE pc[l] # "answered"
    <3>1. RecordsOf(l) = {}
      BY <2>3 DEF RecordsAreAnswers
    <3> QED
      BY <2>1, <2>3, <3>1, FS_EmptySet DEF Agree
  <2> QED
    BY <2>2, <2>3
<1> QED
  BY <1>1, <1>2, <1>3, PTL
=============================================================================
