-------------------------------- MODULE Router --------------------------------
(***************************************************************************)
(* router/router.py: Router.route, the failover loop over the adapters,    *)
(* around the retry loop of router/retry.py, around one call of an         *)
(* adapter.  Calls of several leaves run concurrently through one Router   *)
(* and report to the same on_call hook.                                    *)
(***************************************************************************)
EXTENDS Integers, Sequences, FiniteSets

CONSTANTS
    Call,           \* the concurrent calls of route
    NumAdapters,    \* len(Router.adapters)
    MaxAttempts     \* RetryPolicy.max_attempts

ASSUME RouterAssumption ==
    /\ NumAdapters \in Nat \ {0}   \* __post_init__ refuses an empty list
    /\ MaxAttempts \in Nat \ {0}

VARIABLES
    pc,         \* pc[c]: where route is, or how it ended
    adapter,    \* adapter[c]: the adapter in turn, idx + 1 of the loop
    attempt,    \* attempt[c]: attempt_num
    failures,   \* failures[c][i]: the TransientErrors adapter i raised for c
    records     \* the RouterCallRecords given to on_call, in order

vars == <<pc, adapter, attempt, failures, records>>

Adapter == 1..NumAdapters
Pcs     == {"new", "calling", "backoff", "answered", "unavailable", "raised"}
Ended   == {"answered", "unavailable", "raised"}
Record  == [call : Call, provider : Adapter, attempt : 1..MaxAttempts]

Init ==
    /\ pc = [c \in Call |-> "new"]
    /\ adapter = [c \in Call |-> 1]
    /\ attempt = [c \in Call |-> 0]
    /\ failures = [c \in Call |-> [i \in Adapter |-> 0]]
    /\ records = <<>>

\* route is entered: the first attempt on the first adapter.
Route(c) ==
    /\ pc[c] = "new"
    /\ pc' = [pc EXCEPT ![c] = "calling"]
    /\ attempt' = [attempt EXCEPT ![c] = 1]
    /\ UNCHANGED <<adapter, failures, records>>

\* Seeded bug: a retried call is not recorded.
SucceedBug(c) ==
    /\ pc[c] = "calling"
    /\ pc' = [pc EXCEPT ![c] = "answered"]
    /\ records' = IF attempt[c] > 1 THEN records
                  ELSE Append(records, [call |-> c, provider |-> adapter[c],
                                        attempt |-> attempt[c]])
    /\ UNCHANGED <<adapter, attempt, failures>>

\* complete() returned: the only path that reaches on_call.
Succeed(c) ==
    /\ pc[c] = "calling"
    /\ pc' = [pc EXCEPT ![c] = "answered"]
    /\ records' = Append(records, [call |-> c, provider |-> adapter[c],
                                   attempt |-> attempt[c]])
    /\ UNCHANGED <<adapter, attempt, failures>>

Transient(c) ==
    /\ pc[c] = "calling"
    /\ failures' = [failures EXCEPT ![c][adapter[c]] = @ + 1]
    /\ UNCHANGED records

\* complete() raised TransientError and attempts are left: tenacity backs off.
Backoff(c) ==
    /\ Transient(c)
    /\ attempt[c] < MaxAttempts
    /\ pc' = [pc EXCEPT ![c] = "backoff"]
    /\ UNCHANGED <<adapter, attempt>>

\* The backoff is over: the next attempt on the same adapter.
Retry(c) ==
    /\ pc[c] = "backoff"
    /\ pc' = [pc EXCEPT ![c] = "calling"]
    /\ attempt' = [attempt EXCEPT ![c] = @ + 1]
    /\ UNCHANGED <<adapter, failures, records>>

\* Seeded bug: attempt_num is not reset for the next adapter.
FailoverStaleBug(c) ==
    /\ Transient(c)
    /\ attempt[c] = MaxAttempts
    /\ adapter[c] < NumAdapters
    /\ adapter' = [adapter EXCEPT ![c] = @ + 1]
    /\ UNCHANGED <<pc, attempt>>

\* Seeded bug: the first TransientError fails over, without a retry.
FailoverEarlyBug(c) ==
    /\ Transient(c)
    /\ adapter[c] < NumAdapters
    /\ adapter' = [adapter EXCEPT ![c] = @ + 1]
    /\ attempt' = [attempt EXCEPT ![c] = 1]
    /\ UNCHANGED pc

\* The last attempt raised TransientError: continue with the next adapter.
Failover(c) ==
    /\ Transient(c)
    /\ attempt[c] = MaxAttempts
    /\ adapter[c] < NumAdapters
    /\ adapter' = [adapter EXCEPT ![c] = @ + 1]
    /\ attempt' = [attempt EXCEPT ![c] = 1]
    /\ UNCHANGED pc

\* Seeded bug: the call is given up although another adapter is left.
ExhaustBug(c) ==
    /\ Transient(c)
    /\ attempt[c] = MaxAttempts
    /\ pc' = [pc EXCEPT ![c] = "unavailable"]
    /\ UNCHANGED <<adapter, attempt>>

\* ... or, after the last adapter, raise ProviderUnavailable.
Exhaust(c) ==
    /\ Transient(c)
    /\ attempt[c] = MaxAttempts
    /\ adapter[c] = NumAdapters
    /\ pc' = [pc EXCEPT ![c] = "unavailable"]
    /\ UNCHANGED <<adapter, attempt>>

\* PermanentError, or any exception that is not a RouterError: no retry, no
\* failover, the caller gets it.
Raise(c) ==
    /\ pc[c] = "calling"
    /\ pc' = [pc EXCEPT ![c] = "raised"]
    /\ UNCHANGED <<adapter, attempt, failures, records>>

CallNext(c) ==
    \/ Route(c)
    \/ Succeed(c)
    \/ Backoff(c)
    \/ Retry(c)
    \/ Failover(c)
    \/ Exhaust(c)
    \/ Raise(c)

\* Every call has ended.
Quiescent == (\A c \in Call : pc[c] \in Ended) /\ UNCHANGED vars

Next == (\E c \in Call : CallNext(c)) \/ Quiescent

Spec == Init /\ [][Next]_vars

\* Each complete() ends, by an answer or by the adapter's own timeout, and each
\* backoff timer fires: no call of route waits for another one.
FairSpec == Spec /\ \A c \in Call : WF_vars(CallNext(c))

-----------------------------------------------------------------------------
(* Properties. *)

\* Types: the positions of route() in its two loops, and its records.
TypeOK ==
    /\ pc \in [Call -> Pcs]
    /\ adapter \in [Call -> Adapter]
    /\ attempt \in [Call -> 0..MaxAttempts]
    /\ failures \in [Call -> [Adapter -> 0..MaxAttempts]]
    /\ records \in Seq(Record)

\* The providers before i used up all of their attempts, i has some left and
\* those after i were never asked.
StoppedAt(c, i) ==
    \A j \in Adapter : /\ j < i => failures[c][j] = MaxAttempts
                       /\ j = i => failures[c][j] < MaxAttempts
                       /\ j > i => failures[c][j] = 0

\* The caller's view: ProviderUnavailable only after every provider failed
\* MaxAttempts times, and an answer or an abort by the provider in turn only
\* (no early hop, no attempt too many, nothing asked again).
OutageResilience ==
    \A c \in Call :
        /\ pc[c] = "unavailable" =>
              \A i \in Adapter : failures[c][i] = MaxAttempts
        /\ pc[c] # "unavailable" => StoppedAt(c, adapter[c])

RecordsOf(c) == {k \in 1..Len(records) : records[k].call = c}

\* The rows bound for router_calls: one for each answered call, of the provider
\* that answered and of the attempt that succeeded, and none for a call that
\* failed, in whatever order the calls of the leaves overlap.
RecordsAreAnswers ==
    \A c \in Call :
        /\ \A k \in RecordsOf(c) :
              /\ pc[c] = "answered"
              /\ records[k].provider = adapter[c]
              /\ records[k].attempt = failures[c][adapter[c]] + 1
        /\ pc[c] = "answered" => \E k \in RecordsOf(c) : RecordsOf(c) = {k}

\* "Optional callback Router invokes after each LLM attempt (success or failure)"
\* (router/types.py:64): an attempt that failed leaves a record as well.
EveryAttemptRecorded ==
    \A c \in Call, i \in Adapter :
        failures[c][i] <= Cardinality({k \in RecordsOf(c) : records[k].provider = i})

\* Router is a failover over providers, each given up after its attempts.
Promise == INSTANCE FailoverPromise WITH
    outcome <- [c \in Call |-> IF pc[c] \in {"calling", "backoff"} THEN "pending"
                                                                 ELSE pc[c]],
    givenUp <- [c \in Call |-> IF pc[c] = "unavailable" THEN NumAdapters
                                                        ELSE adapter[c] - 1]

RefinesPromise == Promise!FairSpec
=============================================================================
