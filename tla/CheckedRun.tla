------------------------------ MODULE CheckedRun ------------------------------
(***************************************************************************)
(* A run as create_run (api/runs.py) sets it up: the Orchestrator, with    *)
(* one Router of its own whose adapters it puts in the order the request   *)
(* asks for, and behind each adapter a provider that is healthy or not.    *)
(*                                                                         *)
(* EXTENDS Router: call c of route is the one that the leaf c makes.       *)
(* Nothing awaits between complete() returning and the end of the leaf     *)
(* task, so an answer and the leaf's event are one step.                   *)
(***************************************************************************)
EXTENDS Router, Adapters

CONSTANTS
    Configured,                                     \* app.state.adapters
    Agg, AllOf, Children, Topo, Rule, Root, None    \* the graph, see RuleGraph

VARIABLES
    phase, leaf, outcome, findings, errors, idx, events, result,  \* Orchestrator
    order,      \* the providers of this run's Router
    lookups,    \* how the findings cache answers: "off", "on", "failing"
    wire        \* wire[p]: what provider p replies during this run

O == INSTANCE Orchestrator WITH Leaf <- Call, pc <- leaf

runVars == <<phase, leaf, outcome, findings, errors, idx, events, result>>
envVars == <<order, lookups, wire>>
sysVars == <<vars, runVars, envVars>>

ASSUME ConfiguredAssumption ==
    /\ Len(Configured) = NumAdapters
    /\ Call \cap Agg = {}

Provider == {Configured[i] : i \in Adapter}
Wire     == {"healthy", "out", "rejecting", "any"}

Replies(p) == CASE wire[p] = "healthy"   -> Healthy
                [] wire[p] = "out"       -> Outage
                [] wire[p] = "rejecting" -> Rejection
                [] wire[p] = "any"       -> {r \in Reply : r.body = "null" => p = "openai"}

\* The primary first, the others in the order they are configured.
Ordered(primary) ==
    IF primary = None THEN Configured
    ELSE <<primary>> \o SelectSeq(Configured, LAMBDA p : p # primary)

\* create_run has accepted the request: the task of the run is created.
\* Lookups are off under skip_cache and without a database.
SysInit ==
    /\ Init
    /\ O!Init
    /\ \E primary \in Provider \cup {None} : order = Ordered(primary)
    /\ lookups \in {"off", "on", "failing"}
    /\ wire \in [Provider -> Wire]

\* _run_leaf_inner up to its lookup.
Begin(l) == O!LeafStart(l) /\ UNCHANGED <<vars, envVars>>

Lookup(l) ==
    /\ \/ lookups # "off" /\ O!CacheHit(l)
       \/ lookups = "failing" /\ O!CacheRaise(l)
    /\ UNCHANGED <<vars, envVars>>

\* A miss: execute_check calls route, which calls the first adapter.
Ask(l) == O!CacheMiss(l) /\ Route(l) /\ UNCHANGED envVars

Sleep(l) == Retry(l) /\ UNCHANGED <<runVars, envVars>>

\* ... a retry, a failover, or ProviderUnavailable, which degrades the leaf.
HearTransient(l) == \/ (Backoff(l) \/ Failover(l)) /\ UNCHANGED runVars
                    \/ Exhaust(l) /\ O!CheckErrored(l)

\* Seeded bug: a text that cannot be read is asked for again.
HearAnswerBug(l, reply) == \/ reply.body = "verdict" /\ Succeed(l) /\ O!CheckAnswer(l)
                           \/ reply.body # "verdict" /\ Succeed(l) /\ UNCHANGED runVars
\* ... the verdict; ExecutorError, which degrades; or a text that is no string.
HearAnswer(l, reply) ==
    /\ Succeed(l)
    /\ \/ reply.body = "verdict" /\ O!CheckAnswer(l)
       \/ reply.body = "prose" /\ O!CheckErrored(l)
       \/ reply.body = "null" /\ O!CheckRaise(l)

\* complete() of the adapter in turn is over.
Hear(l) ==
    /\ pc[l] = "calling"
    /\ \E reply \in Replies(order[adapter[l]]) :
          \/ IsTransient(reply) /\ HearTransient(l)
          \/ IsAnswer(reply) /\ HearAnswer(l, reply)
          \/ /\ ~IsTransient(reply) /\ ~IsAnswer(reply)
             /\ Raise(l) /\ O!CheckRaise(l)
    /\ UNCHANGED envVars

LeafStep(l) == Begin(l) \/ Lookup(l) \/ Ask(l) \/ Sleep(l) \/ Hear(l)

RunStep == O!RunNext /\ UNCHANGED <<vars, envVars>>

Over == O!Quiescent /\ UNCHANGED <<vars, envVars>>

SysNext == RunStep \/ (\E l \in Call : LeafStep(l)) \/ Over

\* The event loop runs every task that is ready; a lookup, a call of complete()
\* and a backoff end.
SysSpec ==
    /\ SysInit
    /\ [][SysNext]_sysVars
    /\ WF_sysVars(RunStep)
    /\ \A l \in Call : WF_sysVars(LeafStep(l))

-----------------------------------------------------------------------------
(* Properties. *)

\* Orchestrator with a router behind it is Orchestrator: in particular its
\* fairness, that a leaf waiting for the LLM is answered, is kept by bounded
\* retries over a bounded list of adapters.
ImplementsRun == O!FairSpec

\* Outages of providers never abort a run, whoever is asked first, and one
\* healthy provider is enough for every leaf to be answered; without one, the
\* leaves that had to ask are degraded, and no other.  Under outages only a
\* lookup that raised, which the try of _run_leaf_inner leaves out, costs the
\* run its result: the leaf is one that had asked nobody, and the failure of
\* the database is never filed as a degraded leaf.
OutageOnlyDegrades ==
    (\A p \in Provider : wire[p] \in {"healthy", "out"})
    => <>[]LET raised == {l \in Call : leaf[l] = "raised"}
           IN  /\ \A l \in raised : pc[l] = "new"
               /\ IF raised # {}
                  THEN phase = "aborted" /\ result = None
                  ELSE /\ result # None
                       /\ errors = IF \E p \in Provider : wire[p] = "healthy" THEN {}
                                   ELSE {l \in Call : pc[l] # "new"}

\* The records persist_run is given with a result are complete and paid for
\* once: a leaf has one if an LLM answered it, readable or not, and a cached or
\* an unavailable leaf has none; a leaf that asked nobody has its verdict, and
\* one that nobody answered has none.
LedgerMatchesResult ==
    result # None =>
        \A l \in Call :
            /\ pc[l] \in {"new", "answered", "unavailable"}
            /\ Cardinality(RecordsOf(l)) = IF pc[l] = "answered" THEN 1 ELSE 0
            /\ pc[l] = "new" => ~findings[l].errored
            /\ pc[l] = "unavailable" => findings[l].errored
=============================================================================
