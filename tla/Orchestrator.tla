----------------------------- MODULE Orchestrator -----------------------------
(***************************************************************************)
(* One run of executor/orchestrator.py: Orchestrator.run over a compiled   *)
(* graph.  The run task emits run_started, starts one task per leaf        *)
(* (asyncio.gather), waits for all of them, walks topo_order to evaluate   *)
(* the aggregators, rolls up the rules and emits run_finished.  A leaf     *)
(* task emits check_started, looks its verdict up in the findings cache    *)
(* and, on a miss, asks the LLM through the router.                        *)
(*                                                                         *)
(* An action is the code between two awaits.  Every emit is an await, so   *)
(* the actions below interleave in every order asyncio allows.  gather is  *)
(* called without return_exceptions: the first leaf to raise aborts the    *)
(* run task, and the other leaf tasks are left running.                    *)
(***************************************************************************)
EXTENDS RuleGraph

VARIABLES
    phase,      \* where the run task is
    pc,         \* pc[l]: where the task of leaf l is
    outcome,    \* outcome[l]: the finding leaf task l returned, or None
    findings,   \* findings[n]: the dict the run task fills, None when absent
    errors,     \* the keys of the dict errors
    idx,        \* position of the topological walk
    events,     \* what on_event received, in order
    result      \* the RunResult, None until the run returns

vars == <<phase, pc, outcome, findings, errors, idx, events, result>>

Phases    == {"created", "gather", "walk", "finished", "aborted"}
LeafPcs   == {"new", "cache", "llm", "returned", "raised"}
Statuses  == {"PASSED", "FAILED", "DEGRADED"}
Event     == [kind : {"run_started", "check_started", "check_finished",
                      "run_finished"},
              node : Node \cup {None}, finding : Finding \cup {None}]
RunResult == [status : Statuses, per_rule : [Rule -> BOOLEAN],
              per_rule_errored : [Rule -> BOOLEAN]]

Emit(kind, node, finding) ==
    events' = Append(events, [kind |-> kind, node |-> node, finding |-> finding])

Clean(p)  == [passed |-> p, errored |-> FALSE]

Errored   == [passed |-> FALSE, errored |-> TRUE]

Init ==
    /\ phase = "created"
    /\ pc = [l \in Leaf |-> "new"]
    /\ outcome = [l \in Leaf |-> None]
    /\ findings = [n \in Node |-> None]
    /\ errors = {}
    /\ idx = 1
    /\ events = <<>>
    /\ result = None

-----------------------------------------------------------------------------
(* The leaf tasks: _run_leaf_inner. *)

LeafStart(l) ==
    /\ phase # "created"
    /\ pc[l] = "new"
    /\ pc' = [pc EXCEPT ![l] = "cache"]
    /\ Emit("check_started", l, None)
    /\ UNCHANGED <<phase, outcome, findings, errors, idx, result>>

LeafReturn(l, f) ==
    /\ pc' = [pc EXCEPT ![l] = "returned"]
    /\ outcome' = [outcome EXCEPT ![l] = f]
    /\ Emit("check_finished", l, f)
    /\ UNCHANGED <<phase, findings, errors, idx, result>>

LeafRaise(l) ==
    /\ pc' = [pc EXCEPT ![l] = "raised"]
    /\ UNCHANGED <<phase, outcome, findings, errors, idx, events, result>>

\* A cached CheckResult is returned as it was stored.
CacheHit(l) == /\ pc[l] = "cache"
               /\ \E p \in BOOLEAN : LeafReturn(l, Clean(p))

CacheMiss(l) == /\ pc[l] = "cache"
                /\ pc' = [pc EXCEPT ![l] = "llm"]
                /\ UNCHANGED <<phase, outcome, findings, errors, idx, events,
                               result>>

\* Seeded bug: the try takes the lookup in, and a database error degrades the leaf.
CacheRaiseBug(l) == pc[l] = "cache" /\ LeafReturn(l, Errored)

\* The lookup is outside the try: a database error leaves the task.
CacheRaise(l) == pc[l] = "cache" /\ LeafRaise(l)

\* execute_check returned a CheckResult.
CheckAnswer(l) == /\ pc[l] = "llm"
                  /\ \E p \in BOOLEAN : LeafReturn(l, Clean(p))

\* Seeded bug: an unavailable router sends the leaf back to the cache lookup.
CheckErroredBug(l) == /\ pc[l] = "llm"
                      /\ pc' = [pc EXCEPT ![l] = "cache"]
                      /\ UNCHANGED <<phase, outcome, findings, errors, idx,
                                     events, result>>

\* execute_check raised ProviderUnavailable or ExecutorError.
CheckErrored(l) == pc[l] = "llm" /\ LeafReturn(l, Errored)

\* execute_check raised anything else: PermanentError and unexpected types.
CheckRaise(l) == pc[l] = "llm" /\ LeafRaise(l)

LeafNext(l) ==
    \/ LeafStart(l)
    \/ CacheHit(l)
    \/ CacheMiss(l)
    \/ CacheRaise(l)
    \/ CheckAnswer(l)
    \/ CheckErrored(l)
    \/ CheckRaise(l)

-----------------------------------------------------------------------------
(* The run task: run and _run. *)

RunStart ==
    /\ phase = "created"
    /\ phase' = "gather"
    /\ Emit("run_started", None, None)
    /\ UNCHANGED <<pc, outcome, findings, errors, idx, result>>

\* Seeded bug: run_finished is emitted on the way out of every run.
AbortBug ==
    /\ phase = "gather"
    /\ \A l \in Leaf : pc[l] # "new"
    /\ \E l \in Leaf : pc[l] = "raised"
    /\ phase' = "aborted"
    /\ Emit("run_finished", None, None)
    /\ UNCHANGED <<pc, outcome, findings, errors, idx, result>>

\* gather propagates the first exception; no leaf task is cancelled.  gather
\* scheduled the first step of every leaf before any of them could wake this
\* task.
Abort ==
    /\ phase = "gather"
    /\ \A l \in Leaf : pc[l] # "new"
    /\ \E l \in Leaf : pc[l] = "raised"
    /\ phase' = "aborted"
    /\ UNCHANGED <<pc, outcome, findings, errors, idx, events, result>>

\* Seeded bug: the findings of the leaves lose their errored flag.
GatheredBug ==
    /\ phase = "gather"
    /\ \A l \in Leaf : pc[l] = "returned"
    /\ phase' = "walk"
    /\ findings' = [n \in Node |-> IF n \in Leaf THEN Clean(outcome[n].passed)
                                                ELSE None]
    /\ errors' = {l \in Leaf : outcome[l].errored}
    /\ UNCHANGED <<pc, outcome, idx, events, result>>

\* Every leaf returned: fill findings and errors.
Gathered ==
    /\ phase = "gather"
    /\ \A l \in Leaf : pc[l] = "returned"
    /\ phase' = "walk"
    /\ findings' = [n \in Node |-> IF n \in Leaf THEN outcome[n] ELSE None]
    /\ errors' = {l \in Leaf : outcome[l].errored}
    /\ UNCHANGED <<pc, outcome, idx, events, result>>

SkipLeaf ==
    /\ phase = "walk"
    /\ idx \in 1..Len(Topo)
    /\ Topo[idx] \in Leaf
    /\ idx' = idx + 1
    /\ UNCHANGED <<phase, pc, outcome, findings, errors, events, result>>

EvalAggregator ==
    /\ phase = "walk"
    /\ idx \in 1..Len(Topo)
    /\ Topo[idx] \in Agg
    /\ LET f == Aggregate(Topo[idx], findings)
       IN  /\ findings' = [findings EXCEPT ![Topo[idx]] = f]
           /\ Emit("check_finished", Topo[idx], f)
    /\ idx' = idx + 1
    /\ UNCHANGED <<phase, pc, outcome, errors, result>>

\* Seeded bug: the status forgets the errored rules.
RunStatusBug(passed, errored) ==
    IF \A r \in Rule : passed[r] THEN "PASSED" ELSE "FAILED"
RunStatus(passed, errored) ==
    IF \E r \in Rule : errored[r] THEN "DEGRADED"
    ELSE IF \A r \in Rule : passed[r] THEN "PASSED" ELSE "FAILED"

\* Roll-up, run_finished, return.
Finish ==
    /\ phase = "walk"
    /\ idx = Len(Topo) + 1
    /\ phase' = "finished"
    /\ LET passed  == [r \in Rule |-> findings[Root[r]].passed]
           errored == [r \in Rule |-> findings[Root[r]].errored]
       IN  result' = [status           |-> RunStatus(passed, errored),
                      per_rule         |-> passed,
                      per_rule_errored |-> errored]
    /\ Emit("run_finished", None, None)
    /\ UNCHANGED <<pc, outcome, findings, errors, idx>>

RunNext == RunStart \/ Abort \/ Gathered \/ SkipLeaf \/ EvalAggregator \/ Finish

\* The run task is over and no leaf task is left: nothing more happens.
Quiescent ==
    /\ phase \in {"finished", "aborted"}
    /\ \A l \in Leaf : pc[l] \in {"returned", "raised"}
    /\ UNCHANGED vars

Next == RunNext \/ (\E l \in Leaf : LeafNext(l)) \/ Quiescent

Spec == Init /\ [][Next]_vars

\* The event loop runs every task that is ready.  A leaf that waits for the
\* database or the router gets an answer: the adapters time out, and the
\* router's retries are bounded.
Fairness == WF_vars(RunNext) /\ \A l \in Leaf : WF_vars(LeafNext(l))

FairSpec == Spec /\ Fairness

-----------------------------------------------------------------------------
(* Properties. *)

\* Types: where the tasks of orchestrator.py may be, and what it may file.
TypeOK ==
    /\ phase \in Phases
    /\ pc \in [Leaf -> LeafPcs]
    /\ outcome \in [Leaf -> Finding \cup {None}]
    /\ findings \in [Node -> Finding \cup {None}]
    /\ errors \subseteq Leaf
    /\ idx \in 1..(Len(Topo) + 1)
    /\ events \in Seq(Event)
    /\ result \in RunResult \cup {None}

\* A verdict that is not marked errored is the one every completion of the
\* missing leaves gives: _aggregate never lets the placeholder passed=False of
\* an errored child decide a rule.
VerdictSound ==
    \A n \in Node : findings[n] # None /\ ~findings[n].errored =>
        \A v \in Models : Completes(v, findings) => v[n] = findings[n].passed

\* A node is marked errored only when its verdict really hangs on the leaves
\* that errored: it is whatever they all would have said.  _aggregate does not
\* degrade a node that its clean children already decide.
DegradedExact ==
    \A n \in Node : findings[n] # None /\ findings[n].errored =>
        \A b \in BOOLEAN : \A v \in Models :
            CompletesWith(v, findings, b) => v[n] = b

\* What the RunResult promises its reader (_run_status and the roll-up):
\* PASSED holds whatever the missing leaves would have said, FAILED names a
\* rule that no answer of theirs could have saved, and DEGRADED means that
\* some rule is open and that errors says why.
ResultSound ==
    result # None =>
        LET Completions == {v \in Models : Completes(v, findings)}
        IN  /\ result.status = "PASSED" =>
                   \A v \in Completions : \A r \in Rule : v[Root[r]]
            /\ result.status = "FAILED" =>
                   \E r \in Rule : \A v \in Completions : ~v[Root[r]]
            /\ result.status = "DEGRADED" =>
                   /\ errors # {}
                   /\ \E r \in Rule : \A b \in BOOLEAN : \A v \in Models :
                         CompletesWith(v, findings, b) => v[Root[r]] = b

FinishedBefore(n, j) ==
    \E i \in 1..(j-1) : events[i].kind = "check_finished" /\ events[i].node = n

\* The order on_event's consumers (the SSE stream, the UI's reducer) rely on:
\* run_started first and once, a leaf's check_started before its
\* check_finished, an aggregator after all of its children, no node twice, and
\* run_finished after every node and last.
EventOrder ==
    \A j \in 1..Len(events) : LET e == events[j] IN
        /\ e.kind = "run_started" <=> j = 1
        /\ \A i \in 1..(j-1) : events[i].kind = e.kind => events[i].node # e.node
        /\ e.kind = "check_finished" /\ e.node \in Leaf =>
              \E i \in 1..(j-1) : events[i].kind = "check_started"
                                /\ events[i].node = e.node
        /\ e.kind = "check_finished" /\ e.node \in Agg =>
              \A c \in Children[e.node] : FinishedBefore(c, j)
        /\ e.kind = "run_finished" =>
              j = Len(events) /\ \A n \in Node : FinishedBefore(n, j)

\* The verdicts streamed one by one are those of the RunResult: gather hands the
\* run task what the leaf tasks streamed, and the run task files it under the
\* same node.
StreamAgrees ==
    result # None => \A i \in 1..Len(events) :
        events[i].kind = "check_finished" =>
            events[i].finding = findings[events[i].node]

\* The run ends, as the leaves decide: it aborts if one raised and finishes
\* otherwise, and in either case no leaf task is left running for ever.
RunSettles ==
    <>[](/\ \A l \in Leaf : pc[l] \in {"returned", "raised"}
         /\ phase = IF \E l \in Leaf : pc[l] = "raised" THEN "aborted"
                                                       ELSE "finished")
=============================================================================
