----------------------------- MODULE FindingsStore -----------------------------
(***************************************************************************)
(* The findings table as cache and as record: concurrent runs over one     *)
(* document that look their leaves up (db/cache.py, get_cached_finding),   *)
(* evaluate what they miss, and write everything back in one transaction   *)
(* at the end (persist_run, called by runner() of api/runs.py), while an   *)
(* operator resets the data (reset_data of api/resources.py).  Postgres is *)
(* read committed: a lookup sees what has been committed, and TRUNCATE     *)
(* waits for the transactions that have written to the table.              *)
(***************************************************************************)
EXTENDS Integers, FiniteSets

CONSTANTS
    Run,        \* the runs requested
    Check,      \* the leaves that every run has: numbers, in the graph's order
    Reset,      \* the requests to reset the data
    None


VARIABLES
    pc,         \* pc[r]: where runner() of run r is
    skip,       \* skip[r]: the request's skip_cache
    leaf,       \* leaf[r][k]: where the task of leaf k of run r is
    finding,    \* finding[r][k]: its finding, None if absent or errored
    table,      \* the committed rows of findings
    txn,        \* txn[r]: the rows inserted by r's open transaction
    clock,      \* clock[k]: created_at of the last row of k: only the rows of
                \* one leaf are compared
    evals,      \* evals[k]: how many verdicts the LLM has given on k
    reset,      \* reset[a]: where request a is
    told,       \* told[a]: its n_findings
    \* Observed only:
    warm,       \* warm[r]: the rows committed before r started, no reset since
    since       \* since[r]: the resets that were over when r started

runVars   == <<pc, skip, leaf, finding>>
dbVars    == <<table, txn, clock>>
resetVars == <<reset, told>>
vars == <<runVars, dbVars, evals, resetVars, warm, since>>

\* A finding names the evaluation it comes from and whether it was cached.
Finding == [eval : Nat, cached : BOOLEAN]
Row     == [run : Run, check : Check, eval : Nat, stamp : Nat]

ASSUME StoreAssumption ==
    /\ Check \subseteq Nat
    /\ IsFiniteSet(Reset)
    /\ None \notin Finding
    /\ None \notin Row

Init ==
    /\ pc = [r \in Run |-> "new"]
    /\ skip = [r \in Run |-> FALSE]
    /\ leaf = [r \in Run |-> [k \in Check |-> "lookup"]]
    /\ finding = [r \in Run |-> [k \in Check |-> None]]
    /\ table = {}
    /\ txn = [r \in Run |-> {}]
    /\ clock = [k \in Check |-> 0]
    /\ evals = [k \in Check |-> 0]
    /\ reset = [a \in Reset |-> "new"]
    /\ told = [a \in Reset |-> 0]
    /\ warm = [r \in Run |-> {}]
    /\ since = [r \in Run |-> 0]

-----------------------------------------------------------------------------
(* A run. *)

\* POST /runs.
Start(r) ==
    /\ pc[r] = "new"
    /\ pc' = [pc EXCEPT ![r] = "running"]
    /\ \E s \in BOOLEAN : skip' = [skip EXCEPT ![r] = s]
    /\ warm' = [warm EXCEPT ![r] = table]
    /\ since' = [since EXCEPT ![r] = Cardinality({a \in Reset : reset[a] = "done"})]
    /\ UNCHANGED <<leaf, finding, dbVars, evals, resetVars>>

\* Seeded bug: ORDER BY created_at without DESC.
CachedBug(k) ==
    LET rows == {row \in table : row.check = k}
    IN  IF rows = {} THEN None
        ELSE CHOOSE row \in rows : \A other \in rows : other.stamp >= row.stamp

\* get_cached_finding: the row with the latest created_at, if there is one.
Cached(k) ==
    LET rows == {row \in table : row.check = k}
    IN  IF rows = {} THEN None
        ELSE CHOOSE row \in rows : \A other \in rows : other.stamp <= row.stamp

\* Seeded bug: the choice between NoCache and the cache is turned around.
LookupBug(r, k) ==
    /\ pc[r] = "running"
    /\ leaf[r][k] = "lookup"
    /\ LET row == IF skip[r] THEN Cached(k) ELSE None
       IN  IF row = None
           THEN /\ leaf' = [leaf EXCEPT ![r][k] = "llm"]
                /\ UNCHANGED finding
           ELSE /\ leaf' = [leaf EXCEPT ![r][k] = "done"]
                /\ finding' = [finding EXCEPT ![r][k] =
                                  [eval |-> row.eval, cached |-> TRUE]]
    /\ UNCHANGED <<pc, skip, dbVars, evals, resetVars, warm, since>>

\* The lookup of one leaf, on a connection of its own; NoCache under skip_cache.
Lookup(r, k) ==
    /\ pc[r] = "running"
    /\ leaf[r][k] = "lookup"
    /\ LET row == IF skip[r] THEN None ELSE Cached(k)
       IN  IF row = None
           THEN /\ leaf' = [leaf EXCEPT ![r][k] = "llm"]
                /\ UNCHANGED finding
           ELSE /\ leaf' = [leaf EXCEPT ![r][k] = "done"]
                /\ finding' = [finding EXCEPT ![r][k] =
                                  [eval |-> row.eval, cached |-> TRUE]]
    /\ UNCHANGED <<pc, skip, dbVars, evals, resetVars, warm, since>>

\* The LLM answers.  An evaluation is its number: two of one check may differ
\* in everything else.
Evaluate(r, k) ==
    /\ pc[r] = "running"
    /\ leaf[r][k] = "llm"
    /\ leaf' = [leaf EXCEPT ![r][k] = "done"]
    /\ evals' = [evals EXCEPT ![k] = @ + 1]
    /\ finding' = [finding EXCEPT ![r][k] =
                      [eval |-> evals[k] + 1, cached |-> FALSE]]
    /\ UNCHANGED <<pc, skip, dbVars, resetVars, warm, since>>

\* The leaf errored: a finding without a CheckResult, which no table keeps.
EvaluateErrored(r, k) ==
    /\ pc[r] = "running"
    /\ leaf[r][k] = "llm"
    /\ leaf' = [leaf EXCEPT ![r][k] = "done"]
    /\ UNCHANGED <<pc, skip, finding, dbVars, evals, resetVars, warm, since>>

\* A lookup or an evaluation raised: the run is over and nothing is kept.  (Its
\* leaf tasks live on, but no longer reach the store: see Orchestrator.)
RunCrash(r) ==
    /\ pc[r] = "running"
    /\ \E k \in Check : leaf[r][k] # "done"
    /\ pc' = [pc EXCEPT ![r] = "over"]
    /\ leaf' = [leaf EXCEPT ![r] = [k \in Check |-> "done"]]
    /\ finding' = [finding EXCEPT ![r] = [k \in Check |-> None]]
    /\ UNCHANGED <<skip, dbVars, evals, resetVars, warm, since>>

\* The leaves whose finding has a CheckResult, a cached one like any other.
Kept(r) == {k \in Check : finding[r][k] # None}

\* persist_run opens its transaction and inserts the row of the run.
PersistBegin(r) ==
    /\ pc[r] = "running"
    /\ \A k \in Check : leaf[r][k] = "done"
    /\ pc' = [pc EXCEPT ![r] = "writing"]
    /\ UNCHANGED <<skip, leaf, finding, dbVars, evals, resetVars, warm, since>>

\* The first of them without a row.
InTurn(r, k) ==
    LET inserted == {row.check : row \in txn[r]}
    IN  /\ k \in Kept(r) \ inserted
        /\ \A m \in Kept(r) \ inserted : k <= m

\* Seeded bug: created_at has no default: the rows carry no time to order them by.
InsertFindingBug(r, k) ==
    /\ pc[r] = "writing"
    /\ InTurn(r, k)
    /\ txn' = [txn EXCEPT ![r] = @ \cup {[run |-> r, check |-> k,
                  eval |-> finding[r][k].eval, stamp |-> None]}]
    /\ UNCHANGED <<runVars, table, clock, evals, resetVars, warm, since>>

\* insert_findings, one row after the other, stamped by clock_timestamp().
InsertFinding(r, k) ==
    /\ pc[r] = "writing"
    /\ InTurn(r, k)
    /\ clock' = [clock EXCEPT ![k] = @ + 1]
    /\ txn' = [txn EXCEPT ![r] = @ \cup {[run |-> r, check |-> k,
                  eval |-> finding[r][k].eval, stamp |-> clock[k] + 1]}]
    /\ UNCHANGED <<runVars, table, evals, resetVars, warm, since>>

PersistCommit(r) ==
    /\ pc[r] = "writing"
    /\ {row.check : row \in txn[r]} = Kept(r)
    /\ pc' = [pc EXCEPT ![r] = "over"]
    /\ table' = table \cup txn[r]
    /\ txn' = [txn EXCEPT ![r] = {}]
    /\ UNCHANGED <<skip, leaf, finding, clock, evals, resetVars, warm, since>>

\* Seeded bug: no conn.transaction(): what was inserted before the failure stays.
PersistFailBug(r) ==
    /\ \/ pc[r] = "running" /\ \A k \in Check : leaf[r][k] = "done"
       \/ pc[r] = "writing"
    /\ pc' = [pc EXCEPT ![r] = "over"]
    /\ table' = table \cup txn[r]
    /\ txn' = [txn EXCEPT ![r] = {}]
    /\ UNCHANGED <<skip, leaf, finding, clock, evals, resetVars, warm, since>>

\* connect, an insert or the commit failed: rolled back, logged, swallowed.
PersistFail(r) ==
    /\ \/ pc[r] = "running" /\ \A k \in Check : leaf[r][k] = "done"
       \/ pc[r] = "writing"
    /\ pc' = [pc EXCEPT ![r] = "over"]
    /\ txn' = [txn EXCEPT ![r] = {}]
    /\ UNCHANGED <<skip, leaf, finding, table, clock, evals, resetVars, warm,
                   since>>

RunNext(r) ==
    \/ Start(r)
    \/ \E k \in Check : Lookup(r, k) \/ Evaluate(r, k) \/ EvaluateErrored(r, k)
    \/ RunCrash(r)
    \/ PersistBegin(r)
    \/ \E k \in Check : InsertFinding(r, k)
    \/ PersistCommit(r)
    \/ PersistFail(r)

-----------------------------------------------------------------------------
(* DELETE /admin/data: reset_data. *)

\* The COUNTs, which leave their transaction open.
ResetCount(a) ==
    /\ reset[a] = "new"
    /\ reset' = [reset EXCEPT ![a] = "counted"]
    /\ told' = [told EXCEPT ![a] = Cardinality(table)]
    /\ UNCHANGED <<runVars, dbVars, evals, warm, since>>

\* Seeded bug: each COUNT is a transaction of its own and holds no lock.
ResetTruncateBug(a) ==
    /\ reset[a] = "counted"
    /\ \A r \in Run : pc[r] # "writing"
    /\ reset' = [reset EXCEPT ![a] = "done"]
    /\ table' = {}
    /\ warm' = [r \in Run |-> {}]
    /\ UNCHANGED <<runVars, txn, clock, evals, told, since>>

\* TRUNCATE and commit.  It needs the tables for itself: no persist_run is
\* under way, and no other request is between its COUNT and its TRUNCATE.
ResetTruncate(a) ==
    /\ reset[a] = "counted"
    /\ \A r \in Run : pc[r] # "writing"
    /\ \A b \in Reset \ {a} : reset[b] # "counted"
    /\ reset' = [reset EXCEPT ![a] = "done"]
    /\ table' = {}
    /\ warm' = [r \in Run |-> {}]
    /\ UNCHANGED <<runVars, txn, clock, evals, told, since>>

\* Seeded bug: reset_data catches the failure and starts over at its COUNTs.
ResetDeadlockBug(a) ==
    /\ reset[a] = "counted"
    /\ \E b \in Reset \ {a} : reset[b] = "counted"
    /\ reset' = [reset EXCEPT ![a] = "new"]
    /\ UNCHANGED <<runVars, dbVars, evals, told, warm, since>>

\* Two requests hold the table by their COUNTs and both want it for themselves:
\* Postgres picks a victim, whose request fails.
ResetDeadlock(a) ==
    /\ reset[a] = "counted"
    /\ \E b \in Reset \ {a} : reset[b] = "counted"
    /\ reset' = [reset EXCEPT ![a] = "failed"]
    /\ UNCHANGED <<runVars, dbVars, evals, told, warm, since>>

ResetNext(a) == ResetCount(a) \/ ResetTruncate(a) \/ ResetDeadlock(a)

Quiescent ==
    /\ \A r \in Run : pc[r] = "over"
    /\ \A a \in Reset : reset[a] \in {"done", "failed"}
    /\ UNCHANGED vars

Next ==
    \/ \E r \in Run : RunNext(r)
    \/ \E a \in Reset : ResetNext(a)
    \/ Quiescent

Spec == Init /\ [][Next]_vars

\* Lookups, evaluations and transactions end; requests are served.
FairSpec == /\ Spec
            /\ \A r \in Run : WF_vars(RunNext(r))
            /\ \A a \in Reset : WF_vars(ResetNext(a))

-----------------------------------------------------------------------------
(* Properties. *)

\* Types: the states of a run and of a reset, rows of findings, their clock.
TypeOK ==
    /\ pc \in [Run -> {"new", "running", "writing", "over"}]
    /\ skip \in [Run -> BOOLEAN]
    /\ leaf \in [Run -> [Check -> {"lookup", "llm", "done"}]]
    /\ finding \in [Run -> [Check -> Finding \cup {None}]]
    /\ table \subseteq Row
    /\ txn \in [Run -> SUBSET Row]
    /\ clock \in [Check -> Nat]
    /\ evals \in [Check -> Nat]
    /\ reset \in [Reset -> {"new", "counted", "done", "failed"}]
    /\ warm \in [Run -> SUBSET Row]
    /\ told \in [Reset -> Nat]
    /\ since \in [Run -> 0..Cardinality(Reset)]

\* A run's findings are in the table all or not at all, whatever fails and
\* whenever the data is reset: no lookup and no reader of the table ever sees
\* half of a run.
AllOrNothing ==
    \A r \in Run :
        LET rows == {row \in table : row.run = r}
        IN  rows # {} =>
                /\ {row.check : row \in rows} = Kept(r)
                /\ \A row \in rows : row.eval = finding[r][row.check].eval

\* The newest row was passed over by the run that wrote old: each of the two had
\* started before the other was committed.
Overlap(row, old) == row \notin warm[old.run] /\ old \notin warm[row.run]

\* The cache prefers an older verdict of a leaf to a newer one in the table only
\* because runs overlapped: some run that wrote the older verdict down, its own
\* or one it had from the cache, did so after the newer one was written, and
\* neither of the two had started after the other's commit.  (A third run may
\* have copied the older verdict since.)
StaleOnlyByOverlap ==
    \A k \in Check : Cached(k) # None =>
        \A row \in table :
            row.check = k /\ row.eval > Cached(k).eval =>
                \E old \in table :
                    /\ old.check = k
                    /\ old.eval = Cached(k).eval
                    /\ old.stamp >= row.stamp
                    /\ Overlap(row, old)

\* "Re-running the same rule over the same doc returns this row instead of
\* calling the LLM" (repo.py:108): a run that uses the cache never evaluates a
\* leaf whose finding was committed before the run started, unless the data was
\* reset meanwhile.
WarmRunIsFree ==
    \A r \in Run : ~skip[r] =>
        \A k \in {row.check : row \in warm[r]} :
            leaf[r][k] # "llm" /\ (finding[r][k] # None => finding[r][k].cached)

\* Every run and every reset ends: two resets that hold each other up do not
\* go on doing so, as they could if reset_data tried again.
AllEnd == <>(/\ \A r \in Run : pc[r] = "over"
             /\ \A a \in Reset : reset[a] \in {"done", "failed"})

\* "Returns counts removed for the UI to confirm" (resources.py:153): a run that
\* commits between COUNT and TRUNCATE is removed and not counted, but a reset
\* never reports what it did not remove, nor what another reset removed.
CountsAreRemoved ==
    [][\A a \in Reset : reset[a] # "done" /\ reset'[a] = "done"
                           => told[a] <= Cardinality(table)]_vars

\* "Wipe runs/findings/router_calls - next run will hit the LLM for real"
\* (AdminView.tsx:50): a run that starts after a reset is not served a verdict
\* of a run from before it.
FreshAfterReset ==
    \A p, r \in Run, k \in Check :
        finding[r][k] # None /\ finding[r][k].cached
        /\ finding[p][k] = [eval |-> finding[r][k].eval, cached |-> FALSE]
            => since[p] >= since[r]
=============================================================================
