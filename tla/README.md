# A TLA+ model of the compliance workflow

The repository compiles compliance rules (YAML) into a graph of atomic checks,
asks an LLM each check about a document, combines the answers into verdicts and
streams the progress to a browser. This directory models the parts of it that
are concurrent, retry, cache or combine partial results, model-checks them with
TLC, and proves every safety property of the passing runs with TLAPS: for every
graph, every number of calls, adapters and attempts, every list of rules, every
document, and every number of browsers, runs, resets, threads and processes.

Paths below are relative to `src/src/compliance_workflow_demo/` unless they
start with `src/`.

## The system

| component | code | state | operations |
|---|---|---|---|
| rule compiler | `dsl/compiler.py`, `dsl/schema.py`, `dsl/graph.py` | the graph it builds: nodes by content hash, `topo_order`, `roots` | `compile_rules` |
| orchestrator | `executor/orchestrator.py`, `executor/run.py`, `executor/cache.py` | `findings`, `errors`, one task per leaf | `run`: fan out, walk, roll up; events |
| leaf check | `executor/check.py`, `executor/prompts.py` | none; reads the chunks of the document | `execute_check` |
| LLM router | `router/router.py`, `router/retry.py`, `router/types.py` | position in the failover and retry loops | `route`, `on_call` |
| LLM adapters | `router/adapters/` | none | `complete` |
| run stream | `api/runs.py`, `api/state.py`, `src/frontend/src/hooks/useRunStream.ts` | `RunState`: event queue, `completed`, `result`; one SSE generator per connection | `create_run`, `get_run`, `stream_run` |
| findings store | `db/repo.py`, `db/cache.py`, `api/resources.py`, `src/migrations/` | Postgres: `runs`, `findings`, `router_calls` | `persist_run`, `get_cached_finding`, `reset_data` |
| ingest | `ingest/` | none | `parse_pdf_bytes`, `chunk_pages` |
| migrations | `db/migrate.py` | table `_migrations` | `apply_migrations` |
| log buffer | `api/log_buffer.py` | a bounded deque | `emit`, `snapshot` |
| application | `api/app.py`, `api/auth.py`, `api/resources.py` | `app.state`: rules, documents, adapters, `db_url` | start, shutdown, read endpoints |
| tracing, scripts, rest of the frontend | `obs/`, `src/scripts/`, `src/frontend/` | none that decides anything | |

How they interact: `POST /runs` compiles the rules and creates one task,
`runner()`. It calls `Orchestrator.run`, which creates one task per leaf with
`asyncio.gather`. A leaf looks its verdict up in the findings store through
`cache.get`, and asks the router otherwise; the router asks one adapter after
another. Every step is reported through the `on_event` callback, which puts an
event on the queue of the run; `GET /runs/{id}/stream` generators take from that
queue and write to browsers. When the orchestrator returns, `runner()` writes
run, findings and router calls in one transaction, and so fills the cache of the
runs to come. `DELETE /admin/data` empties all three tables at any time. Before
any of this, `lifespan` chooses the adapters, migrates the database, remembers
its URL if that succeeded, and attaches the log buffer that `GET /admin/logs`
reads.

What is hard: tasks interleave at every `await`; a leaf may degrade (router
exhausted, answer unreadable) or raise, and a raise ends the run task while its
siblings live on; a degraded leaf carries the placeholder `passed=False`;
connections break and come back as a second generator on the same queue; a
timeout races a put; cached verdicts are copied forward by runs that overlap; a
transaction, a reset and another reset compete for locks; processes that start
together apply the same migrations, and die in between; threads log into a
buffer while it is read. `PROJECT.json` lists
each hazard at its line with the properties that cover it.

What makes each component correct:

- *orchestrator*: no verdict rests on a leaf nobody answered; only open verdicts
  are degraded; the event stream is ordered and agrees with the result; every
  run settles.
- *router*: each provider is asked in turn, as often as configured and no more;
  unavailable only when all are used up; one record per answer; every call ends.
- *adapters, and a run as a whole*: an outage never aborts a run and a failed
  lookup never passes for one, one healthy provider is enough, and what is persisted of the calls agrees with the result.
- *run stream*: every event is accounted for and handled in order; generators
  end; a page stays busy only if the run crashed or its end went elsewhere.
- *findings store*: all or nothing of a run; an old verdict is preferred to a
  newer one only if writers of the two overlapped; warm runs ask nothing again;
  resets end and report no more than they removed.
- *compiler*: children before parents, one node per content, a root for every
  rule, and the graph means what the rule trees mean.
- *leaf check*: a page reference is a page on which the quote stands; the guard
  against invented quotes does not strike real ones.
- *ingest*: chunks stay within their pages, and every passage up to the overlap
  lies in some chunk.
- *migrations*: each file once and in order, whatever stops in between; a process
  that persists has the whole schema; one that starts alone does persist.
- *log buffer*: the newest entries in order; a snapshot is that of one instant.

## Modules

```
RuleCompiler         rule trees into one graph
  RuleMeaning        what graph and trees have in common
    MCRuleCompiler       pairs of small rules for TLC
    RuleCompilerProofs   theorems
RuleGraph            the graph, three-valued aggregation, two-valued meaning
  Orchestrator       EXTENDS RuleGraph     one run
    MCOrchestrator       a graph of 3 leaves and 4 aggregators for TLC
    OrchestratorProofs   theorems
Chunker              pages into overlapping chunks
  LeafCheck          EXTENDS Chunker       one check over the chunks
    MCLeafCheck          documents of two short pages
    LeafCheckProofs      theorems about both
FailoverPromise      abstract: providers given up one by one
  Router             implements it: retry inside failover, records
    MCRouter             2 calls, 2 adapters, 3 attempts
Adapters             what a reply or an error of the wire becomes
  CheckedRun         EXTENDS Router, Adapters; implements Orchestrator
    MCCheckedRun         2 leaves, 2 aggregators, 2 providers
    CheckedRunProofs     theorems about Router, its refinement, the whole
RunStream            task, queue, SSE generators, browsers
    MCRunStream          2 browsers
    RunStreamProofs      theorems
FindingsStore        lookups, end-of-run transactions, resets
    MCFindingsStore      2 runs, 2 resets
    FindingsStoreProofs  theorems
Migrations           processes that start over one database
    MCMigrations         3 processes
    MigrationsProofs     theorems
LogBuffer            threads that log, and a snapshot
    MCLogBuffer          2 threads
    LogBufferProofs      theorems
```

Definitions whose name ends in `Bug` are seeded bugs: variants of the definition
that follows them, used to check that each property notices one. No
specification uses them.

### RuleCompiler and RuleMeaning

| `dsl/compiler.py` | action |
|---|---|
| `compile_rules`, head of the loop over the rules | `VisitRoot`, or `Refuse` for a duplicate id |
| `visit`, the recursive call for a child | `VisitChild` |
| `visit`, `_hash_node`, `_register`, return to the parent or to the loop | `Return`, `ReturnRoot` |
| the sanity check over `topo_order` and the end | `Finish` |

`stack` is the Python call stack of `visit`: a frame is a node and the ids that
its children have returned so far. A hash is the payload that is hashed, so
sha256 is taken to be injective, and `sorted(child_ids)` is the multiset of the
ids: it forgets the order and keeps repetitions, as the code does.
`RuleMeaning` holds what needs recursion over trees: their value, their
sub-trees, and their equality up to the order of children. These are recursive
functions, which TLC evaluates and the prover can reason about.

### RuleGraph and Orchestrator

An action is the code between two awaits. `pc[l]` says where the task of leaf
`l` is in `_run_leaf_inner`; `phase` and `idx` say where `_run` is.

| code | action |
|---|---|
| `_run` 85 | `RunStart` |
| `_run_leaf_inner` 158-160 | `LeafStart` |
| 162-180, cache hit; 162, 182 miss; lookup raises | `CacheHit`, `CacheMiss`, `CacheRaise` |
| 183-184, 202-216 an answer | `CheckAnswer` |
| 185-199 `ProviderUnavailable`, `ExecutorError` | `CheckErrored` |
| 184, 200 anything else | `CheckRaise` |
| 93-95 gather propagates; 93-99 gather returns | `Abort`, `Gathered` |
| 102-105, 106-120 | `SkipLeaf`, `EvalAggregator` |
| 122-145 | `Finish` |

The LLM, the database and the document are the nondeterminism of the leaf
actions. `RuleGraph` also defines what a rule *means*: the Boolean valuations of
all nodes that obey the connectives (`Models`), and those that agree with the
leaves that answered (`Completes`). `VerdictSound`, `DegradedExact` and
`ResultSound` compare the three-valued evaluation of the code with that meaning,
so they do not repeat the truth table of `_aggregate`. `DegradedExact` uses the
two completions in which all missing leaves say the same: for a monotone graph
these are the extremes.

`ResultSound` reads FAILED as naming a rule that no missing answer could save.
That holds because `_run_status` returns FAILED only when no rule is degraded.

### FailoverPromise and Router

`pc`, `adapter` and `attempt` are the position in the two loops of `route`;
`failures` is kept for the properties. One `TransientError` takes exactly one of
`Backoff` (attempts left), `Failover` (adapters left) and `Exhaust`. `Retry` is
the end of the backoff, so other calls run meanwhile. `Raise` is
`PermanentError` and every exception outside `RouterError`. A record is appended
by `Succeed` only, which is what the code does and not what its comments say
(see the findings). `Router` implements `FailoverPromise` with
`givenUp = adapter - 1` (all of them when unavailable).

### Adapters and CheckedRun

`Adapters` classifies one `complete()` call of `anthropic.py` or `openai.py`:
`IsTransient` is `TransientError`, `IsAnswer` a response, and everything else an
exception that is passed on, be it `PermanentError`, an `httpx` error that is
not caught, or one of `resp.json()` and of the indexing after it. The two files
differ in status 529, which is a 5xx in either case, and in that an OpenAI
message may have no text.

`CheckedRun` is a run as `create_run` builds it. It EXTENDS `Router` and makes
an INSTANCE of `Orchestrator` in which the leaves are the calls of `route`, so
each of its steps is a step of one or of both:

| code | action | `Orchestrator` | `Router` |
|---|---|---|---|
| `_run_leaf_inner` up to the lookup | `Begin` | `LeafStart` | |
| `cache.get` answers, or raises | `Lookup` | `CacheHit`, `CacheRaise` | |
| a miss, `execute_check`, `route` | `Ask` | `CacheMiss` | `Route` |
| the end of a backoff | `Sleep` | | `Retry` |
| `complete()` raises `TransientError` | `Hear` | `CheckErrored` after the last one | `Backoff`, `Failover`, `Exhaust` |
| `complete()` returns | `Hear` | `CheckAnswer`, `CheckErrored` (not readable), `CheckRaise` (no text) | `Succeed` |
| `complete()` raises anything else | `Hear` | `CheckRaise` | `Raise` |
| the task of the run | `RunStep` | `RunNext` | |

`order` is the chain with the request's `primary` in front, `lookups` how the
cache answers in this run (never, as it may, or with errors), and `wire` the
health of each provider, fixed for a run: healthy, out, rejecting, or any reply
at any time. This is what `OutageOnlyDegrades` quantifies over: with providers
that are healthy or out the run has a result, and its errors are nobody's if one
is healthy, and everybody's who had to ask if none is. It also keeps the two
kinds of failure apart: with such providers a run goes without a result only
when a lookup raised, and a lookup that raised is never a degraded leaf.
(`RunSettles` alone would count an abort by an outage as settling.) The
composition is also
where the fairness that `Orchestrator` assumes of `execute_check` is earned:
`ImplementsRun` is `Orchestrator`'s fair specification.

### Chunker and LeafCheck

`Chunker` is `chunk_pages` with one action per turn of its loops: `SkipPage`,
`WholePage`, `Window`, `LastWindow`, and `Refuse` for the `ValueError` of an
overlap that leaves no step. A page is the sequence of the tokens of its
stripped text, a chunk the range of tokens that its text is decoded from.
`LeafCheck` continues with `execute_check` over these chunks. The LLM is the
environment: any verdict with any quote (`Answered`), or a reply that is not the
object asked for (`Unreadable`). `Hits` and `ResolvePage` are `_resolve_page`,
`Collapse` is `" ".join(t.split())`, token by token: `Squeezed(t)[n]` is the
first `n` tokens with each run of white space made one blank. `Verdict` is the
guard and the result. In
`LeafCheck` a token is a character, so that chunk boundaries may fall anywhere in
a quote. Left out: what decoding does to a character that is torn between two
tokens, and the tolerant reading of JSON.

### RunStream

The events of a run are numbers in the order of emission. `task` is `runner()`;
`queue`, `completed` and `result` are `RunState`. A client has two generator
slots, since a reconnected `EventSource` may find its previous generator still
running. The queue is unbounded, so `put` never suspends: `run_finished` and
`state.result` are set in one step. `Timeout` may happen although an event has
just been put, because `wait_for` cancels its inner `get` when the timer fires.
Blocked getters are served in any order; asyncio serves them first come first
served, so the model allows more behaviours than the code. `Busy` is the
condition under which `App.tsx` disables the Run button.

### FindingsStore

Runs over one document that have the same leaves. A finding names the evaluation
it comes from (`eval`), which lets the properties tell a copy from an
evaluation. `persist_run` is a transaction: `PersistBegin` takes the row lock of
`runs`, `InsertFinding` writes one row with `clock_timestamp()`, `PersistCommit`
publishes all, `PersistFail` is any failure. `ResetCount` reads the number that
the request will report (`told`). `ResetTruncate` waits for every transaction
that has begun to write, and for any other reset that has counted;
`ResetDeadlock` is Postgres choosing a victim, whose request fails and is not
tried again: `AllEnd` is lost if it is, since two resets can fail each other for
ever. A run and a reset cannot deadlock, because both take `runs` first. `warm` and `since` are history
variables for the properties: what was committed when a run started, and how
many resets were over by then.

### Migrations

| code | action |
|---|---|
| `lifespan` up to `apply_migrations` | `Start` |
| a `CREATE TABLE IF NOT EXISTS`: of `_migrations`, or in a file | `Create` |
| the `SELECT` of the applied names | `Select` |
| the `INSERT` of a name | `Insert` |
| a transaction commits; the next file, or `db_url` | `Commit` |
| an exception, which `lifespan` logs and survives | `GiveUp`, in `Wake`, `Insert` and `Fault` |
| the process dies, in its start or later | `Crash` |

The statements are atomic, transactions are not: what a process has created is
in `holds` until it commits. Postgres, which is external to the code, lets the
second of two transactions that create the same table wait (`Wake` is the end of
that) and fails it if the first commits; it does not block on a table that is
there. `Fault` includes a commit that was made although its acknowledgement was
lost. A file stands for one table: the other statements of a file create further
tables and indexes, `IF NOT EXISTS` as well, in the same transaction. `applied`
and `excused` are history variables.

### LogBuffer

`Number`, `Drop` and `AppendEntry` are `emit`, which `logging` calls under the
lock of the handler: the id is given first, and the append is under `_lock`.
`Open` is `snapshot` up to the creation of the iterator, which is all that it
does under `_lock`; `Step`, `Exhaust` and `Mutated` are the turns of its loop.
A deque's iterator raises when the deque was changed after the iterator's
creation, unless it has nothing left to give (the test of `Mutated`).
`SnapshotIsAnInstant` says what the list is without saying how to build it:
sorted, of wanted entries only, within the limit, and complete up to the limit.

## Runs

| run | instance | states | shows |
|---|---|---|---|
| `rule_compiler` | two rules, of depth two and one, at most 2 children, 2 leaves | 262 k | the graph is in order, means what the rules mean, has one node per content; the recursion ends |
| `orchestrator` | 3 leaves, 4 aggregators (two of each kind, leaves shared), 3 rules | 30 k | all the orchestrator's properties, including that runs settle |
| `checked_run` | 2 leaves, 2 aggregators, 2 providers with 2 attempts | 192 k | the router's properties, the two refinements, outages only degrade, records match the result |
| `router_records` | 2 calls, 2 adapters, 3 attempts | | finding 1 |
| `leaf_check` | page 1 up to 4 characters, page 2 up to 2, quotes up to 3, three chunk sizes | 144 k | chunks within pages, short passages intact, page references real, short quotes believed |
| `leaf_check_null` | same | | finding 2 |
| `run_stream` | 2 browsers, 1 broken connection, 5 events | 129 k | order and conservation of events; streams end, for a reason; pages are busy for a reason |
| `findings_store` | 2 runs, 2 leaves, 2 resets | 496 k | the store's properties; everything ends |
| `findings_store_fresh` | 2 runs, 1 leaf, 1 reset | | finding 3 |
| `migrations` | 3 processes, 2 migrations | 113 k | all properties of the migrations, including that starts end |
| `log_buffer` | 2 threads, capacity 3, 5 records, limits 0, 1, 2, 4 | 308 k | the buffer keeps the newest, a snapshot is an instant |
| `log_buffer_threads` | 2 threads, capacity 3, 3 records | | finding 4 |

The type invariants of the compiler, the orchestrator, the router, the
migrations and the log buffer are proved for all constants (below) and not
repeated in the runs.

Bounds. The rules of `MCRuleCompiler` have equal sub-trees within a rule and
across rules, in either order of children, repeated children, empty aggregators,
and equal ids. The graph of `MCOrchestrator` has both connectives, nesting of
one in the other, leaves under two parents, a rule whose root is inside
another's graph and one whose root is a leaf; the theorems cover all other
graphs. In `checked_run` two adapters are a first and a last one and two
attempts a first and a last one; `CheckedRunProofs` covers any number of each. Its
statuses are those of the two tables, and others below 400, from 400 and from
500 that no table lists; leaf `l1` is under an aggregator and a rule's root, and
`l2` is shared. In `MCLeafCheck` a page may be blank, fit one chunk, or need two
or three; a quote may be no longer than the overlap keeps whole, or longer and
torn, padded with blanks, nothing but blanks, or on both pages; one of the chunk
sizes is refused. `MaxDrops` bounds broken connections only: one is enough for a
client to use both slots, and `Leave` and the end of a response free a slot as
well. The events of `run_stream` are the run's start and end and three of
leaves, which leaves room for a crash between two of them and an orphan
afterwards; an aggregator's event is put like a leaf's, and is left out. Two
overlapping runs and two resets give every order of lookup, commit and truncate.
Three processes allow one to wait for another that dies while a third overtakes
both; two migrations are the fewest that have an order. In `log_buffer` the
buffer wraps around twice, and the limits lie below, within and above its size.
`log_buffer` is the one run with symmetry, of the threads, which the
specification does not distinguish, and it has no liveness property. Deadlock is
checked everywhere: steps that change nothing (`Quiescent`, `Ended`, `Over`)
mark the states in which the system may stop.

## Fairness

- `RuleCompiler`: weak fairness of the one thread that runs it.
- `Orchestrator`: weak fairness for the run task and each leaf task. The event
  loop runs what is ready; a leaf waiting for the database or the router gets an
  answer, because adapters have a timeout and the router's loops are bounded
  (this is `ImplementsRun` of `CheckedRun`). Nothing forces an answer rather than
  an error.
- `Router`, `CheckedRun`: weak fairness per call, and for the task of the run;
  adapters time out, backoff timers fire, lookups end.
- `RunStream`: weak fairness for the run (by `RunSettles`), for each generator,
  for noticing that a connection is gone, and for a browser's reconnection.
  There is none for crashes, for broken connections and for users who leave.
- `FindingsStore`: weak fairness per run and per reset; transactions end, and
  Postgres resolves deadlocks, and `reset_data` does not try again.
- `Migrations`: weak fairness for the statements of each process, which the
  server answers or fails. A process that waits for another's table is enabled
  again and again rather than for good, if that other one dies and comes back to
  the same table each time; the server wakes it as soon as a transaction ends,
  before a new one can start, and this is strong fairness of `Wake`. Nothing
  forces a process to start, to crash or to meet a fault.

`LeafCheck` and `LogBuffer` have no fairness: their properties are safety,
`execute_check` and `snapshot` being straight-line code and a bounded loop.

## Proofs

TLAPS proves every safety property that a passing run checks, invariants and
action properties, for all values of the constants that satisfy the named
ASSUMEs. The runs keep checking them on small instances, where a seeded bug
shows that they can fail.

`RuleCompilerProofs`, for any list of rule trees over any operators:
`DeliveredCorrect`, by the inductive invariant `CInv`. It says of the calls on
the stack that the ids returned to them so far are nodes already, and that a
call waiting for another still has a child to note (`Calls`); of the graph that
its topological order lists the nodes once and each after its children
(`Graph`); and that exactly the rules before the one in turn have roots
(`Roots`, `Turn`). The stack has to be in the invariant, since a node is in
order only because the ids its frame has collected were registered before.

Then for finite trees (`MeaningAssumption`) over `ALL_OF` and `ANY_OF`:

- `HInv` says what the stack computes: `HashOf[t]`, a function of the tree
  alone. The ids a call has noted are those of its node's first children
  (`Noted`), each call is for the next child of the call before it (`Calling`),
  roots have the ids of their trees (`RootIds`), and what is registered under an
  id is what some tree of that id asks for (`Kept`). With it everything about
  the delivered graph becomes a statement about trees.
- `MeaningCorrect`: trees of one id have one value (`ValueOfId`), so it does not
  matter which of them was registered, and the value of a node is that of its
  tree (`NodeValue`).
- `OneNodeCorrect`: two lists of ids are equal when sorted exactly if there is a
  one-to-one matching of their positions (`MatchingSorts`, `SortedMatches`), so
  two trees have one id exactly if they differ in the order of children at most
  (`SameIsId`); nodes and such classes of sub-trees then match one to one.
- `WalkableCorrect`: a delivered graph satisfies what `GraphAssumption` and
  `TopoAssumption` ask of the orchestrator's graph, so the theorems that follow
  hold for whatever rules are compiled.

`OrchestratorProofs`, for every graph that satisfies `GraphAssumption` and
`TopoAssumption`:

- `TypeCorrect`: type correctness together with `Bookkeeping`, which says how
  `phase`, `idx` and the domain of `findings` hang together. It is needed
  because `findings[c]` must be present for each child `c` when an aggregator is
  evaluated, which follows from the topological order and the position of the
  walk and from nothing in the types.
- `VerdictCorrect`, `DegradedCorrect`: the verdict of an aggregator follows from
  those of its children (`AggregateSound`, `AggregateOpen`), so the two
  properties are inductive once the leaves' findings are known not to change
  during the walk (`EvalKeepsVerdicts`).
- `ResultCorrect`: the roll-up, from the two above and from the fact that at the
  end of the walk every root has a finding.
- `OrderCorrect`, `StreamAgreesCorrect`: `StreamBook` says which events have
  been emitted when the tasks are where they are, and that each verdict in the
  stream is the one its task returned (`Agrees`). A leaf's event precedes the
  filing of its finding, which waits for all of `gather`, so it has to be
  compared with `outcome` until then.

`CheckedRunProofs`, for any number of calls, adapters and attempts: the
inductive invariant `RInv` of `Router` relates `attempt` to the failures of the
adapter in turn (one less while calling, equal while backing off) and bounds the
records. `ResilienceCorrect` and `RecordsCorrect` follow from it.
`RefinementCorrect` shows that each step of `Router` is a step of
`FailoverPromise` or a stutter. Then, for any graph, providers and policy:
`Composes` shows that each step of the composition is a step of `Orchestrator`
or none, and a step of `Router` or none, so the theorems about either hold of
the whole. `LedgerCorrect` adds the invariant `SInv`, which ties the two
positions of a leaf together: its call is under way exactly while the leaf task
waits for it and how it ended is how the leaf did (`Agree`), and once the walk
begins the findings filed are those of the leaves (`Filed`).

`LeafCheckProofs`, for any document, window and overlap.
`ShortPassagesCorrect` needs to know what holds in the middle of a page
(`InLoop`): every short passage that begins before the next window is whole
already. The step of a window then splits on where a passage begins.
`SearchedChunks` shows that `LeafCheck` implements `ChunkSpec`, which carries
both results over to the chunks that `execute_check` searches. Then, for any
vocabulary and any answer:

- `PageIsRealCorrect`: a passage of a text is still one after white space is
  collapsed in both (`PartOccurs`, from what `Squeezed` does to a part of its
  argument, `SqueezedPart`), so that what is found in a collapsed chunk stands
  on the collapsed page. `Answers` is the invariant that says that a result is
  the verdict on the answer.
- `ShortQuotesCorrect`: a short verbatim quote lies in a chunk of its page by
  `ShortPassagesIntact`, so it is found; and the chunk found first is of that
  page or an earlier one, because chunks come in the order of pages (`ByPage`).

`RunStreamProofs`, for any number of browsers, events and broken connections.
The inductive invariant `SInv` says that the queue holds exactly the events from
`Taken` on (`Fifo`), and that each event before that is in hand, handled or
lost, and in one place only (`AllTaken`, `OnePlace`). `InOrder` needs `Later`:
what a connected generator has in hand is later than all its browser has
handled, which holds because the generator took it when everything before it
had been taken, and an older generator of that browser is not connected any
more. `EndsForAReasonCorrect` is an action property: a generator that gives up
on a completed run has found the queue empty, so `run_finished` was taken, if it
was put.

`FindingsStoreProofs`, for any number of runs, leaves and resets, by the
inductive invariant `FInv`. The cache serves the row with the latest time; that
there is one needs no induction over the table, being inductive itself
(`HasLatest`). What was committed before a run started is in the table until a
reset, and older than anything the run writes (`WarmFirst`); this orders the
rows of runs that do not overlap. `StaleOnlyByOverlapCorrect` is about chains: a
run may copy an old verdict forward, a third run copy it again, and so on, so
the excuse must be attached to the verdict and not to the row, and a run carries
it from lookup to commit (`RowsExcused`, `FindingsExcused`).
`CountsAreRemovedCorrect` is an action property, from the fact that between the
count and the truncation rows are only added (`Locked`).

`MigrationsProofs`, for any number of processes and migrations: the inductive
invariant `MInv` says what a process holds (`Owns`: the table of its open
transaction, which nobody else holds and which is not committed, so that nobody
can put its name on record first) and what it knows (`Knows`: the names it has
read and all those below its position are on record, and if nothing disturbed
it no others are). The five safety properties follow.

`LogBufferProofs`, for any number of threads and capacity: entries are in the
order of their numbers because at most one thread is between numbering and
appending, and numbers only grow. `TypesCorrect` needs in addition that an open
iterator points into the buffer as long as nothing was appended.
`SnapshotCorrect` says of an iterator that may still be used that the buffer is
the one it was made for and that the list is right for the entries passed so
far (`Snapshot`); the order of the list comes from that of the buffer
(`BufferAscends`).

**What the proofs assume.** The named ASSUMEs of the modules, each evaluated by
a run of a module that extends it, and each true of the program:
`StoreAssumption` numbers the leaves, makes resets finite in number and keeps
`None` apart from rows and findings; `CheckAssumption` keeps `None` apart from
texts and page numbers; `MeaningAssumption` says that nodes are records of an
operator, parameters and children, that the aggregators are the two of
`dsl/schema.py`, and that trees are finite (`Height` is a number that falls from
a node to its children), as a rule that was read from a file is. That sha256 is
injective is in the definition of `Hash`.

**Recursion.** The prover cannot use the library's induction rules, which take a
predicate as a parameter. What is said of every tree (`LowestTree`) or of every
prefix of a text (`StepByStep`) is proved by a least counterexample instead: the
counterexamples are a set of trees or numbers like any other, and `WFMin` of the
library gives it a least element unless it is empty. That a recursive function
has the value its equation says is proved in the same way, by constructing it
height by height (`Solution`), once for all the functions over trees.

**What a proof corrected.** `StaleOnlyByOverlap` used to say that the run whose
row is served had itself overlapped the run it ignored. The proof did not go
through, and for a reason: A and B overlap, and A commits an older verdict after
B's newer one; C starts after both, is served A's verdict and writes a copy of
it, which is the row served from then on, by a run that overlapped nobody. The
two runs of `findings_store` cannot show this. The property now names the row of
a run that did overlap.

**Only model-checked**: all liveness (`CompileEnds`, `RunSettles`,
`OutageOnlyDegrades`, `GeneratorsEnd`, `BusyForAReason`, `AllEnd`, `StartsEnd`,
and the fairness half of `RefinesPromise` and `ImplementsRun`), which is out of
the prover's reach. The four runs that expect a violation are about properties
that do not hold.

## Findings

Four places where a comment, a label or a prompt says something the code does
not do; each has a run with a counterexample.

1. `router/types.py:64` "after each LLM attempt (success or failure)", and
   likewise `router/types.py:51` and `router/router.py:46`: an attempt that
   fails raises before `on_call` and leaves no record. `RecordsAreAnswers` and
   `LedgerMatchesResult` state what the code does.
2. `executor/prompts.py:9` lets the LLM report a violation with `evidence` null;
   `executor/check.py:100` turns it into a pass, and likewise a violation whose
   verbatim quote is longer than the overlap and torn between two chunks.
3. `src/frontend/src/components/AdminView.tsx:50` "next run will hit the LLM for
   real": not if a run was in flight during the reset.
4. `api/log_buffer.py:39` "Thread-safe": a thread that logs while a snapshot is
   iterating makes `GET /admin/logs` fail.

Met on the way, and too plain or too arguable to need a run:

- `executor/orchestrator.py:200` "bad config aborts the run": the siblings of
  the leaf that raised go on asking the LLM and emitting events (`OrphanEmit`).
- `src/migrations/002_findings.sql:5` "one per run that evaluated that leaf
  [...] The cache picks the most recent": runs that only read the cache write
  rows as well, and such a copy can bury a newer evaluation if the runs
  overlapped; `StaleOnlyByOverlap` says that this is the only way.
- `executor/check.py:17` "when the LLM response can't be parsed": an OpenAI
  message with content null is a `TypeError` in `_parse_llm_json`, not an
  `ExecutorError`, and ends the run instead of degrading the leaf.
- `api/app.py:96` "skip persistence entirely" is for a Postgres that cannot be
  reached; it also meets the second of two processes that start together on an
  empty database (`LoneStartPersists`).
- `api/log_buffer.py:66` "up to `limit`": one entry for a limit of zero.
- A 200 reply that is not JSON raises from `resp.json()` in the adapters, is no
  `RouterError`, and so ends the run: the path `Raise`, `CheckRaise`, `Abort`.
- `api/schemas.py:46` "None while still running": also after a crash, for ever.
- `api/runs.py:175` "Closes after run_finished or if the client disconnects":
  also on a timeout; `EndsForAReason` says when.
- `api/resources.py:153` "Returns counts removed": the counts are taken before
  the lock, and a run may commit in between.
- `executor/check.py:54`: a quote of nothing but white space is found in the
  first chunk, whatever the page.

## Not modelled

- Tracing, scripts, rendering, prompts, prices, authentication and read-only
  endpoints decide nothing that the modules above depend on, or are a single
  comparison.
- The runs and router_calls tables are written in the transaction that is
  modelled and read only for display. Rows of router_calls are represented by
  `records`.
- The cancellation of run tasks when the server stops (`api/app.py:112`). The
  server ends open responses before it gets there, so no stream is left that a
  missing `completed` could mislead, and a cancelled run persists nothing, which
  is `PersistFail`.
- The requests that `create_run` refuses (unknown document, rule or primary, a
  rule named twice): they are refused before a task exists, the last one by
  `Refuse` of `RuleCompiler`.
- `install` replacing an older log buffer: one process runs it once.

## Plan

Next model: the tile reducer of the frontend
(`src/frontend/src/hooks/useRunStream.ts`, `applyEvent`) on top of `seen`, and
the persistence of `router_calls` beside `findings`. Next theorems: that the
result a finished run persists is the one its stream told (`CheckedRun` with
`FindingsStore`), and the safety half of the composition with `RunStream`.
