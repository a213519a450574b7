------------------------------ MODULE Migrations ------------------------------
(***************************************************************************)
(* The start of API processes against one database: lifespan (api/app.py)  *)
(* runs apply_migrations (db/migrate.py) and keeps the database URL if it  *)
(* succeeded.  Processes start, crash and start again while others start.  *)
(*                                                                         *)
(* A transaction is the bookkeeping one, number 0, which creates the table *)
(* _migrations and reads it, or the one of migration i, which runs its SQL *)
(* and inserts its name.  Every migration of the repository is a           *)
(* CREATE ... IF NOT EXISTS; Postgres lets the second of two that create   *)
(* the same table wait for the first, and fails it if the first commits.   *)
(***************************************************************************)
EXTENDS Integers, FiniteSetsExt

CONSTANTS Process,          \* the API processes
          NumMigrations     \* the files of migrations/, in name order

ASSUME MigrationsAssumption == NumMigrations \in Nat

VARIABLES
    pc,         \* pc[p]: where the start of process p is
    at,         \* at[p]: the transaction p is at
    seen,       \* seen[p]: the dict applied, as p read it
    holds,      \* holds[p]: the tables that p has created and not committed
    dbUrl,      \* dbUrl[p]: app.state.db_url is set
    tables,     \* committed: the transactions whose tables exist
    rows,       \* committed: the names in _migrations
    applied,    \* applied[i]: how often migration i was committed (history)
    excused     \* excused[p]: p met a fault, or another process (history)

procVars == <<pc, at, seen, holds, dbUrl>>
vars     == <<procVars, tables, rows, applied, excused>>

Migration == 1..NumMigrations
Starting  == {"create", "wait", "record", "commit"}

Init ==
    /\ pc = [p \in Process |-> "down"]
    /\ at = [p \in Process |-> 0]
    /\ seen = [p \in Process |-> {}]
    /\ holds = [p \in Process |-> {}]
    /\ dbUrl = [p \in Process |-> FALSE]
    /\ tables = {}
    /\ rows = {}
    /\ applied = [i \in Migration |-> 0]
    /\ excused = [p \in Process |-> FALSE]

\* Seeded bug: db_url is set before the migrations are applied.
StartBug(p) ==
    /\ pc[p] = "down"
    /\ pc' = [pc EXCEPT ![p] = "create"]
    /\ at' = [at EXCEPT ![p] = 0]
    /\ seen' = [seen EXCEPT ![p] = {}]
    /\ dbUrl' = [dbUrl EXCEPT ![p] = TRUE]
    /\ excused' = [excused EXCEPT ![p] = FALSE]
    /\ UNCHANGED <<holds, tables, rows, applied>>

\* lifespan connects and enters apply_migrations.
Start(p) ==
    /\ pc[p] = "down"
    /\ pc' = [pc EXCEPT ![p] = "create"]
    /\ at' = [at EXCEPT ![p] = 0]
    /\ seen' = [seen EXCEPT ![p] = {}]
    /\ excused' = [excused EXCEPT ![p] = FALSE]
    /\ UNCHANGED <<holds, dbUrl, tables, rows, applied>>

HeldByAnother(p) == \E q \in Process \ {p} : at[p] \in holds[q]

\* CREATE TABLE IF NOT EXISTS: the table is there, or p creates it, or another
\* process is about to.
Create(p) ==
    /\ pc[p] = "create"
    /\ IF at[p] \notin tables /\ HeldByAnother(p)
       THEN pc' = [pc EXCEPT ![p] = "wait"] /\ UNCHANGED holds
       ELSE /\ pc' = [pc EXCEPT ![p] = "record"]
            /\ holds' = [holds EXCEPT ![p] = {at[p]} \ tables]
    /\ UNCHANGED <<at, seen, dbUrl, tables, rows, applied, excused>>

\* Seeded bug: the transaction is left open.
GiveUpBug(p) ==
    /\ pc' = [pc EXCEPT ![p] = "up"]
    /\ UNCHANGED <<at, seen, holds, dbUrl>>

\* The start ends without the database: apply_migrations raised, its
\* transaction is rolled back and lifespan goes on.
GiveUp(p) ==
    /\ pc' = [pc EXCEPT ![p] = "up"]
    /\ holds' = [holds EXCEPT ![p] = {}]
    /\ UNCHANGED <<at, seen, dbUrl>>

\* The other process has ended its transaction: a unique violation in the
\* catalog if it committed.
Wake(p) ==
    /\ pc[p] = "wait"
    /\ ~HeldByAnother(p)
    /\ IF at[p] \in tables
       THEN GiveUp(p)
       ELSE /\ pc' = [pc EXCEPT ![p] = "record"]
            /\ holds' = [holds EXCEPT ![p] = {at[p]}]
            /\ UNCHANGED <<at, seen, dbUrl>>
    /\ UNCHANGED <<tables, rows, applied, excused>>

\* The first transaction reads the names.
Select(p) ==
    /\ pc[p] = "record"
    /\ at[p] = 0
    /\ seen' = [seen EXCEPT ![p] = rows]
    /\ pc' = [pc EXCEPT ![p] = "commit"]
    /\ UNCHANGED <<at, holds, dbUrl, tables, rows, applied, excused>>

\* Seeded bug: INSERT ... ON CONFLICT DO NOTHING.
InsertBug(p) ==
    /\ pc[p] = "record"
    /\ at[p] # 0
    /\ pc' = [pc EXCEPT ![p] = "commit"]
    /\ UNCHANGED <<at, seen, holds, dbUrl, tables, rows, applied, excused>>
\* The others insert theirs: a unique violation if the name is there.
Insert(p) ==
    /\ pc[p] = "record"
    /\ at[p] # 0
    /\ IF at[p] \in rows THEN GiveUp(p)
       ELSE /\ pc' = [pc EXCEPT ![p] = "commit"]
            /\ UNCHANGED <<at, seen, holds, dbUrl>>
    /\ UNCHANGED <<tables, rows, applied, excused>>

\* Seeded bug: the loop starts over and tries again what this call has applied.
TodoBug(p) == Migration \ seen[p]
Todo(p) == {i \in Migration \ seen[p] : i > at[p]}

\* Seeded bug: the files are sorted the other way.
NextFileBug(p) == Max(Todo(p))
NextFile(p) == Min(Todo(p))

\* Something happens to the processes of S that a lone start never meets.
Disturb(S) == excused' = [q \in Process |-> excused[q] \/ q \in S]

Others(p) == {q \in Process \ {p} : pc[q] \in Starting}

\* What a commit of p's transaction makes durable.
Durable(p) ==
    /\ tables' = tables \cup {at[p]}
    /\ rows' = rows \cup ({at[p]} \ {0})
    /\ applied' = [i \in Migration |-> applied[i] + IF i = at[p] THEN 1 ELSE 0]

\* The transaction commits; the next file not seen follows, or lifespan
\* remembers the URL.
Commit(p) ==
    /\ pc[p] = "commit"
    /\ Durable(p)
    /\ Disturb(Others(p))
    /\ holds' = [holds EXCEPT ![p] = {}]
    /\ IF Todo(p) = {}
       THEN /\ pc' = [pc EXCEPT ![p] = "up"]
            /\ dbUrl' = [dbUrl EXCEPT ![p] = TRUE]
            /\ UNCHANGED at
       ELSE /\ pc' = [pc EXCEPT ![p] = "create"]
            /\ at' = [at EXCEPT ![p] = NextFile(p)]
            /\ UNCHANGED dbUrl
    /\ UNCHANGED seen

Work(p) ==
    \/ Create(p)
    \/ Wake(p)
    \/ Select(p)
    \/ Insert(p)
    \/ Commit(p)

\* The database or the connection fails under p, which goes on without it.  A
\* commit may have been made although p does not learn of it.
Fault(p) ==
    /\ pc[p] \in Starting
    /\ GiveUp(p)
    /\ \/ pc[p] = "commit" /\ Durable(p) /\ Disturb({p} \cup Others(p))
       \/ UNCHANGED <<tables, rows, applied>> /\ Disturb({p})

\* The process dies, while it starts or later: an open transaction is undone.
Crash(p) ==
    /\ pc[p] # "down"
    /\ pc' = [pc EXCEPT ![p] = "down"]
    /\ holds' = [holds EXCEPT ![p] = {}]
    /\ dbUrl' = [dbUrl EXCEPT ![p] = FALSE]
    /\ UNCHANGED <<at, seen, tables, rows, applied, excused>>

Next == \E p \in Process : Start(p) \/ Work(p) \/ Fault(p) \/ Crash(p)

Spec == Init /\ [][Next]_vars

\* The server answers every statement, or fails it.  It wakes the one that waits
\* for a transaction as soon as that ends, however often a process that dies
\* comes back to the same table.
FairSpec == Spec /\ \A p \in Process : WF_vars(Work(p)) /\ SF_vars(Wake(p))

-----------------------------------------------------------------------------
(* Properties. *)

\* Types: where lifespan and apply_migrations may be.
TypeOK ==
    /\ pc \in [Process -> Starting \cup {"down", "up"}]
    /\ at \in [Process -> 0..NumMigrations]
    /\ seen \in [Process -> SUBSET Migration]
    /\ holds \in [Process -> SUBSET (0..NumMigrations)]
    /\ dbUrl \in [Process -> BOOLEAN]
    /\ tables \subseteq 0..NumMigrations
    /\ rows \subseteq Migration
    /\ applied \in [Migration -> Nat]
    /\ excused \in [Process -> BOOLEAN]

\* "a partial failure leaves the prior migrations applied and recoverable"
\* (migrate.py:28): whatever the crashes and overlaps, the names on record are
\* the files up to some number, their tables are there, and no others.
SchemaOnRecord ==
    /\ tables \ {0} = rows
    /\ \A i \in rows, j \in Migration : j < i => j \in rows

\* No migration is run to its end twice, even by processes that both read that
\* it was missing.
AppliedOnce == \A i \in Migration : applied[i] <= 1

\* A process that persists its runs has every table (lifespan).
PersistsToFullSchema ==
    \A p \in Process : dbUrl[p] => pc[p] = "up" /\ tables = 0..NumMigrations

\* A process goes without the database only if that failed it, or if another
\* process was starting as well: one that starts alone takes up whatever a
\* crash has left.
LoneStartPersists ==
    \A p \in Process : pc[p] = "up" /\ ~dbUrl[p] => excused[p]

\* Every start comes to its end: the processes never wait for each other in a
\* circle, nor for one that died.
StartsEnd == \A p \in Process : pc[p] \in Starting ~> pc[p] \notin Starting
=============================================================================
