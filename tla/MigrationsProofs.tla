--------------------------- MODULE MigrationsProofs ---------------------------
(***************************************************************************)
(* The safety of starts for any number of processes and migrations.  The   *)
(* invariant says what each process knows: the names it has read and those *)
(* below its position are on record, and between two statements only the   *)
(* holder of an uncommitted table can put its name there.                  *)
(***************************************************************************)
EXTENDS Migrations, FiniteSetTheorems, WellFoundedInduction, TLAPS

\* min() of the files to do.
LEMMA LeastTodo ==
    ASSUME NEW p \in Process, Todo(p) # {}
    PROVE  /\ NextFile(p) \in Todo(p)
           /\ \A i \in Todo(p) : NextFile(p) <= i
<1> DEFINE Below(x) == {y \in Todo(p) : y < x}
           Belows   == {Below(x) : x \in Todo(p)}
<1>1. Todo(p) \subseteq Migration /\ \A y \in Todo(p) : y \in Int
  BY DEF Todo, Migration
<1>2. IsFiniteSet(Migration)
  BY MigrationsAssumption, FS_Interval DEF Migration
<1>3. IsWellFoundedOn(StrictSubsetOrdering(Migration), SUBSET Migration)
  BY <1>2, FS_StrictSubsetOrderingWellFounded, FS_FiniteSubsetsOfFinite
<1>4. Belows \subseteq SUBSET Migration /\ Belows # {}
  BY <1>1
<1>5. PICK B \in Belows : \A C \in Belows : <<C, B>> \notin StrictSubsetOrdering(Migration)
  <2> HIDE DEF Belows
  <2> QED
    BY <1>3, <1>4, WFMin
<1>6. PICK x \in Todo(p) : B = Below(x)
  BY <1>5
<1>7. ASSUME NEW y \in Todo(p), y < x
      PROVE  FALSE
  <2>1. Below(y) \subseteq Below(x) /\ y \in Below(x) /\ y \notin Below(y)
    BY <1>1, <1>7
  <2>2. Below(y) \in Belows /\ Below(x) \in SUBSET Migration /\ Below(y) \in SUBSET Migration
    BY <1>1
  <2> HIDE DEF Below, Belows
  <2>3. <<Below(y), Below(x)>> \in StrictSubsetOrdering(Migration)
    BY <2>1, <2>2 DEF StrictSubsetOrdering
  <2> QED
    BY <2>2, <2>3, <1>5, <1>6
<1>8. \A y \in Todo(p) : x <= y
  BY <1>1, <1>7
<1> QED
  BY <1>8 DEF NextFile, Min

\* p is between its first statement and the end of the transaction at[p].
Within(p) == pc[p] \in {"record", "commit"}

\* What process p knows of the database.
Knows(p) ==
    /\ seen[p] \subseteq rows
    /\ \A j \in Migration : j < at[p] => j \in rows
    /\ at[p] # 0 => 0 \in tables /\ at[p] \notin seen[p]
    /\ ~excused[p] /\ (at[p] # 0 \/ pc[p] = "commit") =>
          \A j \in rows : j \in seen[p] \/ j < at[p]
    /\ ~excused[p] /\ pc[p] = "wait" => at[p] \notin tables

\* What p holds is its own, and nobody else puts it on record.
Owns(p) ==
    /\ holds[p] \cap tables = {}
    /\ holds[p] \subseteq (IF Within(p) THEN {at[p]} ELSE {})
    /\ Within(p) => at[p] \in holds[p] \cup tables
    /\ pc[p] = "commit" /\ at[p] # 0 => at[p] \notin tables

MInv ==
    /\ TypeOK
    /\ SchemaOnRecord
    /\ \A i \in Migration : applied[i] = IF i \in rows THEN 1 ELSE 0
    /\ \A p \in Process : Owns(p)
    /\ \A p \in Process : pc[p] \in Starting => Knows(p)
    /\ \A p, q \in Process : p # q => holds[p] \cap holds[q] = {}
    /\ PersistsToFullSchema
    /\ LoneStartPersists

LEMMA MInit == Init => MInv
BY MigrationsAssumption
   DEF Init, MInv, TypeOK, SchemaOnRecord, Owns, Knows, Within, Starting, Migration,
       PersistsToFullSchema, LoneStartPersists

\* A step of p that commits nothing and only moves p.
LEMMA MLocal ==
    ASSUME MInv, NEW p \in Process,
           UNCHANGED <<tables, rows, applied>>,
           \A q \in Process \ {p} : /\ pc'[q] = pc[q] /\ at'[q] = at[q]
                                    /\ seen'[q] = seen[q] /\ holds'[q] = holds[q]
                                    /\ dbUrl'[q] = dbUrl[q] /\ excused'[q] = excused[q],
           TypeOK',
           Owns(p)', pc'[p] \in Starting => Knows(p)',
           \A q \in Process \ {p} : holds'[p] \cap holds[q] = {},
           dbUrl'[p] => dbUrl[p] /\ pc'[p] = pc[p],
           pc'[p] = "up" /\ ~dbUrl'[p] => excused'[p]
    PROVE  MInv'
<1>1. ASSUME NEW q \in Process
      PROVE  Owns(q)' /\ (pc'[q] \in Starting => Knows(q)')
  BY DEF MInv, Owns, Knows, Within
<1>2. \A q, r \in Process : q # r => holds'[q] \cap holds'[r] = {}
  BY DEF MInv
<1>3. PersistsToFullSchema' /\ LoneStartPersists' /\ SchemaOnRecord'
  BY DEF MInv, PersistsToFullSchema, LoneStartPersists, SchemaOnRecord
<1> QED
  BY <1>1, <1>2, <1>3 DEF MInv

LEMMA MStart ==
    ASSUME MInv, NEW p \in Process, Start(p)
    PROVE  MInv'
<1> USE MigrationsAssumption
<1>1. TypeOK'
  BY DEF MInv, TypeOK, Start, Starting
<1>2. /\ pc'[p] = "create" /\ at'[p] = 0 /\ seen'[p] = {} /\ ~excused'[p]
      /\ holds'[p] = {} /\ ~dbUrl'[p]
  BY DEF MInv, TypeOK, Start, Owns, Within, PersistsToFullSchema
<1>3. Owns(p)' /\ Knows(p)'
  BY <1>2 DEF Owns, Knows, Within, Migration
<1> QED
  BY <1>1, <1>2, <1>3, MLocal DEF Start, MInv, TypeOK

LEMMA MGiveUp ==
    ASSUME MInv, NEW p \in Process, GiveUp(p),
           UNCHANGED <<tables, rows, applied>>,
           excused' \in [Process -> BOOLEAN], excused'[p],
           \A q \in Process \ {p} : excused'[q] = excused[q]
    PROVE  MInv'
<1>1. TypeOK'
  BY DEF MInv, TypeOK, GiveUp, Starting
<1>2. Owns(p)' /\ pc'[p] = "up" /\ holds'[p] = {} /\ dbUrl'[p] = dbUrl[p]
  BY DEF MInv, TypeOK, GiveUp, Owns, Within
<1>3. dbUrl[p] => pc[p] = "up"
  BY DEF MInv, PersistsToFullSchema
<1> QED
  BY <1>1, <1>2, <1>3, MLocal DEF GiveUp, MInv, TypeOK, Starting

LEMMA MCrash ==
    ASSUME MInv, NEW p \in Process, Crash(p)
    PROVE  MInv'
<1>1. TypeOK'
  BY DEF MInv, TypeOK, Crash, Starting
<1>2. Owns(p)' /\ pc'[p] = "down" /\ holds'[p] = {} /\ ~dbUrl'[p]
  BY DEF MInv, TypeOK, Crash, Owns, Within
<1>3. /\ UNCHANGED <<tables, rows, applied>>
      /\ \A q \in Process \ {p} : /\ pc'[q] = pc[q] /\ at'[q] = at[q]
                                   /\ seen'[q] = seen[q] /\ holds'[q] = holds[q]
                                   /\ dbUrl'[q] = dbUrl[q] /\ excused'[q] = excused[q]
  BY DEF MInv, TypeOK, Crash
<1>4. pc'[p] \notin Starting /\ pc'[p] # "up"
  BY <1>2 DEF Starting
<1> QED
  BY <1>1, <1>2, <1>3, <1>4, MLocal

LEMMA MSelect ==
    ASSUME MInv, NEW p \in Process, Select(p)
    PROVE  MInv'
<1>1. TypeOK'
  BY DEF MInv, TypeOK, Select, Starting
<1>2. /\ pc[p] = "record" /\ at[p] = 0 /\ pc'[p] = "commit" /\ seen'[p] = rows
      /\ UNCHANGED <<at, holds, dbUrl, tables, rows, applied, excused>>
  BY DEF MInv, TypeOK, Select
<1>3. Owns(p)'
  BY <1>2 DEF MInv, Owns, Within
<1>4. Knows(p)'
  BY <1>2 DEF MInv, Knows, Starting
<1> QED
  BY <1>1, <1>2, <1>3, <1>4, MLocal DEF Select, MInv, TypeOK, PersistsToFullSchema

LEMMA MInsert ==
    ASSUME MInv, NEW p \in Process, Insert(p)
    PROVE  MInv'
<1>0. /\ pc[p] = "record" /\ at[p] # 0 /\ UNCHANGED <<tables, rows, applied, excused>>
      /\ TypeOK /\ Knows(p) /\ Owns(p) /\ SchemaOnRecord
      /\ at[p] \in Migration
  BY DEF Insert, MInv, Starting, TypeOK, Migration
<1>1. CASE at[p] \in rows
  <2>1. excused[p]
    BY <1>0, <1>1 DEF Knows, TypeOK, Migration
  <2> QED
    BY <1>0, <1>1, <2>1, MGiveUp DEF Insert, TypeOK
<1>2. CASE at[p] \notin rows
  <2>1. TypeOK'
    BY <1>0, <1>2 DEF TypeOK, Insert, Starting
  <2>2. pc'[p] = "commit" /\ UNCHANGED <<at, seen, holds, dbUrl>>
    BY <1>0, <1>2 DEF TypeOK, Insert
  <2>3. Owns(p)' /\ Knows(p)'
    BY <1>0, <1>2, <2>2 DEF Owns, Knows, Within, SchemaOnRecord
  <2> QED
    BY <1>0, <1>2, <2>1, <2>2, <2>3, MLocal DEF Insert, MInv, TypeOK, PersistsToFullSchema
<1> QED
  BY <1>1, <1>2

\* p gets the table at[p], or finds it there.
LEMMA MGrant ==
    ASSUME MInv, NEW p \in Process, pc[p] \in {"create", "wait"},
           pc' = [pc EXCEPT ![p] = "record"],
           holds' = [holds EXCEPT ![p] = {at[p]} \ tables],
           at[p] \in tables \/ ~HeldByAnother(p),
           UNCHANGED <<at, seen, dbUrl, tables, rows, applied, excused>>
    PROVE  MInv'
<1>0. TypeOK /\ Knows(p)
  BY DEF MInv, Starting
<1>1. TypeOK'
  BY <1>0, MigrationsAssumption DEF TypeOK, Starting
<1>2. pc'[p] = "record" /\ holds'[p] = {at[p]} \ tables
  BY <1>0 DEF TypeOK
<1>3. Owns(p)' /\ Knows(p)'
  BY <1>0, <1>2 DEF Owns, Knows, Within
<1>4. \A q \in Process \ {p} : holds'[p] \cap holds[q] = {}
  BY <1>2 DEF HeldByAnother
<1>5. ~dbUrl[p]
  BY DEF MInv, PersistsToFullSchema
<1> QED
  BY <1>0, <1>1, <1>2, <1>3, <1>4, <1>5, MLocal DEF TypeOK

LEMMA MCreate ==
    ASSUME MInv, NEW p \in Process, Create(p)
    PROVE  MInv'
<1>1. CASE at[p] \notin tables /\ HeldByAnother(p)
  <2>0. TypeOK /\ Knows(p) /\ Owns(p) /\ ~dbUrl[p]
    BY DEF MInv, Create, Starting, PersistsToFullSchema
  <2>1. TypeOK'
    BY <1>1, <2>0 DEF TypeOK, Create, Starting
  <2>2. /\ pc[p] = "create" /\ pc'[p] = "wait"
        /\ UNCHANGED <<at, seen, holds, dbUrl, tables, rows, applied, excused>>
    BY <1>1, <2>0 DEF TypeOK, Create
  <2>3. Owns(p)' /\ Knows(p)'
    BY <1>1, <2>0, <2>2 DEF Owns, Knows, Within
  <2> QED
    BY <1>1, <2>0, <2>1, <2>2, <2>3, MLocal DEF Create, MInv, TypeOK
<1>2. CASE ~(at[p] \notin tables /\ HeldByAnother(p))
  BY <1>2, MGrant DEF Create
<1> QED
  BY <1>1, <1>2

LEMMA MWake ==
    ASSUME MInv, NEW p \in Process, Wake(p)
    PROVE  MInv'
<1>1. CASE at[p] \in tables
  <2>1. excused[p] /\ TypeOK
    BY <1>1 DEF MInv, Wake, Knows, Starting, TypeOK
  <2> QED
    BY <1>1, <2>1, MGiveUp DEF Wake, TypeOK
<1>2. CASE at[p] \notin tables
  <2>1. {at[p]} \ tables = {at[p]}
    BY <1>2
  <2> QED
    BY <1>2, <2>1, MGrant DEF Wake
<1> QED
  BY <1>1, <1>2

\* A transaction of p is committed: the others that are starting are excused.
LEMMA MDurable ==
    ASSUME MInv, NEW p \in Process, pc[p] = "commit", Durable(p),
           \A q \in Process \ {p} : /\ pc'[q] = pc[q] /\ at'[q] = at[q]
                                    /\ seen'[q] = seen[q] /\ holds'[q] = holds[q]
                                    /\ dbUrl'[q] = dbUrl[q]
                                    /\ excused[q] \/ pc[q] \in Starting => excused'[q],
           TypeOK', holds'[p] = {}, pc'[p] \in {"up", "create"},
           pc'[p] = "create" => Knows(p)',
           dbUrl'[p] => pc'[p] = "up" /\ rows' = Migration,
           pc'[p] = "up" /\ ~dbUrl'[p] => excused'[p]
    PROVE  MInv'
<1> USE MigrationsAssumption DEF Migration
<1>0. /\ TypeOK /\ SchemaOnRecord /\ Knows(p) /\ Owns(p)
      /\ at[p] \in 0..NumMigrations
      /\ tables' = tables \cup {at[p]} /\ rows' = rows \cup ({at[p]} \ {0})
  BY DEF MInv, Starting, TypeOK, Durable
<1>1. at[p] # 0 => at[p] \notin rows /\ at[p] \notin tables
  BY <1>0 DEF Owns, SchemaOnRecord
<1>2. SchemaOnRecord'
  BY <1>0 DEF SchemaOnRecord, Knows
<1>3. \A i \in Migration : applied'[i] = IF i \in rows' THEN 1 ELSE 0
  <2>1. ASSUME NEW i \in Migration
        PROVE  applied'[i] = applied[i] + IF i = at[p] THEN 1 ELSE 0
    BY DEF Durable
  <2> QED
    BY <1>0, <1>1, <2>1 DEF MInv
<1>4. ASSUME NEW q \in Process \ {p}
      PROVE  Owns(q)' /\ (pc'[q] \in Starting => Knows(q)')
  <2>1. Owns(q) /\ holds[p] \cap holds[q] = {} /\ at[p] \in holds[p] \cup tables
    BY <1>0 DEF MInv, Owns, Within
  <2>2. at[p] \notin holds[q]
    BY <2>1 DEF Owns
  <2>3. Owns(q)'
    BY <1>0, <2>1, <2>2 DEF Owns, Within
  <2>4. pc[q] \in Starting => Knows(q) /\ excused'[q]
    BY DEF MInv
  <2>5. pc'[q] \in Starting => Knows(q)'
    BY <1>0, <2>4 DEF Knows
  <2> QED
    BY <2>3, <2>5
<1>5. Owns(p)' /\ (pc'[p] \in Starting => Knows(p)')
  BY DEF Owns, Within, Starting
<1>6. \A q, r \in Process : q # r => holds'[q] \cap holds'[r] = {}
  BY DEF MInv
<1>7. PersistsToFullSchema'
  <2>1. ASSUME NEW q \in Process \ {p}, dbUrl'[q]
        PROVE  pc'[q] = "up" /\ tables' = 0..NumMigrations
    BY <1>0, <2>1 DEF MInv, PersistsToFullSchema
  <2>2. dbUrl'[p] => tables' = 0..NumMigrations
    BY <1>0, <1>2 DEF SchemaOnRecord, Knows
  <2> QED
    BY <2>1, <2>2 DEF PersistsToFullSchema
<1>8. LoneStartPersists'
  BY DEF MInv, LoneStartPersists
<1> QED
  BY <1>2, <1>3, <1>4, <1>5, <1>6, <1>7, <1>8 DEF MInv

LEMMA DurableType ==
    ASSUME TypeOK, NEW p \in Process, Durable(p)
    PROVE  /\ tables' \subseteq 0..NumMigrations
           /\ rows' \subseteq Migration
           /\ applied' \in [Migration -> Nat]
<1>1. ASSUME NEW i \in Migration
      PROVE  applied[i] + (IF i = at[p] THEN 1 ELSE 0) \in Nat
  BY DEF TypeOK
<1>2. at[p] \in 0..NumMigrations
  BY DEF TypeOK
<1>3. applied' \in [Migration -> Nat]
  <2> DEFINE f(i) == applied[i] + (IF i = at[p] THEN 1 ELSE 0)
  <2>1. applied' = [i \in Migration |-> f(i)]
    BY DEF Durable
  <2>2. \A i \in Migration : f(i) \in Nat
    BY <1>1
  <2> HIDE DEF f
  <2> QED
    BY <2>1, <2>2
<1>4. tables' \subseteq 0..NumMigrations /\ rows' \subseteq Migration
  <2>1. at[p] # 0 => at[p] \in Migration
    BY <1>2, MigrationsAssumption DEF Migration
  <2>2. /\ tables' = tables \cup {at[p]} /\ rows' = rows \cup ({at[p]} \ {0})
        /\ tables \subseteq 0..NumMigrations /\ rows \subseteq Migration
    BY DEF TypeOK, Durable
  <2> QED
    BY <1>2, <2>1, <2>2
<1> QED
  BY <1>3, <1>4

LEMMA DisturbEffect ==
    ASSUME TypeOK, NEW S, Disturb(S)
    PROVE  /\ excused' \in [Process -> BOOLEAN]
           /\ \A q \in Process : excused'[q] <=> excused[q] \/ q \in S
BY Zenon DEF TypeOK, Disturb

LEMMA MCommit ==
    ASSUME MInv, NEW p \in Process, Commit(p)
    PROVE  MInv'
<1> USE MigrationsAssumption
<1>0. /\ TypeOK /\ SchemaOnRecord /\ Knows(p) /\ pc[p] = "commit" /\ Durable(p)
      /\ rows' = rows \cup ({at[p]} \ {0}) /\ tables' = tables \cup {at[p]}
      /\ at[p] \in 0..NumMigrations
      /\ rows \subseteq Migration
  BY DEF MInv, Starting, Commit, Durable, TypeOK
<1>1. /\ tables' \subseteq 0..NumMigrations /\ rows' \subseteq Migration
      /\ applied' \in [Migration -> Nat]
  BY <1>0, DurableType
<1>4. /\ excused' \in [Process -> BOOLEAN]
      /\ excused'[p] <=> excused[p]
      /\ \A q \in Process \ {p} : excused[q] \/ pc[q] \in Starting => excused'[q]
  BY <1>0, DisturbEffect DEF Commit, Others
<1>5. /\ holds' \in [Process -> SUBSET (0..NumMigrations)] /\ holds'[p] = {}
      /\ \A q \in Process \ {p} : holds'[q] = holds[q]
  BY <1>0 DEF TypeOK, Commit
<1>2. CASE Todo(p) = {}
  <2>1. /\ pc' = [pc EXCEPT ![p] = "up"] /\ dbUrl' = [dbUrl EXCEPT ![p] = TRUE]
        /\ at' = at /\ seen' = seen
    BY <1>2 DEF Commit
  <2>2. TypeOK'
    BY <1>0, <1>1, <1>4, <1>5, <2>1 DEF TypeOK
  <2>3. Migration \subseteq rows'
    <3>1. ASSUME NEW i \in Migration
          PROVE  i \in seen[p] \/ i < at[p] \/ i = at[p]
      BY <1>0, <1>2 DEF Todo, Migration
    <3> QED
      BY <1>0, <3>1 DEF Knows, Migration
  <2>4. /\ pc'[p] = "up" /\ dbUrl'[p] /\ rows' = Migration
        /\ \A q \in Process \ {p} : /\ pc'[q] = pc[q] /\ at'[q] = at[q]
                                    /\ seen'[q] = seen[q] /\ dbUrl'[q] = dbUrl[q]
    BY <1>0, <1>1, <2>1, <2>3 DEF TypeOK
  <2> QED
    BY <1>0, <1>4, <1>5, <2>2, <2>4, MDurable
<1>3. CASE Todo(p) # {}
  <2> DEFINE n == NextFile(p)
  <2>1. /\ pc' = [pc EXCEPT ![p] = "create"] /\ at' = [at EXCEPT ![p] = n]
        /\ dbUrl' = dbUrl /\ seen' = seen
    BY <1>3 DEF Commit
  <2>2. n \in Migration /\ n \notin seen[p] /\ n > at[p] /\ \A i \in Todo(p) : n <= i
    BY <1>3, LeastTodo DEF Todo
  <2>3. TypeOK'
    <3> n \in 0..NumMigrations
      BY <2>2 DEF Migration
    <3> HIDE DEF n
    <3> QED
      BY <1>0, <1>1, <1>4, <1>5, <2>1 DEF TypeOK, Starting
  <2>4. ~dbUrl[p]
    BY <1>0 DEF MInv, PersistsToFullSchema
  <2>5. /\ pc'[p] = "create" /\ at'[p] = n /\ seen'[p] = seen[p] /\ ~dbUrl'[p]
    BY <1>0, <2>1, <2>4 DEF TypeOK
  <2>6. \A j \in Migration : j < n => j \in rows'
    <3>1. ASSUME NEW j \in Migration, j < n
          PROVE  j \in seen[p] \/ j < at[p] \/ j = at[p]
      BY <1>0, <2>2, <3>1 DEF Todo, Migration
    <3> QED
      BY <1>0, <3>1 DEF Knows, Migration
  <2>7. 0 \in tables'
    BY <1>0 DEF Knows
  <2>8. ~excused[p] => \A j \in rows' : j \in seen[p] \/ j < n
    <3>1. ASSUME ~excused[p], NEW j \in rows, j \notin seen[p]
          PROVE  j < at[p]
      BY <1>0, <3>1 DEF Knows
    <3> HIDE DEF n
    <3> QED
      BY <1>0, <2>2, <3>1 DEF Migration
  <2>9. Knows(p)'
    <3> HIDE DEF n
    <3> QED
      BY <1>0, <1>4, <2>2, <2>5, <2>6, <2>7, <2>8 DEF Knows, Migration
  <2> QED
    <3> HIDE DEF n
    <3> QED
      BY <1>0, <1>4, <1>5, <2>1, <2>3, <2>5, <2>9, MDurable DEF TypeOK
<1> QED
  BY <1>2, <1>3

LEMMA MFault ==
    ASSUME MInv, NEW p \in Process, Fault(p)
    PROVE  MInv'
<1>0. TypeOK /\ GiveUp(p) /\ ~dbUrl[p]
  BY DEF MInv, Fault, Starting, PersistsToFullSchema
<1>1. CASE UNCHANGED <<tables, rows, applied>> /\ Disturb({p})
  BY <1>0, <1>1, MGiveUp DEF Disturb, TypeOK
<1>2. CASE pc[p] = "commit" /\ Durable(p) /\ Disturb({p} \cup Others(p))
  <2>1. /\ excused' \in [Process -> BOOLEAN] /\ excused'[p]
        /\ \A q \in Process \ {p} : excused[q] \/ pc[q] \in Starting => excused'[q]
    BY <1>0, <1>2, DisturbEffect DEF Others
  <2>2. /\ pc'[p] = "up" /\ holds'[p] = {} /\ ~dbUrl'[p]
        /\ \A q \in Process \ {p} : pc'[q] = pc[q] /\ holds'[q] = holds[q]
    BY <1>0 DEF GiveUp, TypeOK
  <2>3. TypeOK'
    BY <1>0, <1>2, <2>1, DurableType DEF GiveUp, TypeOK
  <2> QED
    BY <1>0, <1>2, <2>1, <2>2, <2>3, MDurable DEF GiveUp
<1> QED
  BY <1>0, <1>1, <1>2 DEF Fault

LEMMA MStep ==
    ASSUME MInv, [Next]_vars
    PROVE  MInv'
<1>1. CASE UNCHANGED vars
  BY <1>1 DEF vars, procVars, MInv, TypeOK, SchemaOnRecord, Owns, Knows, Within,
     PersistsToFullSchema, LoneStartPersists
<1> QED
  BY <1>1, MStart, MCreate, MWake, MSelect, MInsert, MCommit, MFault, MCrash
     DEF Next, Work

THEOREM MInvCorrect == Spec => []MInv
BY MInit, MStep, PTL DEF Spec

\* Starts never leave the positions of apply_migrations.
THEOREM TypesCorrect == Spec => []TypeOK
BY MInvCorrect, PTL DEF MInv

\* The names on record are the first files of the directory, and their tables
\* are there (apply_migrations).
THEOREM SchemaCorrect == Spec => []SchemaOnRecord
BY MInvCorrect, PTL DEF MInv

\* Overlapping starts never apply a migration twice: the primary key of
\* _migrations and the transaction around each file together see to that.
THEOREM OnceCorrect == Spec => []AppliedOnce
<1>1. MInv => AppliedOnce
  BY DEF MInv, AppliedOnce
<1> QED
  BY <1>1, MInvCorrect, PTL

\* A process persists its runs only into the full schema (lifespan).
THEOREM PersistsCorrect == Spec => []PersistsToFullSchema
BY MInvCorrect, PTL DEF MInv

\* A process that meets no fault and no other process persists its runs,
\* whatever earlier starts have left behind.
THEOREM LoneStartCorrect == Spec => []LoneStartPersists
BY MInvCorrect, PTL DEF MInv
=============================================================================
