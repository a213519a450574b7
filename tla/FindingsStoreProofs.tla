-------------------------- MODULE FindingsStoreProofs --------------------------
(***************************************************************************)
(* The findings table for any number of runs, leaves and resets.           *)
(*                                                                         *)
(* The cache serves the row with the latest created_at.  That there is one *)
(* needs no induction over the table: it is itself inductive, because a    *)
(* transaction adds at most one row of each leaf.                          *)
(***************************************************************************)
EXTENDS FindingsStore, FiniteSetTheorems, TLAPS

\* The rows get_cached_finding orders, and the one it returns.
Latest(k, row) ==
    /\ row \in table /\ row.check = k
    /\ \A other \in table : other.check = k => other.stamp <= row.stamp

HasLatest ==
    \A k \in Check : (\E row \in table : row.check = k) => \E row \in table : Latest(k, row)

\* What a run has written follows from where it is.
Books(r) ==
    /\ pc[r] = "new" => \A k \in Check : leaf[r][k] = "lookup" /\ finding[r][k] = None
    /\ pc[r] # "writing" => txn[r] = {}
    /\ pc[r] # "over" => \A row \in table : row.run # r
    /\ \A row \in txn[r] : /\ row.run = r /\ finding[r][row.check] # None
                           /\ row.eval = finding[r][row.check].eval
    /\ \A row, other \in txn[r] : row.check = other.check => row = other

Finite == IsFiniteSet(table) /\ \A r \in Run : IsFiniteSet(txn[r])

\* The numbers given out so far.
Counted ==
    /\ \A row \in table : row.stamp <= clock[row.check] /\ row.eval <= evals[row.check]
    /\ \A r \in Run : \A row \in txn[r] :
          row.stamp <= clock[row.check] /\ row.eval <= evals[row.check]
    /\ \A r \in Run : \A k \in Check :
          finding[r][k] # None => finding[r][k].eval <= evals[k]

\* What was committed before a run started is there until the data is reset, and
\* is older than what the run writes.
WarmFirst ==
    /\ \A r \in Run : warm[r] \subseteq table
    /\ \A row \in table : \A w \in warm[row.run] :
          w.check = row.check => w.stamp < row.stamp
    /\ \A r \in Run : \A row \in txn[r] : \A w \in warm[r] :
          w.check = row.check => w.stamp < row.stamp

\* Verdict e of a row's leaf was written after the row, by a run that overlapped.
Excused(row, e) ==
    \E old \in table : /\ old.check = row.check /\ old.eval = e
                       /\ old.stamp >= row.stamp
                       /\ Overlap(row, old)

\* Rows that are newer in time and older in verdict are excused ...
RowsExcused ==
    \A x, row \in table :
        x.check = row.check /\ x.eval < row.eval /\ x.stamp >= row.stamp
            => Excused(row, x.eval)

\* ... and so is a run that holds an older verdict than it could have found.
FindingsExcused ==
    \A r \in Run : \A row \in warm[r] :
        finding[r][row.check] # None /\ finding[r][row.check].eval < row.eval
            => Excused(row, finding[r][row.check].eval)

Locked == \A a \in Reset : reset[a] = "counted" => told[a] <= Cardinality(table)

FInv ==
    /\ TypeOK /\ Finite /\ HasLatest
    /\ \A r \in Run : Books(r)
    /\ Counted /\ WarmFirst /\ RowsExcused /\ FindingsExcused /\ Locked
    /\ AllOrNothing /\ WarmRunIsFree

-----------------------------------------------------------------------------

\* The rows that get_cached_finding looks at.
LEMMA CachedLatest ==
    ASSUME TypeOK, HasLatest, NEW k \in Check
    PROVE  /\ (\E row \in table : row.check = k) => Latest(k, Cached(k)) /\ Cached(k) # None
           /\ ~(\E row \in table : row.check = k) => Cached(k) = None
<1> DEFINE rows == {row \in table : row.check = k}
           Newest(row) == \A other \in rows : other.stamp <= row.stamp
<1>1. Cached(k) = IF rows = {} THEN None ELSE CHOOSE row \in rows : Newest(row)
  BY DEF Cached
<1>2. ASSUME \E row \in table : row.check = k
      PROVE  Latest(k, Cached(k)) /\ Cached(k) # None
  <2>1. \E row \in rows : Newest(row)
    BY <1>2 DEF HasLatest, Latest
  <2>2. Cached(k) \in rows /\ Newest(Cached(k))
    <3> HIDE DEF rows, Newest
    <3>1. rows # {}
      BY <2>1
    <3> QED
      BY <1>1, <2>1, <3>1
  <2>3. Cached(k) \in Row
    BY <2>2 DEF TypeOK
  <2> QED
    BY <2>2, <2>3, StoreAssumption DEF Latest
<1>3. ASSUME ~(\E row \in table : row.check = k)
      PROVE  Cached(k) = None
  BY <1>1, <1>3
<1> QED
  BY <1>2, <1>3

LEMMA FInit == Init => FInv
<1> SUFFICES ASSUME Init PROVE FInv
  OBVIOUS
<1>1. TypeOK
  BY StoreAssumption, FS_CardinalityType DEF Init, TypeOK
<1>2. Finite
  BY FS_EmptySet DEF Init, Finite
<1>3. /\ HasLatest /\ Counted /\ WarmFirst /\ RowsExcused /\ FindingsExcused /\ Locked
      /\ AllOrNothing /\ WarmRunIsFree
  BY DEF Init, HasLatest, Counted, WarmFirst, RowsExcused, FindingsExcused, Locked,
         AllOrNothing, WarmRunIsFree
<1>4. \A r \in Run : Books(r)
  BY DEF Init, Books
<1> QED
  BY <1>1, <1>2, <1>3, <1>4 DEF FInv

-----------------------------------------------------------------------------
(* A run. *)

\* What depends on the rows alone.
LEMMA SameRows ==
    ASSUME FInv, UNCHANGED <<table, txn, warm>>
    PROVE  /\ Finite' /\ HasLatest' /\ WarmFirst' /\ RowsExcused'
           /\ \A row, e : Excused(row, e) => Excused(row, e)'
<1>1. table' = table /\ txn' = txn /\ warm' = warm
  OBVIOUS
<1>2. Finite' /\ HasLatest' /\ WarmFirst'
  BY <1>1 DEF FInv, Finite, HasLatest, Latest, WarmFirst
<1>3. \A row, e : Excused(row, e)' <=> Excused(row, e)
  BY <1>1 DEF Excused, Overlap
<1>4. RowsExcused'
  BY <1>1, <1>3 DEF FInv, RowsExcused
<1> QED
  BY <1>2, <1>3, <1>4

\* A run starts: everything in the table is older than what it will write.
LEMMA FStart ==
    ASSUME FInv, NEW r \in Run, Start(r)
    PROVE  FInv'
<1> USE DEF FInv
<1>1. /\ pc[r] = "new" /\ pc' = [pc EXCEPT ![r] = "running"]
      /\ \E s \in BOOLEAN : skip' = [skip EXCEPT ![r] = s]
      /\ warm' = [warm EXCEPT ![r] = table]
      /\ since' = [since EXCEPT ![r] = Cardinality({a \in Reset : reset[a] = "done"})]
      /\ UNCHANGED <<leaf, finding, table, txn, clock, evals, reset, told>>
  BY DEF Start, dbVars, resetVars
<1>2. TypeOK'
  <2>1. Cardinality({a \in Reset : reset[a] = "done"}) \in 0..Cardinality(Reset)
    <3> DEFINE done == {a \in Reset : reset[a] = "done"}
    <3>1. done \in SUBSET Reset
      OBVIOUS
    <3>2. IsFiniteSet(done) /\ Cardinality(done) <= Cardinality(Reset)
      BY <3>1, StoreAssumption, FS_Subset
    <3>3. Cardinality(done) \in Nat /\ Cardinality(Reset) \in Nat
      BY <3>2, StoreAssumption, FS_CardinalityType
    <3> QED
      BY <3>2, <3>3
  <2> QED
    BY <1>1, <2>1 DEF TypeOK
<1>3. Finite' /\ HasLatest' /\ Counted' /\ Locked' /\ AllOrNothing'
  BY <1>1 DEF Finite, HasLatest, Latest, Counted, Locked, AllOrNothing, Kept
<1>4. \A row \in table : row.run \in Run /\ row.run # r
  BY <1>1 DEF Books, TypeOK, Row
<1>5. \A q \in Run : /\ pc'[q] = IF q = r THEN "running" ELSE pc[q]
                     /\ warm'[q] = IF q = r THEN table ELSE warm[q]
                     /\ q # r => skip'[q] = skip[q]
  BY <1>1 DEF TypeOK
<1>6. \A q \in Run : Books(q)'
  BY <1>1, <1>5 DEF Books
<1>7. WarmFirst'
  BY <1>1, <1>4, <1>5 DEF WarmFirst, Books
<1>8. ASSUME NEW row \in table, NEW e, Excused(row, e)
      PROVE  Excused(row, e)'
  BY <1>1, <1>4, <1>5, <1>8 DEF Excused, Overlap
<1>9. RowsExcused'
  BY <1>1, <1>8 DEF RowsExcused
<1>10. FindingsExcused'
  <2> SUFFICES ASSUME NEW q \in Run, NEW row \in warm'[q], finding[q][row.check] # None,
                      finding[q][row.check].eval < row.eval
               PROVE  Excused(row, finding[q][row.check].eval)'
    BY <1>1 DEF FindingsExcused
  <2>1. CASE q = r
    BY <2>1, <1>1, <1>5 DEF Books, TypeOK, Row
  <2>2. CASE q # r
    <3>1. row \in warm[q] /\ row \in table
      BY <2>2, <1>5 DEF WarmFirst
    <3>2. PICK e : e = finding[q][row.check].eval
      OBVIOUS
    <3>3. Excused(row, e)'
      BY <3>1, <3>2, <1>8 DEF FindingsExcused
    <3> QED
      BY <1>1, <3>2, <3>3
  <2> QED
    BY <2>1, <2>2
<1>11. WarmRunIsFree'
  <2> SUFFICES ASSUME NEW q \in Run, ~skip'[q], NEW row \in warm'[q]
               PROVE  /\ leaf[q][row.check] # "llm"
                      /\ finding[q][row.check] # None => finding[q][row.check].cached
    BY <1>1 DEF WarmRunIsFree
  <2>1. CASE q = r
    BY <2>1, <1>1, <1>5 DEF Books, TypeOK, Row
  <2>2. CASE q # r
    BY <2>2, <1>5 DEF WarmRunIsFree
  <2> QED
    BY <2>1, <2>2
<1> QED
  BY <1>2, <1>3, <1>6, <1>7, <1>9, <1>10, <1>11

\* A leaf is done: without a verdict, with a fresh one, or with that of a row.
LEMMA FLeaf ==
    ASSUME FInv, NEW r \in Run, NEW k \in Check,
           Lookup(r, k) \/ Evaluate(r, k) \/ EvaluateErrored(r, k)
    PROVE  FInv'
<1> USE DEF FInv
<1>1. /\ UNCHANGED <<pc, skip, table, txn, clock, reset, told, warm, since>>
      /\ UNCHANGED <<table, txn, warm>>
      /\ pc[r] = "running" /\ leaf[r][k] # "done"
      /\ \A q \in Run, m \in Check : q # r \/ m # k =>
            finding'[q][m] = finding[q][m] /\ leaf'[q][m] = leaf[q][m]
  BY DEF Lookup, Evaluate, EvaluateErrored, dbVars, resetVars, TypeOK
<1>2. /\ Finite' /\ HasLatest' /\ WarmFirst' /\ RowsExcused'
      /\ \A row, e : Excused(row, e) => Excused(row, e)'
  BY <1>1, SameRows
<1>3. Locked'
  BY <1>1 DEF Locked
<1>4. \A row \in table : row \in Row /\ row.run \in Run /\ row.check \in Check
  BY DEF TypeOK, Row
<1>5. \A row \in table : row.run # r
  BY <1>1, <1>4 DEF Books
<1>6. txn[r] = {} /\ \A q \in Run : \A row \in txn[q] : row.check \in Check
  <2>1. txn[r] = {}
    BY <1>1 DEF Books
  <2>2. \A q \in Run : \A row \in txn[q] : row.check \in Check
    BY DEF TypeOK, Row
  <2> QED
    BY <2>1, <2>2
<1>7. \A q \in Run : Books(q)'
  <2> SUFFICES ASSUME NEW q \in Run PROVE Books(q)'
    OBVIOUS
  <2>1. CASE q = r
    BY <2>1, <1>1, <1>5, <1>6 DEF Books
  <2>2. CASE q # r
    BY <2>2, <1>1, <1>6 DEF Books
  <2> QED
    BY <2>1, <2>2
<1>8. AllOrNothing'
  <2> SUFFICES ASSUME NEW q \in Run, NEW any \in table, any.run = q
               PROVE  LET rows == {row \in table : row.run = q}
                      IN  /\ {row.check : row \in rows} = Kept(q)'
                          /\ \A row \in rows : row.eval = finding'[q][row.check].eval
    BY <1>1 DEF AllOrNothing
  <2>1. q # r
    BY <1>5
  <2>2. Kept(q)' = Kept(q)
    BY <2>1, <1>1 DEF Kept
  <2>3. \A row \in table : row.run = q => finding'[q][row.check] = finding[q][row.check]
    BY <2>1, <1>1, <1>4
  <2> QED
    BY <2>2, <2>3 DEF AllOrNothing
<1>9. ASSUME NEW q \in Run, NEW row \in warm[q]
      PROVE  row \in table /\ row.check \in Check
  BY <1>4 DEF WarmFirst
\* The finding of the leaf is all that is left.
<1>10. ASSUME \/ finding'[r][k] = finding[r][k]
              \/ /\ finding'[r][k] \in Finding
                 /\ finding'[r][k].eval <= evals'[k]
                 /\ \A row \in warm[r] :
                      row.check = k /\ finding'[r][k].eval < row.eval
                         => Excused(row, finding'[r][k].eval)
       PROVE  FindingsExcused'
  <2> SUFFICES ASSUME NEW q \in Run, NEW row \in warm[q], finding'[q][row.check] # None,
                      finding'[q][row.check].eval < row.eval
               PROVE  Excused(row, finding[q][row.check].eval)'
    BY <1>1 DEF FindingsExcused
  <2>1. PICK e : e = finding'[q][row.check].eval
    OBVIOUS
  <2>2. Excused(row, e)
    BY <2>1, <1>1, <1>9, <1>10 DEF FindingsExcused
  <2>3. Excused(row, e)'
    BY <1>2, <2>2
  <2> QED
    BY <2>1, <2>3 DEF Excused
<1>11. CASE Lookup(r, k) /\ ~skip[r] /\ Cached(k) # None
  <2>1. /\ leaf' = [leaf EXCEPT ![r][k] = "done"]
        /\ finding' = [finding EXCEPT ![r][k] = [eval |-> Cached(k).eval, cached |-> TRUE]]
        /\ evals' = evals
    BY <1>11 DEF Lookup
  <2>2. Latest(k, Cached(k)) /\ Cached(k) \in Row
    BY <1>11, CachedLatest DEF Latest, TypeOK
  <2>3. PICK y \in table : y = Cached(k) /\ y.check = k /\ y.eval \in Nat /\ y.stamp \in Nat
    BY <2>2 DEF Latest, Row
  <2>4. finding'[r][k] = [eval |-> y.eval, cached |-> TRUE]
    BY <2>1, <2>3 DEF TypeOK
  <2>5. \A row \in warm[r] : row.check = k /\ y.eval < row.eval => Excused(row, y.eval)
    <3> SUFFICES ASSUME NEW row \in warm[r], row.check = k, y.eval < row.eval
                 PROVE  Excused(row, y.eval)
      OBVIOUS
    <3>1. row \in table /\ row.stamp \in Nat /\ row.stamp <= y.stamp
      BY <1>9, <1>4, <2>2, <2>3 DEF Latest, Row
    <3> QED
      BY <2>3, <3>1 DEF RowsExcused
  <2>6. finding'[r][k] \in Finding /\ finding'[r][k].eval <= evals'[k]
    <3>1. y.eval <= evals'[k]
      BY <2>1, <2>3 DEF Counted
    <3> QED
      BY <2>3, <2>4, <3>1 DEF Finding
  <2>7. FindingsExcused'
    <3>1. finding'[r][k].eval = y.eval
      BY <2>4
    <3> QED
      BY <1>10, <2>5, <2>6, <3>1
  <2>8. Counted'
    BY <2>1, <2>6, <1>1 DEF Counted
  <2>9. TypeOK'
    BY <2>1, <2>3, <1>1 DEF TypeOK, Finding
  <2>10. WarmRunIsFree'
    BY <2>1, <2>4, <1>1, <1>9 DEF WarmRunIsFree, TypeOK
  <2> QED
    BY <1>2, <1>3, <1>7, <1>8, <2>7, <2>8, <2>9, <2>10
<1>12. CASE Lookup(r, k) /\ (skip[r] \/ Cached(k) = None)
  <2>1. leaf' = [leaf EXCEPT ![r][k] = "llm"] /\ finding' = finding /\ evals' = evals
    BY <1>12 DEF Lookup
  <2>2. TypeOK' /\ Counted' /\ FindingsExcused'
    BY <2>1, <1>1, <1>10 DEF TypeOK, Counted
  <2>3. ~skip[r] => \A row \in warm[r] : row.check # k
    BY <1>9, <1>12, CachedLatest
  <2>4. WarmRunIsFree'
    BY <2>1, <2>3, <1>1, <1>9 DEF WarmRunIsFree, TypeOK
  <2> QED
    BY <1>2, <1>3, <1>7, <1>8, <2>2, <2>4
<1>13. CASE Evaluate(r, k)
  <2>1. /\ leaf[r][k] = "llm"
        /\ leaf' = [leaf EXCEPT ![r][k] = "done"]
        /\ evals' = [evals EXCEPT ![k] = @ + 1]
        /\ finding' = [finding EXCEPT ![r][k] = [eval |-> evals[k] + 1, cached |-> FALSE]]
    BY <1>13 DEF Evaluate
  <2>2. evals[k] \in Nat /\ evals'[k] = evals[k] + 1
        /\ finding'[r][k] = [eval |-> evals[k] + 1, cached |-> FALSE]
        /\ finding'[r][k] \in Finding
    BY <2>1 DEF TypeOK, Finding
  <2>3. \A row \in warm[r] : row.check = k => row.eval \in Nat /\ row.eval <= evals[k]
    BY <1>9, <1>4 DEF Counted, Row
  <2>4. FindingsExcused'
    BY <1>10, <2>2, <2>3
  <2>5. \A m \in Check : evals[m] \in Nat /\ evals'[m] \in Nat /\ evals[m] <= evals'[m]
    BY <2>1 DEF TypeOK
  <2>6. Counted'
    <3>1. /\ \A row \in table : row.check \in Check /\ row.eval \in Nat
          /\ \A q \in Run : \A row \in txn[q] : row.check \in Check /\ row.eval \in Nat
          /\ \A q \in Run, m \in Check :
                finding[q][m] # None => finding[q][m].eval \in Nat
      BY DEF TypeOK, Row, Finding
    <3>2. /\ \A row \in table : row.stamp <= clock'[row.check] /\ row.eval <= evals'[row.check]
          /\ \A q \in Run : \A row \in txn[q] :
                row.stamp <= clock'[row.check] /\ row.eval <= evals'[row.check]
      BY <3>1, <2>5, <1>1 DEF Counted
    <3>3. \A q \in Run, m \in Check : finding'[q][m] # None => finding'[q][m].eval <= evals'[m]
      BY <3>1, <2>2, <2>5, <1>1 DEF Counted
    <3> QED
      BY <3>2, <3>3, <1>1 DEF Counted
  <2>7. TypeOK'
    BY <2>1, <2>2, <1>1 DEF TypeOK, Finding
  <2>8. ~skip[r] => \A row \in warm[r] : row.check # k
    BY <2>1 DEF WarmRunIsFree
  <2>9. WarmRunIsFree'
    BY <2>1, <2>8, <1>1, <1>9 DEF WarmRunIsFree, TypeOK
  <2> QED
    BY <1>2, <1>3, <1>7, <1>8, <2>4, <2>6, <2>7, <2>9
<1>14. CASE EvaluateErrored(r, k)
  <2>1. leaf' = [leaf EXCEPT ![r][k] = "done"] /\ finding' = finding /\ evals' = evals
    BY <1>14 DEF EvaluateErrored
  <2>2. TypeOK' /\ Counted' /\ FindingsExcused'
    BY <2>1, <1>1, <1>10 DEF TypeOK, Counted
  <2>3. WarmRunIsFree'
    BY <2>1, <1>1, <1>9 DEF WarmRunIsFree, TypeOK
  <2> QED
    BY <1>2, <1>3, <1>7, <1>8, <2>2, <2>3
<1> QED
  BY <1>11, <1>12, <1>13, <1>14

\* The findings of a crashed run are gone, and nothing was written.
LEMMA FRunCrash ==
    ASSUME FInv, NEW r \in Run, RunCrash(r)
    PROVE  FInv'
<1> USE DEF FInv
<1>1. /\ UNCHANGED <<skip, table, txn, clock, evals, reset, told, warm, since>>
      /\ UNCHANGED <<table, txn, warm>>
      /\ pc[r] = "running"
      /\ pc' = [pc EXCEPT ![r] = "over"]
      /\ leaf' = [leaf EXCEPT ![r] = [k \in Check |-> "done"]]
      /\ finding' = [finding EXCEPT ![r] = [k \in Check |-> None]]
  BY DEF RunCrash, dbVars, resetVars
<1>2. /\ Finite' /\ HasLatest' /\ WarmFirst' /\ RowsExcused'
      /\ \A row, e : Excused(row, e) => Excused(row, e)'
  BY <1>1, SameRows
<1>3. \A q \in Run : q # r => pc'[q] = pc[q] /\ leaf'[q] = leaf[q] /\ finding'[q] = finding[q]
  BY <1>1 DEF TypeOK
<1>4. pc'[r] = "over" /\ \A k \in Check : leaf'[r][k] = "done" /\ finding'[r][k] = None
  BY <1>1 DEF TypeOK
<1>5. \A row \in table : row.run # r
  BY <1>1 DEF Books
<1>6. txn[r] = {}
  BY <1>1 DEF Books
<1>7. TypeOK' /\ Locked'
  BY <1>1 DEF TypeOK, Locked
<1>8. \A q \in Run : Books(q)'
  BY <1>1, <1>3, <1>4, <1>6 DEF Books
<1>9. Counted'
  BY <1>1, <1>3, <1>4 DEF Counted
<1>10. \A q \in Run : \A row \in warm[q] : row.check \in Check
  BY DEF TypeOK, Row
<1>11. WarmRunIsFree'
  BY <1>1, <1>3, <1>4, <1>10 DEF WarmRunIsFree
<1>12. AllOrNothing'
  BY <1>1, <1>3, <1>5 DEF AllOrNothing, Kept
<1>13. FindingsExcused'
  <2> SUFFICES ASSUME NEW q \in Run, NEW row \in warm[q], finding'[q][row.check] # None,
                      finding'[q][row.check].eval < row.eval
               PROVE  Excused(row, finding[q][row.check].eval)'
    BY <1>1 DEF FindingsExcused
  <2>1. PICK e : e = finding'[q][row.check].eval
    OBVIOUS
  <2>2. Excused(row, e)
    BY <2>1, <1>3, <1>4, <1>10 DEF FindingsExcused
  <2>3. Excused(row, e)'
    BY <1>2, <2>2
  <2> QED
    BY <2>1, <2>3 DEF Excused
<1> QED
  BY <1>2, <1>7, <1>8, <1>9, <1>11, <1>12, <1>13

\* The transaction of a run opens, or is rolled back: the rows are as they were.
LEMMA FPersistBeginOrFail ==
    ASSUME FInv, NEW r \in Run, PersistBegin(r) \/ PersistFail(r)
    PROVE  FInv'
<1> USE DEF FInv
<1>1. /\ UNCHANGED <<skip, leaf, finding, table, clock, evals, reset, told, warm, since>>
      /\ pc[r] \in {"running", "writing"}
      /\ \/ pc' = [pc EXCEPT ![r] = "writing"] /\ txn' = txn
         \/ pc' = [pc EXCEPT ![r] = "over"] /\ txn' = [txn EXCEPT ![r] = {}]
  BY DEF PersistBegin, PersistFail, dbVars, resetVars
<1>2. \A q \in Run : /\ txn'[q] \in {txn[q], {}}
                     /\ q # r => txn'[q] = txn[q] /\ pc'[q] = pc[q]
  BY <1>1 DEF TypeOK
<1>3. \/ pc'[r] = "writing" /\ txn'[r] = txn[r]
      \/ pc'[r] = "over" /\ txn'[r] = {}
  <2>1. CASE pc' = [pc EXCEPT ![r] = "writing"] /\ txn' = txn
    BY <2>1 DEF TypeOK
  <2>2. CASE pc' = [pc EXCEPT ![r] = "over"] /\ txn' = [txn EXCEPT ![r] = {}]
    BY <2>2 DEF TypeOK
  <2> QED
    BY <1>1, <2>1, <2>2
<1>4. TypeOK'
  BY <1>1 DEF TypeOK
<1>5. HasLatest' /\ Locked' /\ AllOrNothing' /\ WarmRunIsFree'
  BY <1>1 DEF HasLatest, Latest, Locked, AllOrNothing, Kept, WarmRunIsFree
<1>6. Finite'
  BY <1>1, <1>2, FS_EmptySet DEF Finite
<1>7. Counted' /\ WarmFirst'
  BY <1>1, <1>2 DEF Counted, WarmFirst
<1>8. \A row, e : Excused(row, e)' <=> Excused(row, e)
  BY <1>1 DEF Excused, Overlap
<1>9. RowsExcused' /\ FindingsExcused'
  BY <1>1, <1>8 DEF RowsExcused, FindingsExcused
<1>10. \A q \in Run : Books(q)'
  <2> SUFFICES ASSUME NEW q \in Run PROVE Books(q)'
    OBVIOUS
  <2>1. Books(q)
    OBVIOUS
  <2>2. CASE q = r
    BY <2>1, <2>2, <1>1, <1>3 DEF Books
  <2>3. CASE q # r
    BY <2>1, <2>3, <1>1, <1>2 DEF Books
  <2> QED
    BY <2>2, <2>3
<1> QED
  BY <1>4, <1>5, <1>6, <1>7, <1>9, <1>10

\* One row more in the transaction, later than all of its leaf.
LEMMA FInsertFinding ==
    ASSUME FInv, NEW r \in Run, NEW k \in Check, InsertFinding(r, k)
    PROVE  FInv'
<1> USE DEF FInv
<1> DEFINE new == [run |-> r, check |-> k, eval |-> finding[r][k].eval, stamp |-> clock[k] + 1]
<1>1. /\ UNCHANGED <<pc, skip, leaf, finding, table, evals, reset, told, warm, since>>
      /\ pc[r] = "writing"
      /\ clock' = [clock EXCEPT ![k] = @ + 1]
      /\ txn' = [txn EXCEPT ![r] = @ \cup {new}]
  BY DEF InsertFinding, runVars, resetVars
<1>2. finding[r][k] # None /\ \A row \in txn[r] : row.check # k
  BY DEF InsertFinding, InTurn, Kept
<1>3. /\ \A q \in Run : txn'[q] = IF q = r THEN txn[r] \cup {new} ELSE txn[q]
      /\ \A m \in Check : clock'[m] = IF m = k THEN clock[k] + 1 ELSE clock[m]
      /\ \A m \in Check : clock[m] \in Nat /\ clock'[m] \in Nat /\ clock[m] <= clock'[m]
  BY <1>1 DEF TypeOK
<1>4. new \in Row /\ finding[r][k].eval \in Nat
  BY <1>2, <1>3 DEF TypeOK, Row, Finding
<1>5. PICK n \in Row : n = new
  BY <1>4
<1>6. n.run = r /\ n.check = k /\ n.eval = finding[r][k].eval /\ n.stamp = clock[k] + 1
  BY <1>5
<1>7. \A q \in Run : txn'[q] = IF q = r THEN txn[r] \cup {n} ELSE txn[q]
  BY <1>3, <1>5
<1> HIDE DEF new
<1>8. TypeOK'
  <2>1. txn' = [txn EXCEPT ![r] = @ \cup {n}]
    BY <1>1, <1>5
  <2> QED
    BY <1>1, <2>1 DEF TypeOK
<1>9. HasLatest' /\ Locked' /\ AllOrNothing' /\ WarmRunIsFree'
  BY <1>1 DEF HasLatest, Latest, Locked, AllOrNothing, Kept, WarmRunIsFree
<1>10. Finite'
  <2>1. IsFiniteSet(txn[r] \cup {n})
    BY FS_AddElement DEF Finite
  <2> QED
    BY <1>1, <1>7, <2>1 DEF Finite
<1>11. /\ \A row \in table : row \in Row /\ row.check \in Check /\ row.stamp \in Nat
       /\ \A q \in Run : \A row \in txn[q] : row.check \in Check /\ row.stamp \in Nat
  BY DEF TypeOK, Row
<1>12. Counted'
  <2>1. \A row \in table : row.stamp <= clock'[row.check] /\ row.eval <= evals[row.check]
    BY <1>3, <1>11 DEF Counted
  <2>2. \A q \in Run : \A row \in txn[q] :
           row.stamp <= clock'[row.check] /\ row.eval <= evals[row.check]
    BY <1>3, <1>11 DEF Counted
  <2>3. n.stamp <= clock'[n.check] /\ n.eval <= evals[n.check]
    BY <1>2, <1>3, <1>6 DEF Counted
  <2> QED
    BY <2>1, <2>2, <2>3, <1>1, <1>7 DEF Counted
<1>13. WarmFirst'
  <2>1. \A w \in warm[r] : w.check = k => w.stamp < n.stamp
    BY <1>3, <1>6, <1>11 DEF WarmFirst, Counted
  <2> QED
    BY <2>1, <1>1, <1>6, <1>7 DEF WarmFirst
<1>14. \A row, e : Excused(row, e)' <=> Excused(row, e)
  BY <1>1 DEF Excused, Overlap
<1>15. RowsExcused' /\ FindingsExcused'
  BY <1>1, <1>14 DEF RowsExcused, FindingsExcused
<1>16. \A q \in Run : Books(q)'
  <2> SUFFICES ASSUME NEW q \in Run PROVE Books(q)'
    OBVIOUS
  <2>1. Books(q)
    OBVIOUS
  <2>2. CASE q = r
    BY <2>1, <2>2, <1>1, <1>2, <1>6, <1>7 DEF Books
  <2>3. CASE q # r
    BY <2>1, <2>3, <1>1, <1>7 DEF Books
  <2> QED
    BY <2>2, <2>3
<1> QED
  BY <1>8, <1>9, <1>10, <1>12, <1>13, <1>15, <1>16

\* A run's rows become visible together.  Of two rows one of which is new, the
\* writer of the new one had started before the other row was committed, or had
\* the older verdict from the cache.
LEMMA FPersistCommit ==
    ASSUME FInv, NEW r \in Run, PersistCommit(r)
    PROVE  FInv'
<1> USE DEF FInv
<1>1. /\ UNCHANGED <<skip, leaf, finding, clock, evals, reset, told, warm, since>>
      /\ pc[r] = "writing"
      /\ {row.check : row \in txn[r]} = Kept(r)
      /\ pc' = [pc EXCEPT ![r] = "over"]
      /\ table' = table \cup txn[r]
      /\ txn' = [txn EXCEPT ![r] = {}]
  BY DEF PersistCommit, resetVars
<1>2. \A q \in Run : /\ txn'[q] = IF q = r THEN {} ELSE txn[q]
                     /\ pc'[q] = IF q = r THEN "over" ELSE pc[q]
  BY <1>1 DEF TypeOK
<1>3. TypeOK'
  BY <1>1 DEF TypeOK
<1>4. Finite'
  <2>1. IsFiniteSet(table')
    BY <1>1, FS_Union DEF Finite
  <2> QED
    BY <2>1, <1>2, FS_EmptySet DEF Finite
<1>5. /\ \A row \in table : row.run \in Run /\ row.run # r
      /\ \A row \in txn[r] : row.run = r /\ row \notin table
  <2>1. \A row \in table : row.run \in Run
    BY DEF TypeOK, Row
  <2>2. \A row \in table : row.run # r
    BY <1>1 DEF Books
  <2>3. \A row \in txn[r] : row.run = r
    BY DEF Books
  <2> QED
    BY <2>1, <2>2, <2>3
<1>6. \A row \in table' : /\ row.check \in Check /\ row.stamp \in Nat /\ row.eval \in Nat
                          /\ row.run \in Run
  BY <1>3 DEF TypeOK, Row
<1>7. \A q \in Run : Books(q)'
  <2> SUFFICES ASSUME NEW q \in Run PROVE Books(q)'
    OBVIOUS
  <2>1. Books(q)
    OBVIOUS
  <2>2. CASE q = r
    BY <2>1, <2>2, <1>1, <1>2 DEF Books
  <2>3. CASE q # r
    BY <2>1, <2>3, <1>1, <1>2, <1>5 DEF Books
  <2> QED
    BY <2>2, <2>3
<1>8. Counted' /\ WarmFirst'
  <2>1. Counted'
    BY <1>1, <1>2 DEF Counted
  <2>2. \A row \in table' : \A w \in warm[row.run] : w.check = row.check => w.stamp < row.stamp
    BY <1>1, <1>5 DEF WarmFirst
  <2> QED
    BY <2>1, <2>2, <1>1, <1>2 DEF WarmFirst
\* A leaf has at most one new row.
<1>9. HasLatest'
  <2> SUFFICES ASSUME NEW k \in Check, NEW any \in table', any.check = k
               PROVE  \E row \in table' : Latest(k, row)'
    BY DEF HasLatest
  <2>1. CASE \A n \in txn[r] : n.check # k
    <3>1. PICK y \in table : Latest(k, y)
      BY <2>1, <1>1 DEF HasLatest
    <3> QED
      BY <2>1, <3>1, <1>1 DEF Latest
  <2>2. ASSUME NEW n \in txn[r], n.check = k
        PROVE  \E row \in table' : Latest(k, row)'
    <3>1. n \in table' /\ n.stamp \in Nat
      BY <1>1, <1>6
    <3>2. \A m \in txn[r] : m.check = k => m = n
      BY <2>2 DEF Books
    <3>3. CASE \A row \in table : row.check # k
      <4>1. Latest(k, n)'
        BY <2>2, <3>1, <3>2, <3>3, <1>1 DEF Latest
      <4> QED
        BY <3>1, <4>1
    <3>4. CASE \E row \in table : row.check = k
      <4>1. PICK y \in table : Latest(k, y)
        BY <3>4 DEF HasLatest
      <4>2. y \in table' /\ y.stamp \in Nat
        BY <1>1, <1>6
      <4>3. CASE n.stamp <= y.stamp
        <5>1. Latest(k, y)'
          BY <3>2, <4>1, <4>2, <4>3, <1>1 DEF Latest
        <5> QED
          BY <4>2, <5>1
      <4>4. CASE y.stamp <= n.stamp
        <5>1. \A row \in table : row.check = k => row.stamp <= n.stamp
          BY <3>1, <4>1, <4>2, <4>4, <1>1, <1>6 DEF Latest
        <5>2. Latest(k, n)'
          BY <2>2, <3>1, <3>2, <5>1, <1>1 DEF Latest
        <5> QED
          BY <3>1, <5>2
      <4> QED
        BY <3>1, <4>2, <4>3, <4>4
    <3> QED
      BY <3>3, <3>4
  <2> QED
    BY <2>1, <2>2
<1>10. \A row, e : Excused(row, e) => Excused(row, e)'
  BY <1>1 DEF Excused, Overlap
<1>11. RowsExcused'
  <2> SUFFICES ASSUME NEW x \in table', NEW row \in table',
                      x.check = row.check, x.eval < row.eval, x.stamp >= row.stamp
               PROVE  Excused(row, x.eval)'
    BY DEF RowsExcused
  <2>1. CASE x \in table /\ row \in table
    BY <2>1, <1>10 DEF RowsExcused
  <2>2. CASE x \in txn[r] /\ row \in warm[r]
    <3>1. x.eval = finding[r][row.check].eval /\ finding[r][row.check] # None
      BY <2>2 DEF Books
    <3>2. Excused(row, x.eval)
      BY <2>2, <3>1 DEF FindingsExcused
    <3> QED
      BY <3>2, <1>10
  <2>3. CASE x \in txn[r] /\ row \in table /\ row \notin warm[r]
    <3>1. x.run = r /\ x \notin warm[row.run]
      BY <2>3, <1>5 DEF WarmFirst
    <3> QED
      BY <2>3, <3>1, <1>1 DEF Excused, Overlap
  <2>4. CASE x \in table /\ row \in txn[r]
    <3>1. row \notin warm[x.run]
      BY <2>4, <1>5 DEF WarmFirst
    <3>2. x \notin warm[row.run]
      BY <2>4, <1>5, <1>6 DEF WarmFirst
    <3> QED
      BY <3>1, <3>2, <1>1 DEF Excused, Overlap
  <2>5. CASE x \in txn[r] /\ row \in txn[r]
    <3>1. x = row
      BY <2>5 DEF Books
    <3> QED
      BY <3>1, <1>6
  <2> QED
    BY <2>1, <2>2, <2>3, <2>4, <2>5, <1>1
<1>12. FindingsExcused'
  <2> SUFFICES ASSUME NEW q \in Run, NEW row \in warm[q], finding[q][row.check] # None,
                      finding[q][row.check].eval < row.eval
               PROVE  Excused(row, finding[q][row.check].eval)'
    BY <1>1 DEF FindingsExcused
  <2>1. PICK e : e = finding[q][row.check].eval
    OBVIOUS
  <2>2. Excused(row, e)'
    BY <2>1, <1>10 DEF FindingsExcused
  <2> QED
    BY <2>1, <2>2, <1>1 DEF Excused
<1>13. Locked'
  <2>1. table \in SUBSET table' /\ IsFiniteSet(table') /\ IsFiniteSet(table)
    BY <1>1, <1>4 DEF Finite
  <2>2. Cardinality(table) <= Cardinality(table')
    BY <2>1, FS_Subset
  <2>3. Cardinality(table) \in Nat /\ Cardinality(table') \in Nat
    BY <2>1, FS_CardinalityType
  <2> QED
    BY <2>2, <2>3, <1>1 DEF Locked, TypeOK
<1>14. AllOrNothing'
  <2> SUFFICES ASSUME NEW q \in Run, NEW any \in table', any.run = q
               PROVE  LET rows == {row \in table' : row.run = q}
                      IN  /\ {row.check : row \in rows} = Kept(q)
                          /\ \A row \in rows : row.eval = finding[q][row.check].eval
    BY <1>1 DEF AllOrNothing, Kept
  <2>1. CASE q = r
    <3>1. {row \in table' : row.run = q} = txn[r]
      BY <2>1, <1>1, <1>5
    <3> QED
      BY <2>1, <3>1, <1>1 DEF Books
  <2>2. CASE q # r
    <3>1. {row \in table' : row.run = q} = {row \in table : row.run = q} /\ any \in table
      BY <2>2, <1>1, <1>5
    <3> QED
      BY <3>1 DEF AllOrNothing
  <2> QED
    BY <2>1, <2>2
<1>15. WarmRunIsFree'
  BY <1>1 DEF WarmRunIsFree
<1> QED
  BY <1>3, <1>4, <1>7, <1>8, <1>9, <1>11, <1>12, <1>13, <1>14, <1>15

-----------------------------------------------------------------------------
(* DELETE /admin/data. *)

\* A request that waits for the table has counted what will be removed at least.
LEMMA FReset ==
    ASSUME FInv, NEW a \in Reset, ResetNext(a)
    PROVE  FInv'
<1> USE DEF FInv
<1>1. CASE ResetTruncate(a)
  <2>1. /\ UNCHANGED <<pc, skip, leaf, finding, txn, clock, evals, told, since>>
        /\ reset' = [reset EXCEPT ![a] = "done"]
        /\ table' = {} /\ warm' = [r \in Run |-> {}]
        /\ \A b \in Reset \ {a} : reset[b] # "counted"
    BY <1>1 DEF ResetTruncate, runVars
  <2>2. TypeOK'
    BY <2>1 DEF TypeOK
  <2>3. Finite'
    BY <2>1, FS_EmptySet DEF Finite
  <2>4. HasLatest' /\ RowsExcused' /\ FindingsExcused' /\ AllOrNothing' /\ WarmRunIsFree'
    BY <2>1 DEF HasLatest, RowsExcused, FindingsExcused, AllOrNothing, WarmRunIsFree
  <2>5. Counted' /\ WarmFirst'
    BY <2>1 DEF Counted, WarmFirst
  <2>6. \A r \in Run : Books(r)'
    BY <2>1 DEF Books
  <2>7. Locked'
    BY <2>1 DEF Locked, TypeOK
  <2> QED
    BY <2>2, <2>3, <2>4, <2>5, <2>6, <2>7
<1>2. CASE ResetCount(a) \/ ResetDeadlock(a)
  <2>1. /\ UNCHANGED <<pc, skip, leaf, finding, table, txn, clock, evals, warm, since>>
        /\ UNCHANGED <<table, txn, warm>>
    BY <1>2 DEF ResetCount, ResetDeadlock, runVars, dbVars
  <2>2. Cardinality(table) \in Nat
    BY FS_CardinalityType DEF Finite
  <2>3. TypeOK' /\ Locked'
    <3>1. CASE ResetCount(a)
      BY <2>1, <2>2, <3>1 DEF ResetCount, TypeOK, Locked
    <3>2. CASE ResetDeadlock(a)
      BY <2>1, <3>2 DEF ResetDeadlock, TypeOK, Locked
    <3> QED
      BY <1>2, <3>1, <3>2
  <2>4. /\ Finite' /\ HasLatest' /\ WarmFirst' /\ RowsExcused'
        /\ \A row, e : Excused(row, e)' <=> Excused(row, e)
    BY <2>1, SameRows DEF Excused, Overlap
  <2>5. Counted' /\ FindingsExcused' /\ AllOrNothing' /\ WarmRunIsFree'
    BY <2>1, <2>4 DEF Counted, FindingsExcused, AllOrNothing, Kept, WarmRunIsFree
  <2>6. \A r \in Run : Books(r)'
    BY <2>1 DEF Books
  <2> QED
    BY <2>3, <2>4, <2>5, <2>6
<1> QED
  BY <1>1, <1>2 DEF ResetNext

-----------------------------------------------------------------------------

LEMMA FStep ==
    ASSUME FInv, [Next]_vars
    PROVE  FInv'
<1>1. ASSUME NEW r \in Run, RunNext(r) PROVE FInv'
  BY <1>1, FStart, FLeaf, FRunCrash, FPersistBeginOrFail, FInsertFinding, FPersistCommit
     DEF RunNext
<1>2. ASSUME NEW a \in Reset, ResetNext(a) PROVE FInv'
  BY <1>2, FReset
<1>3. CASE UNCHANGED vars
  <2>1. /\ UNCHANGED <<pc, skip, leaf, finding, table, txn, clock, evals, reset, told, warm, since>>
        /\ UNCHANGED <<table, txn, warm>>
    BY <1>3 DEF vars, runVars, dbVars, resetVars
  <2>2. TypeOK' /\ Locked' /\ Counted' /\ AllOrNothing' /\ WarmRunIsFree'
    <3>1. TypeOK'
      BY <2>1 DEF FInv, TypeOK
    <3>2. Locked' /\ Counted'
      BY <2>1 DEF FInv, Locked, Counted
    <3>3. AllOrNothing'
      BY <2>1 DEF FInv, AllOrNothing, Kept
    <3>4. WarmRunIsFree'
      BY <2>1 DEF FInv, WarmRunIsFree
    <3> QED
      BY <3>1, <3>2, <3>3, <3>4
  <2>3. /\ Finite' /\ HasLatest' /\ WarmFirst' /\ RowsExcused'
        /\ \A row, e : Excused(row, e)' <=> Excused(row, e)
    BY <2>1, SameRows DEF Excused, Overlap
  <2>4. FindingsExcused'
    BY <2>1, <2>3 DEF FInv, FindingsExcused
  <2>5. \A r \in Run : Books(r)'
    BY <2>1 DEF FInv, Books
  <2> QED
    BY <2>2, <2>3, <2>4, <2>5 DEF FInv
<1> QED
  BY <1>1, <1>2, <1>3 DEF Next, Quiescent

LEMMA StoreInvariant == Spec => []FInv
<1> QED
  BY FInit, FStep, PTL DEF Spec

\* The table, the transactions over it and the runs' findings are well-typed.
THEOREM StoreTypes == Spec => []TypeOK
<1>1. FInv => TypeOK
  BY DEF FInv
<1> QED
  BY <1>1, StoreInvariant, PTL

\* persist_run is all or nothing for every reader of findings, with any number
\* of runs writing, failing and being reset.
THEOREM AllOrNothingCorrect == Spec => []AllOrNothing
<1>1. FInv => AllOrNothing
  BY DEF FInv
<1> QED
  BY <1>1, StoreInvariant, PTL

\* get_cached_finding returns a superseded verdict only if two runs overlapped,
\* however many runs have copied it since.
THEOREM StaleOnlyByOverlapCorrect == Spec => []StaleOnlyByOverlap
<1>1. ASSUME FInv PROVE StaleOnlyByOverlap
  <2> SUFFICES ASSUME NEW k \in Check, Cached(k) # None,
                      NEW row \in table, row.check = k, row.eval > Cached(k).eval
               PROVE  \E old \in table :
                          /\ old.check = k /\ old.eval = Cached(k).eval
                          /\ old.stamp >= row.stamp /\ Overlap(row, old)
    BY DEF StaleOnlyByOverlap
  <2>1. Latest(k, Cached(k))
    BY <1>1, CachedLatest DEF FInv
  <2>2. PICK y \in table : y = Cached(k) /\ y.check = k /\ row.stamp <= y.stamp
    BY <2>1 DEF Latest
  <2>3. row \in Row /\ y \in Row
    BY <1>1 DEF FInv, TypeOK
  <2>4. y.eval < row.eval /\ y.stamp >= row.stamp
    BY <2>2, <2>3 DEF Row
  <2>5. Excused(row, y.eval)
    BY <1>1, <2>2, <2>4 DEF FInv, RowsExcused
  <2> QED
    BY <2>2, <2>5 DEF Excused
<1> QED
  BY <1>1, StoreInvariant, PTL

\* A leaf whose finding was committed before the run started, and not reset
\* since, costs no call of the LLM.
THEOREM WarmRunIsFreeCorrect == Spec => []WarmRunIsFree
<1>1. FInv => WarmRunIsFree
  BY DEF FInv
<1> QED
  BY <1>1, StoreInvariant, PTL

\* reset_data never reports more than its TRUNCATE removes: the lock its COUNTs
\* leave on the tables keeps the other requests out, and runs only add rows.
THEOREM CountsAreRemovedCorrect == Spec => CountsAreRemoved
<1> DEFINE Removed == \A a \in Reset : reset[a] # "done" /\ reset'[a] = "done"
                                         => told[a] <= Cardinality(table)
<1>1. ASSUME FInv, [Next]_vars PROVE [Removed]_vars
  <2> SUFFICES ASSUME NEW a \in Reset, reset[a] # "done", reset'[a] = "done", Next
               PROVE  told[a] <= Cardinality(table)
    BY <1>1
  <2>1. reset[a] = "counted"
    <3>1. ASSUME NEW r \in Run, RunNext(r) PROVE reset' = reset
      BY <3>1 DEF RunNext, Start, Lookup, Evaluate, EvaluateErrored, RunCrash, PersistBegin,
                  InsertFinding, PersistCommit, PersistFail, resetVars
    <3>2. ASSUME NEW b \in Reset, ResetNext(b) PROVE reset[a] = "counted"
      BY <1>1, <3>2 DEF ResetNext, ResetCount, ResetTruncate, ResetDeadlock, FInv, TypeOK
    <3>3. CASE Quiescent
      BY <3>3 DEF Quiescent, vars, resetVars
    <3> QED
      BY <3>1, <3>2, <3>3 DEF Next
  <2> QED
    BY <1>1, <2>1 DEF FInv, Locked
<1> QED
  BY <1>1, StoreInvariant, PTL DEF Spec, CountsAreRemoved
=============================================================================
