---------------------------- MODULE LogBufferProofs ----------------------------
(***************************************************************************)
(* First the ring buffer: it keeps the newest entries, in the order of     *)
(* their numbers, for any number of threads, capacity and length of the    *)
(* log.                                                                    *)
(*                                                                         *)
(* Then a snapshot: as long as its iterator may be used, the buffer is     *)
(* what it was when the iterator was made, so the list built so far is     *)
(* right for the entries passed so far.                                    *)
(***************************************************************************)
EXTENDS LogBuffer, TLAPS

\* The types of what emit writes.
LogType ==
    /\ counter \in 0..MaxLogged
    /\ entry \in [Thread -> Entry \cup {NoEntry}]
    /\ buf \in Seq(Entry) /\ Len(buf) <= Capacity
    /\ logged \in Seq(Entry)

\* The handler's lock: one thread at a time has a number that is not appended,
\* and it is the newest.
Serial ==
    /\ \A t, u \in Thread : t # u => entry[t] = NoEntry \/ entry[u] = NoEntry
    /\ \A t \in Thread : entry[t].id <= counter
    /\ \A i \in 1..Len(logged) :
          /\ logged[i].id <= counter
          /\ \A t \in Thread : entry[t] # NoEntry => logged[i].id < entry[t].id
    /\ Ascending(logged)

\* buf is the end of the log.
Newest ==
    /\ Len(buf) <= Len(logged)
    /\ Len(buf) < Capacity => Len(buf) = Len(logged)
    /\ \A i \in 1..Len(buf) : buf[i] = logged[Len(logged) - Len(buf) + i]

LInv == LogType /\ Serial /\ Newest

LEMMA LInit == Init => LInv
BY LogBufferAssumption
   DEF Init, LInv, LogType, Serial, Newest, Ascending, NoEntry

\* The numbers in the log.
LEMMA LoggedIds ==
    ASSUME LInv
    PROVE  \A i \in 1..Len(logged) : logged[i].id \in Int /\ logged[i].id <= counter
<1> SUFFICES ASSUME NEW i \in 1..Len(logged)
             PROVE  logged[i].id \in Int /\ logged[i].id <= counter
  OBVIOUS
<1>1. logged \in Seq(Entry)
  BY DEF LInv, LogType
<1>2. logged[i] \in Entry
  BY <1>1
<1>3. logged[i].id \in 1..MaxLogged
  BY <1>2 DEF Entry
<1> QED
  BY <1>3, LogBufferAssumption DEF LInv, Serial

\* A number is given while nobody else is emitting.
LEMMA LNumber ==
    ASSUME LInv, NEW t \in Thread, Number(t)
    PROVE  LInv'
<1> USE LogBufferAssumption
<1>1. PICK l \in Level : entry' = [entry EXCEPT ![t] = [id |-> counter + 1, level |-> l]]
  BY DEF Number
<1>2. /\ counter' = counter + 1 /\ counter' \in 1..MaxLogged
      /\ buf' = buf /\ logged' = logged
      /\ \A u \in Thread : entry[u] = NoEntry
  BY DEF Number, LInv, LogType
<1>3. [id |-> counter + 1, level |-> l] \in Entry
  BY <1>2 DEF Entry
<1>4. LogType'
  BY <1>1, <1>2, <1>3 DEF LInv, LogType
<1>5. /\ entry'[t].id = counter'
      /\ \A u \in Thread : u # t => entry'[u] = NoEntry
  BY <1>1, <1>2 DEF LInv, LogType
<1>6. \A i \in 1..Len(logged) : logged[i].id \in Int /\ logged[i].id <= counter
  BY LoggedIds
<1>7. Serial'
  <2>1. counter' \in Int /\ counter < counter'
    BY <1>2 DEF LInv, LogType
  <2>2. \A u \in Thread : entry'[u].id <= counter'
    BY <1>2, <1>5 DEF NoEntry
  <2>3. \A i \in 1..Len(logged) :
           /\ logged[i].id <= counter'
           /\ \A u \in Thread : entry'[u] # NoEntry => logged[i].id < entry'[u].id
    <3>1. \A i \in 1..Len(logged) : logged[i].id < counter'
      BY <1>2, <1>6, <2>1 DEF LInv, LogType
    <3> QED
      BY <1>2, <1>5, <1>6, <2>1, <3>1
  <2>4. Ascending(logged)'
    BY <1>2 DEF LInv, Serial, Ascending
  <2> QED
    BY <1>2, <1>5, <2>2, <2>3, <2>4 DEF Serial
<1>8. Newest'
  BY <1>2 DEF LInv, Newest
<1> QED
  BY <1>4, <1>7, <1>8 DEF LInv

LEMMA LDrop ==
    ASSUME LInv, NEW t \in Thread, Drop(t)
    PROVE  LInv'
<1>1. /\ entry' = [entry EXCEPT ![t] = NoEntry]
      /\ UNCHANGED <<counter, buf, logged>>
  BY DEF Drop
<1>2. LogType'
  BY <1>1 DEF LInv, LogType
<1>3. \A u \in Thread : entry'[u] = IF u = t THEN NoEntry ELSE entry[u]
  BY <1>1 DEF LInv, LogType
<1>4. Serial'
  BY <1>1, <1>3, LogBufferAssumption DEF LInv, LogType, Serial, Ascending, NoEntry
<1> QED
  BY <1>1, <1>2, <1>4 DEF LInv, Newest

\* The newest entry is appended to the log and to the buffer, and the oldest
\* one of a full buffer goes.
LEMMA LAppend ==
    ASSUME LInv, NEW t \in Thread, AppendEntry(t)
    PROVE  LInv'
<1> DEFINE e    == entry[t]
           full == Append(buf, e)
           n    == Len(logged)
<1> USE LogBufferAssumption
<1>1. /\ entry' = [entry EXCEPT ![t] = NoEntry]
      /\ e # NoEntry /\ e \in Entry
      /\ logged' = Append(logged, e) /\ counter' = counter
      /\ buf' = IF Len(full) > Capacity THEN Tail(full) ELSE full
  BY DEF AppendEntry, LInv, LogType
<1>2. /\ n \in Nat /\ Len(logged') = n + 1 /\ logged'[n + 1] = e
      /\ \A i \in 1..n : logged'[i] = logged[i]
      /\ logged' \in Seq(Entry)
  BY <1>1 DEF LInv, LogType
<1>3. /\ Len(full) = Len(buf) + 1 /\ Len(buf) \in Nat /\ full \in Seq(Entry)
      /\ full[Len(buf) + 1] = e
      /\ \A i \in 1..Len(buf) : full[i] = buf[i]
  BY <1>1 DEF LInv, LogType
<1>4. \A u \in Thread : entry'[u] = NoEntry
  BY <1>1 DEF LInv, LogType, Serial
<1>5. Serial'
  <2>1. \A i \in 1..n : /\ logged[i].id <= counter /\ logged[i].id < e.id
                        /\ logged[i].id \in Int
    BY <1>1, LoggedIds DEF LInv, Serial
  <2>2. e.id <= counter /\ e.id \in Int /\ counter \in Nat
    BY <1>1 DEF LInv, LogType, Serial, Entry
  <2>3. \A i \in 1..(n + 1) : i = n + 1 \/ i \in 1..n
    BY <1>2
  <2>4. \A i \in 1..Len(logged') : logged'[i].id <= counter
    BY <1>2, <2>1, <2>2, <2>3
  <2>5. Ascending(logged)'
    <3>1. \A i, j \in 1..n : i < j => logged[i].id < logged[j].id
      BY DEF LInv, Serial, Ascending
    <3>2. ASSUME NEW i \in 1..(n + 1), NEW j \in 1..(n + 1), i < j
          PROVE  logged'[i].id < logged'[j].id
      <4> HIDE DEF n, e
      <4>1. i \in 1..n
        BY <1>2, <3>2
      <4>2. CASE j = n + 1
        BY <1>2, <2>1, <4>1, <4>2
      <4>3. CASE j \in 1..n
        BY <1>2, <3>1, <3>2, <4>1, <4>3
      <4> QED
        BY <2>3, <4>2, <4>3
    <3> QED
      BY <1>2, <3>2 DEF Ascending
  <2> QED
    BY <1>1, <1>4, <2>2, <2>4, <2>5 DEF Serial, NoEntry
<1>6. \A i \in 1..(Len(buf) + 1) : full[i] = logged'[n - Len(buf) + i]
  <2>1. \A i \in 1..Len(buf) : buf[i] = logged[n - Len(buf) + i]
    BY DEF LInv, Newest
  <2>2. Len(buf) <= n
    BY DEF LInv, Newest
  <2> HIDE DEF full, n, e
  <2>3. ASSUME NEW i \in 1..Len(buf)
        PROVE  full[i] = logged'[n - Len(buf) + i]
    BY <1>2, <1>3, <2>1, <2>2
  <2>4. full[Len(buf) + 1] = logged'[n - Len(buf) + (Len(buf) + 1)]
    BY <1>2, <1>3
  <2> QED
    BY <1>3, <2>3, <2>4
<1>7. CASE Len(full) > Capacity
  <2>0. Len(buf) <= Capacity /\ Capacity \in Nat /\ buf' = Tail(full)
    BY <1>1, <1>7 DEF LInv, LogType
  <2>1. /\ Len(buf) = Capacity /\ Len(buf') = Len(buf) /\ buf' \in Seq(Entry)
        /\ \A i \in 1..Len(buf') : buf'[i] = full[i + 1]
    <3> HIDE DEF full
    <3>1. full # <<>> /\ Len(buf) = Capacity
      BY <1>3, <1>7, <2>0
    <3>2. /\ Tail(full) \in Seq(Entry) /\ Len(Tail(full)) = Len(full) - 1
          /\ \A i \in 1..(Len(full) - 1) : Tail(full)[i] = full[i + 1]
      BY <1>3, <3>1
    <3> QED
      BY <1>3, <2>0, <3>1, <3>2
  <2>2. Newest'
    <3> HIDE DEF full, n, e
    <3>1. Len(buf) <= n
      BY DEF LInv, Newest, n
    <3>2. ASSUME NEW i \in 1..Len(buf')
          PROVE  buf'[i] = logged'[n + 1 - Len(buf') + i]
      <4>1. buf'[i] = logged'[n - Len(buf) + (i + 1)]
        BY <1>3, <1>6, <2>1
      <4>2. n - Len(buf) + (i + 1) = n + 1 - Len(buf') + i
        BY <1>2, <1>3, <2>1
      <4> QED
        BY <4>1, <4>2
    <3> QED
      BY <1>2, <1>3, <2>1, <3>1, <3>2 DEF Newest
  <2>3. LogType'
    BY <1>1, <1>2, <2>1 DEF LInv, LogType
  <2> QED
    BY <1>5, <2>2, <2>3 DEF LInv
<1>8. CASE Len(full) <= Capacity
  <2>1. buf' = full /\ Len(buf') = Len(buf) + 1 /\ Len(buf) = n
    BY <1>1, <1>3, <1>8 DEF LInv, LogType, Newest
  <2>2. Newest'
    <3> HIDE DEF full, n, e
    <3>1. n + 1 - Len(buf') = n - Len(buf)
      BY <1>2, <1>3, <2>1
    <3> QED
      BY <1>2, <1>3, <1>6, <2>1, <3>1 DEF Newest
  <2>3. LogType'
    BY <1>1, <1>2, <1>3, <1>8, <2>1 DEF LInv, LogType
  <2> QED
    BY <1>5, <2>2, <2>3 DEF LInv
<1> QED
  BY <1>3, <1>7, <1>8 DEF LInv, LogType

\* A snapshot writes nothing that emit writes.
LEMMA LStep == LInv /\ [Next]_vars => LInv'
<1> SUFFICES ASSUME LInv, [Next]_vars PROVE LInv'
  OBVIOUS
<1>1. CASE UNCHANGED logVars
  BY <1>1 DEF logVars, LInv, LogType, Serial, Newest, Ascending
<1>2. CASE Open \/ Read
  BY <1>1, <1>2 DEF Open, Read, Step, Exhaust, Mutated
<1> QED
  BY <1>1, <1>2, LNumber, LDrop, LAppend DEF Next, Emit, vars

LEMMA BufferAscends ==
    ASSUME LInv
    PROVE  Ascending(buf)
<1>1. ASSUME NEW i \in 1..Len(buf)
      PROVE  /\ Len(logged) - Len(buf) + i \in 1..Len(logged)
             /\ buf[i] = logged[Len(logged) - Len(buf) + i]
  BY DEF LInv, LogType, Newest
<1>2. \A i, j \in 1..Len(buf) :
         i < j => Len(logged) - Len(buf) + i < Len(logged) - Len(buf) + j
  BY DEF LInv, LogType
<1>3. \A i, j \in 1..Len(logged) : i < j => logged[i].id < logged[j].id
  BY DEF LInv, Serial, Ascending
<1> QED
  BY <1>1, <1>2, <1>3 DEF Ascending

\* The buffer holds the newest records, in order, whichever threads log and
\* whatever is read meanwhile (emit).
THEOREM NewestCorrect == Spec => []KeepsNewest
<1>1. LInv => KeepsNewest
  BY BufferAscends DEF LInv, LogType, Newest, KeepsNewest
<1>2. Spec => []LInv
  BY LInit, LStep, PTL DEF Spec
<1> QED
  BY <1>1, <1>2, PTL

-----------------------------------------------------------------------------
(* The snapshot. *)

\* No more entries than numbers, and one less while a thread has one in hand.
Room ==
    /\ Len(logged) <= counter
    /\ \A t \in Thread : entry[t] # NoEntry => Len(logged) < counter

\* The iterator stays within the buffer for as long as it may be used.
ReadType ==
    /\ opened \in Seq(Entry) /\ out \in Seq(Entry)
    /\ iter \in [at : {"closed", "open", "done", "raised"}, threshold : {0, 20, 40},
                 limit : Limits \cup {0}, state : 0..MaxLogged, left : 0..Capacity]
    /\ iter.state <= Len(logged)
    /\ iter.at = "open" /\ iter.state = Len(logged) => iter.left <= Len(buf)

RInv == LInv /\ Room /\ ReadType

LEMMA RInit == Init => RInv
BY LInit, LogBufferAssumption DEF Init, RInv, Room, ReadType, Closed

\* emit: a record that is appended makes every older iterator unusable.
LEMMA REmit ==
    ASSUME RInv, NEW t \in Thread, Number(t) \/ Emit(t)
    PROVE  Room' /\ ReadType'
<1> USE LogBufferAssumption
<1>1. /\ counter \in Nat /\ Len(logged) \in Nat
      /\ logged \in Seq(Entry) /\ entry \in [Thread -> Entry \cup {NoEntry}]
  BY DEF RInv, LInv, LogType
<1>2. CASE Number(t)
  <2>1. counter' = counter + 1 /\ UNCHANGED <<buf, logged, readVars>>
    BY <1>2 DEF Number
  <2> QED
    BY <1>1, <2>1 DEF RInv, Room, ReadType, readVars
<1>3. CASE Drop(t)
  <2>1. /\ UNCHANGED <<counter, buf, logged, readVars>>
        /\ \A u \in Thread : entry'[u] # NoEntry => entry[u] # NoEntry
    BY <1>1, <1>3 DEF Drop
  <2> QED
    BY <2>1 DEF RInv, Room, ReadType, readVars
<1>4. CASE AppendEntry(t)
  <2>1. /\ Len(logged') = Len(logged) + 1
        /\ Len(logged) < counter
        /\ UNCHANGED <<counter, readVars>>
    BY <1>1, <1>4 DEF AppendEntry, RInv, Room
  <2>2. \A u \in Thread : entry'[u] = NoEntry
    BY <1>1, <1>4 DEF AppendEntry, RInv, LInv, Serial
  <2>3. Room'
    BY <1>1, <2>1, <2>2 DEF Room
  <2>4. iter.state \in Nat /\ iter.state <= Len(logged)
    BY DEF RInv, ReadType
  <2> QED
    BY <1>1, <2>1, <2>3, <2>4 DEF RInv, ReadType, readVars
<1> QED
  BY <1>2, <1>3, <1>4 DEF Emit

LEMMA ROpen ==
    ASSUME RInv, Open
    PROVE  ReadType'
<1> USE LogBufferAssumption
<1>1. PICK min \in Level, limit \in Limits :
          iter' = [at        |-> "open",
                   threshold |-> IF Rank(min) = 0 THEN Rank("INFO") ELSE Rank(min),
                   limit     |-> limit,
                   state     |-> Len(logged),
                   left      |-> Len(buf)]
  BY DEF Open
<1>2. Rank(min) \in {0, 20, 40} /\ Rank("INFO") = 20
  BY DEF Rank
<1>3. /\ Len(logged) \in 0..MaxLogged /\ Len(buf) \in 0..Capacity
      /\ buf \in Seq(Entry)
  BY DEF RInv, LInv, LogType, Room
<1>4. opened' = buf /\ out' = <<>> /\ UNCHANGED logVars
  BY DEF Open
<1> QED
  BY <1>1, <1>2, <1>3, <1>4 DEF ReadType, logVars

\* The loop of snapshot: what it reads is an entry.
LEMMA RRead ==
    ASSUME RInv, Read
    PROVE  ReadType'
<1> USE LogBufferAssumption
<1>1. /\ iter \in [at : {"closed", "open", "done", "raised"}, threshold : {0, 20, 40},
                   limit : Limits \cup {0}, state : 0..MaxLogged, left : 0..Capacity]
      /\ opened \in Seq(Entry) /\ out \in Seq(Entry) /\ buf \in Seq(Entry)
      /\ Len(buf) \in Nat /\ iter.state <= Len(logged)
  BY DEF RInv, ReadType, LInv, LogType
<1>2. UNCHANGED <<logVars, opened>>
  BY DEF Read, Step, Exhaust, Mutated
<1>3. CASE Step
  <2>1. iter.left \in 1..Len(buf)
    BY <1>1, <1>3 DEF Step, RInv, ReadType
  <2>2. buf[iter.left] \in Entry
    BY <1>1, <2>1
  <2>3. out' \in Seq(Entry)
    <3>1. out' = out \/ out' = Append(out, buf[iter.left])
      BY <1>3, Zenon DEF Step
    <3>2. Append(out, buf[iter.left]) \in Seq(Entry)
      BY <1>1, <2>2
    <3> QED
      BY <1>1, <3>1, <3>2
  <2>4. \E at \in {"open", "done"} : iter' = [iter EXCEPT !.left = @ - 1, !.at = at]
    <3>1. CASE Rank(buf[iter.left].level) < iter.threshold
      <4>1. iter' = [iter EXCEPT !.left = @ - 1] /\ iter.at = "open"
        BY <1>3, <3>1 DEF Step
      <4>2. iter' = [iter EXCEPT !.left = @ - 1, !.at = "open"]
        BY <1>1, <4>1
      <4> QED
        BY <4>2
    <3>2. CASE ~(Rank(buf[iter.left].level) < iter.threshold)
      BY <1>3, <3>2 DEF Step
    <3> QED
      BY <3>1, <3>2
  <2>5. /\ iter'.left = iter.left - 1 /\ iter'.state = iter.state
        /\ iter' \in [at : {"closed", "open", "done", "raised"}, threshold : {0, 20, 40},
                      limit : Limits \cup {0}, state : 0..MaxLogged, left : 0..Capacity]
    <3>1. PICK at \in {"open", "done"} : iter' = [iter EXCEPT !.left = @ - 1, !.at = at]
      BY <2>4
    <3>2. iter' = [at |-> at, threshold |-> iter.threshold, limit |-> iter.limit,
                   state |-> iter.state, left |-> iter.left - 1]
      BY <1>1, <3>1
    <3>3. /\ iter.threshold \in {0, 20, 40} /\ iter.limit \in Limits \cup {0}
          /\ iter.state \in 0..MaxLogged /\ iter.left - 1 \in 0..Capacity
      BY <1>1, <2>1
    <3> QED
      BY <3>2, <3>3
  <2> QED
    BY <1>1, <1>2, <2>1, <2>3, <2>5 DEF ReadType, logVars
<1>4. CASE Exhaust \/ Mutated
  <2>1. out' = out
    BY <1>4 DEF Exhaust, Mutated
  <2>2. PICK at \in {"done", "raised"} : iter' = [iter EXCEPT !.at = at]
    BY <1>4 DEF Exhaust, Mutated
  <2>3. iter' = [at |-> at, threshold |-> iter.threshold, limit |-> iter.limit,
                 state |-> iter.state, left |-> iter.left]
    BY <1>1, <2>2
  <2>4. /\ iter'.left = iter.left /\ iter'.state = iter.state
        /\ iter' \in [at : {"closed", "open", "done", "raised"}, threshold : {0, 20, 40},
                      limit : Limits \cup {0}, state : 0..MaxLogged, left : 0..Capacity]
    BY <1>1, <2>3
  <2>5. iter'.at # "open"
    BY <2>3
  <2> QED
    BY <1>1, <1>2, <2>1, <2>4, <2>5 DEF ReadType, logVars
<1> QED
  BY <1>3, <1>4 DEF Read

LEMMA RStep == RInv /\ [Next]_vars => RInv'
<1> SUFFICES ASSUME RInv, [Next]_vars PROVE RInv'
  OBVIOUS
<1>1. LInv'
  BY LStep DEF RInv
<1>2. CASE Open \/ Read
  <2>1. UNCHANGED logVars
    BY <1>2 DEF Open, Read, Step, Exhaust, Mutated
  <2>2. Room'
    BY <2>1 DEF RInv, Room, logVars
  <2> QED
    BY <1>1, <1>2, <2>2, ROpen, RRead DEF RInv
<1>3. CASE UNCHANGED vars
  BY <1>1, <1>3 DEF RInv, Room, ReadType, vars, logVars, readVars
<1>4. ASSUME NEW t \in Thread, Number(t) \/ Emit(t)
      PROVE  RInv'
  BY <1>1, <1>4, REmit DEF RInv
<1> QED
  BY <1>2, <1>3, <1>4 DEF Next

\* The type invariant of an emit and of a snapshot at any point: in particular
\* the loop of snapshot never reads beyond the buffer.
THEOREM TypesCorrect == Spec => []TypeOK
<1>1. RInv => TypeOK
  BY DEF RInv, LInv, LogType, ReadType, TypeOK
<1>2. Spec => []RInv
  BY RInit, RStep, PTL DEF Spec
<1> QED
  BY <1>1, <1>2, PTL

-----------------------------------------------------------------------------
(* What the snapshot lists. *)

Limit == Max({1, iter.limit})

LEMMA LimitIs ==
    ASSUME NEW l \in Int
    PROVE  /\ Max({1, l}) \in Nat \ {0} /\ l <= Max({1, l})
           /\ Max({1, l}) = 1 \/ Max({1, l}) = l
<1> DEFINE S == {1, l}
<1>1. \E x \in S : \A y \in S : x >= y
  <2>1. CASE l <= 1
    BY <2>1
  <2>2. CASE 1 < l
    BY <2>2
  <2> QED
    BY <2>1, <2>2
<1>2. Max(S) \in S /\ \A y \in S : Max(S) >= y
  <2> HIDE DEF S
  <2> QED
    BY <1>1 DEF Max
<1> QED
  BY <1>2

LEMMA RankIs ==
    ASSUME NEW l
    PROVE  Rank(l) \in Nat
BY DEF Rank

Wanted(e) == Rank(e.level) >= iter.threshold

Descending(s) == \A i, j \in 1..Len(s) : i < j => s[j].id < s[i].id

\* u lists what is wanted of the newest entries of o, those after place n.
Lists(o, u, n, threshold) ==
    /\ Descending(u)
    /\ \A k \in 1..Len(u) : \E i \in (n + 1)..Len(o) :
          u[k] = o[i] /\ Rank(o[i].level) >= threshold
    /\ \A i \in (n + 1)..Len(o) :
          Rank(o[i].level) >= threshold => \E k \in 1..Len(u) : u[k] = o[i]

Listing(n) == Lists(opened, out, n, iter.threshold)

\* u is what SnapshotIsAnInstant asks for.
Asked(o, u, room, threshold) ==
    LET wanted == {e \in Range(o) : Rank(e.level) >= threshold}
    IN  /\ Ascending(Reverse(u))
        /\ Range(u) \subseteq wanted
        /\ Len(u) <= room
        /\ \A e \in wanted \ Range(u) :
              Len(u) = room /\ \A k \in 1..Len(u) : e.id < u[k].id

\* An iterator that may be used is at its place in the buffer that it was
\* created for, and the list has room.
Snapshot ==
    /\ Ascending(opened)
    /\ iter.at = "open" =>
          /\ iter.left <= Len(opened)
          /\ iter.state = Len(logged) => buf = opened
          /\ Listing(iter.left)
          /\ Len(out) < Limit
    /\ SnapshotIsAnInstant

LEMMA SInit == Init => Snapshot
BY DEF Init, Snapshot, Closed, Ascending, SnapshotIsAnInstant

\* A record that is appended is no matter to an iterator that it makes unusable.
LEMMA SEmit ==
    ASSUME RInv, Snapshot, UNCHANGED readVars,
           \/ UNCHANGED <<buf, logged>>
           \/ Len(logged') = Len(logged) + 1
    PROVE  Snapshot'
<1>1. UNCHANGED <<iter, out, opened>>
  BY DEF readVars
<1>2. SnapshotIsAnInstant' /\ Ascending(opened)' /\ Limit' = Limit
  BY <1>1 DEF Snapshot, SnapshotIsAnInstant, Ascending, Limit
<1>3. \A n : Listing(n)' = Listing(n)
  BY <1>1 DEF Listing, Lists, Descending
<1>4. iter.state <= Len(logged) /\ iter.state \in Nat /\ Len(logged) \in Nat
  BY LogBufferAssumption DEF RInv, ReadType, LInv, LogType
<1>5. ASSUME iter'.at = "open"
      PROVE  /\ iter'.left <= Len(opened')
             /\ iter'.state = Len(logged') => buf' = opened'
             /\ Listing(iter.left)'
             /\ Len(out') < Limit'
  <2>1. iter.at = "open"
    BY <1>1, <1>5
  <2>2. Listing(iter.left)'
    BY <1>1, <1>3, <2>1 DEF Snapshot, Listing, Lists, Descending
  <2> QED
    BY <1>1, <1>2, <1>4, <2>1, <2>2 DEF Snapshot
<1> QED
  BY <1>2, <1>5 DEF Snapshot

LEMMA SOpen ==
    ASSUME RInv, Open
    PROVE  Snapshot'
<1>1. PICK min \in Level, limit \in Limits :
          iter' = [at        |-> "open",
                   threshold |-> IF Rank(min) = 0 THEN Rank("INFO") ELSE Rank(min),
                   limit     |-> limit,
                   state     |-> Len(logged),
                   left      |-> Len(buf)]
  BY DEF Open
<1>2. opened' = buf /\ out' = <<>> /\ UNCHANGED <<buf, logged>>
  BY DEF Open, logVars
<1>3. iter'.at = "open" /\ iter'.left = Len(buf) /\ iter'.limit = limit
  BY <1>1
<1>4. Ascending(opened)'
  BY <1>2, BufferAscends DEF RInv, Ascending
<1>5. Len(buf) \in Nat /\ Len(<<>>) = 0
  BY DEF RInv, LInv, LogType
<1>6. Len(out') < Limit'
  BY <1>2, <1>3, <1>5, LimitIs, LogBufferAssumption DEF Limit
<1>7. Listing(iter.left)'
  BY <1>2, <1>3, <1>5 DEF Listing, Lists, Descending
<1>8. SnapshotIsAnInstant'
  BY <1>3 DEF SnapshotIsAnInstant
<1> QED
  BY <1>2, <1>3, <1>4, <1>5, <1>6, <1>7, <1>8 DEF Snapshot

LEMMA InRange ==
    ASSUME NEW S, NEW s \in Seq(S)
    PROVE  Range(s) = {s[i] : i \in 1..Len(s)}
BY DEF Range

\* A list that descends, reversed, ascends.
LEMMA Reversed ==
    ASSUME NEW s \in Seq(Entry), Descending(s)
    PROVE  Ascending(Reverse(s))
<1> DEFINE r == Reverse(s)
<1>1. Len(s) \in Nat /\ r = [i \in 1..Len(s) |-> s[(Len(s) - i) + 1]]
  BY DEF Reverse
<1>2. Len(r) = Len(s) /\ \A i \in 1..Len(s) : r[i] = s[(Len(s) - i) + 1]
  BY <1>1
<1> HIDE DEF r
<1>3. ASSUME NEW i \in 1..Len(r), NEW j \in 1..Len(r), i < j
      PROVE  r[i].id < r[j].id
  <2>1. /\ (Len(s) - i) + 1 \in 1..Len(s) /\ (Len(s) - j) + 1 \in 1..Len(s)
        /\ (Len(s) - j) + 1 < (Len(s) - i) + 1
    BY <1>1, <1>2, <1>3
  <2> QED
    BY <1>2, <2>1 DEF Descending
<1> QED
  BY <1>3 DEF Ascending, r

\* A list of the newest entries wanted is what was asked for when it is full
\* or no entry is left.
LEMMA Complete ==
    ASSUME NEW o \in Seq(Entry), NEW u \in Seq(Entry), NEW n \in 0..Len(o),
           NEW room \in Nat, NEW threshold,
           Ascending(o), Len(u) <= room, n = 0 \/ Len(u) = room,
           Lists(o, u, n, threshold)
    PROVE  Asked(o, u, room, threshold)
<1>1. /\ Range(o) = {o[i] : i \in 1..Len(o)} /\ Range(u) = {u[k] : k \in 1..Len(u)}
      /\ Len(o) \in Nat /\ Len(u) \in Nat
  BY InRange
<1>2. Ascending(Reverse(u))
  BY Reversed DEF Lists
<1>3. \A k \in 1..Len(u) : \E i \in 1..Len(o) : u[k] = o[i] /\ Rank(o[i].level) >= threshold
  <2>1. \A i \in (n + 1)..Len(o) : i \in 1..Len(o)
    BY <1>1
  <2> QED
    BY <2>1 DEF Lists
<1>4. ASSUME NEW i \in 1..Len(o), Rank(o[i].level) >= threshold, o[i] \notin Range(u)
      PROVE  Len(u) = room /\ \A k \in 1..Len(u) : o[i].id < u[k].id
  <2>1. i \notin (n + 1)..Len(o)
    BY <1>1, <1>4 DEF Lists
  <2>2. i <= n /\ n # 0
    BY <2>1
  <2>3. ASSUME NEW k \in 1..Len(u)
        PROVE  o[i].id < u[k].id
    <3>1. PICK m \in (n + 1)..Len(o) : u[k] = o[m]
      BY DEF Lists
    <3>2. i < m /\ m \in 1..Len(o)
      BY <2>2
    <3> QED
      BY <3>1, <3>2 DEF Ascending
  <2> QED
    BY <2>2, <2>3
<1>5. Range(u) \subseteq {e \in Range(o) : Rank(e.level) >= threshold}
  BY <1>1, <1>3
<1>6. ASSUME NEW e \in Range(o), Rank(e.level) >= threshold, e \notin Range(u)
      PROVE  Len(u) = room /\ \A k \in 1..Len(u) : e.id < u[k].id
  <2>1. PICK i \in 1..Len(o) : e = o[i]
    BY <1>1
  <2> QED
    BY <1>4, <1>6, <2>1
<1> QED
  BY <1>2, <1>5, <1>6 DEF Asked

\* The facts that the loop of snapshot works with.
LEMMA Reading ==
    ASSUME RInv, Snapshot, iter.at = "open"
    PROVE  /\ opened \in Seq(Entry) /\ out \in Seq(Entry)
           /\ Len(opened) \in Nat /\ Len(out) \in Nat
           /\ iter.left \in 0..Len(opened)
           /\ iter.limit \in Int
           /\ Limit \in Nat \ {0} /\ iter.limit <= Limit
           /\ Limit = 1 \/ Limit = iter.limit
           /\ iter.threshold \in Int
           /\ iter \in [at : {"closed", "open", "done", "raised"}, threshold : {0, 20, 40},
                        limit : Limits \cup {0}, state : 0..MaxLogged, left : 0..Capacity]
<1>1. /\ iter \in [at : {"closed", "open", "done", "raised"}, threshold : {0, 20, 40},
                   limit : Limits \cup {0}, state : 0..MaxLogged, left : 0..Capacity]
      /\ opened \in Seq(Entry) /\ out \in Seq(Entry)
  BY DEF RInv, ReadType
<1>2. /\ iter.limit \in Limits \cup {0} /\ iter.left \in 0..Capacity
      /\ iter.threshold \in {0, 20, 40}
  BY <1>1
<1>3. iter.limit \in Int /\ iter.left \in Nat /\ iter.threshold \in Int
  <2>1. iter.limit \in Int
    <3>1. \A l \in Limits \cup {0} : l \in Int
      BY LogBufferAssumption
    <3> QED
      BY <1>2, <3>1
  <2>2. iter.left \in Nat
    BY <1>2, LogBufferAssumption
  <2>3. iter.threshold \in Int
    BY <1>2
  <2> QED
    BY <2>1, <2>2, <2>3
<1> QED
  BY <1>1, <1>3, LimitIs DEF Snapshot, Limit

\* The iterator is exhausted, whether or not the buffer has changed.
LEMMA SExhaust ==
    ASSUME RInv, Snapshot, Exhaust
    PROVE  Snapshot'
<1>1. /\ iter.at = "open" /\ iter.left = 0
      /\ iter' = [iter EXCEPT !.at = "done"]
      /\ UNCHANGED <<out, opened>>
  BY DEF Exhaust
<1>2. iter'.at = "done" /\ iter'.limit = iter.limit /\ iter'.threshold = iter.threshold
  BY <1>1, Reading
<1>3. SnapshotIsAnInstant'
  <2>1. PICK o, u, room, threshold :
            o = opened /\ u = out /\ room = Limit /\ threshold = iter.threshold
    OBVIOUS
  <2>2. /\ o \in Seq(Entry) /\ u \in Seq(Entry) /\ 0 \in 0..Len(o)
        /\ room \in Nat /\ Ascending(o) /\ Len(u) <= room
        /\ Lists(o, u, 0, threshold)
    BY <1>1, <2>1, Reading DEF Snapshot, Listing
  <2>3. Asked(o, u, room, threshold)
    BY <2>2, Complete
  <2> QED
    BY <1>1, <1>2, <2>1, <2>3 DEF SnapshotIsAnInstant, Limit, Asked
<1>4. Ascending(opened)'
  BY <1>1 DEF Snapshot, Ascending
<1> QED
  BY <1>2, <1>3, <1>4 DEF Snapshot

\* An entry below the level is passed over.
LEMMA SSkip ==
    ASSUME RInv, Snapshot, Step, ~Wanted(buf[iter.left])
    PROVE  Snapshot'
<1>0. iter.at = "open" /\ iter.left > 0 /\ iter.state = Len(logged)
  BY DEF Step
<1>1. buf = opened
  BY <1>0 DEF Snapshot
<1>2. Rank(buf[iter.left].level) < iter.threshold
  BY <1>0, Reading, RankIs DEF Wanted
<1>3. /\ iter' = [iter EXCEPT !.left = @ - 1] /\ out' = out
      /\ UNCHANGED <<opened, buf, logged>>
  BY <1>2 DEF Step, logVars
<1>4. /\ iter'.at = "open" /\ iter'.left = iter.left - 1
      /\ iter'.limit = iter.limit /\ iter'.threshold = iter.threshold
  BY <1>0, <1>3, Reading
<1>5. PICK n \in Nat : n = iter.left - 1 /\ n + 1 = iter.left /\ n <= Len(opened)
  BY <1>0, Reading
<1>6. Listing(n)
  <2>1. Listing(n + 1)
    BY <1>0, <1>5 DEF Snapshot
  <2>2. \A i \in (n + 1)..Len(opened) : i = n + 1 \/ i \in ((n + 1) + 1)..Len(opened)
    BY <1>0, Reading
  <2>3. \A i \in ((n + 1) + 1)..Len(opened) : i \in (n + 1)..Len(opened)
    BY <1>0, Reading
  <2>4. ~Wanted(opened[n + 1])
    BY <1>1, <1>5
  <2> QED
    BY <2>1, <2>2, <2>3, <2>4 DEF Listing, Lists, Wanted
<1>7. Listing(iter.left)'
  BY <1>3, <1>4, <1>5, <1>6 DEF Listing, Lists, Descending
<1>8. Ascending(opened)' /\ Limit' = Limit /\ Len(out') < Limit'
  BY <1>0, <1>3, <1>4 DEF Snapshot, Ascending, Limit
<1>9. SnapshotIsAnInstant'
  BY <1>4 DEF SnapshotIsAnInstant
<1> QED
  BY <1>0, <1>1, <1>3, <1>4, <1>5, <1>7, <1>8, <1>9 DEF Snapshot

\* An entry at or above the level is listed, and may be the last.
LEMMA SKeep ==
    ASSUME RInv, Snapshot, Step, Wanted(buf[iter.left])
    PROVE  Snapshot'
<1>0. iter.at = "open" /\ iter.left > 0 /\ iter.state = Len(logged)
  BY DEF Step
<1>1. buf = opened
  BY <1>0 DEF Snapshot
<1>2. ~(Rank(buf[iter.left].level) < iter.threshold)
  BY <1>0, Reading, RankIs DEF Wanted
<1>3. /\ iter' = [iter EXCEPT
            !.left = @ - 1,
            !.at = IF Len(out) + 1 >= iter.limit THEN "done" ELSE @]
      /\ out' = Append(out, buf[iter.left])
      /\ UNCHANGED <<opened, buf, logged>>
  BY <1>2 DEF Step, logVars
<1>4. /\ iter'.at = IF Len(out) + 1 >= iter.limit THEN "done" ELSE "open"
      /\ iter'.left = iter.left - 1
      /\ iter'.limit = iter.limit /\ iter'.threshold = iter.threshold
      /\ Limit' = Limit
  BY <1>0, <1>3, Reading DEF Limit
<1>5. PICK n \in Nat : n = iter.left - 1 /\ n + 1 = iter.left /\ n + 1 <= Len(opened)
  BY <1>0, Reading
<1>6. PICK o, u, w, room, threshold, e :
          /\ o = opened /\ u = out /\ w = out' /\ room = Limit
          /\ threshold = iter.threshold /\ e = o[n + 1]
  OBVIOUS
<1>7. /\ o \in Seq(Entry) /\ u \in Seq(Entry) /\ Len(o) \in Nat /\ Len(u) \in Nat
      /\ n + 1 \in 1..Len(o) /\ e \in Entry
      /\ w = Append(u, e) /\ Ascending(o) /\ Len(u) < room
  <2>1. o \in Seq(Entry) /\ u \in Seq(Entry) /\ Len(o) \in Nat /\ Len(u) \in Nat
    BY <1>0, <1>6, Reading
  <2>2. n + 1 \in 1..Len(o)
    BY <1>5, <1>6, <2>1
  <2>3. e \in Entry
    BY <1>6, <2>1, <2>2
  <2>4. w = Append(u, e)
    BY <1>1, <1>3, <1>5, <1>6
  <2>5. Ascending(o) /\ Len(u) < room
    BY <1>0, <1>6 DEF Snapshot
  <2> QED
    BY <2>1, <2>2, <2>3, <2>4, <2>5
<1>8. /\ w \in Seq(Entry) /\ Len(w) = Len(u) + 1 /\ w[Len(u) + 1] = e
      /\ \A k \in 1..Len(u) : w[k] = u[k]
      /\ \A k \in 1..Len(w) : k = Len(u) + 1 \/ k \in 1..Len(u)
  BY <1>7
<1>9. /\ Rank(e.level) >= threshold
      /\ Descending(u)
      /\ \A k \in 1..Len(u) : \E i \in ((n + 1) + 1)..Len(o) :
            u[k] = o[i] /\ Rank(o[i].level) >= threshold
      /\ \A i \in ((n + 1) + 1)..Len(o) :
            Rank(o[i].level) >= threshold => \E k \in 1..Len(u) : u[k] = o[i]
  BY <1>0, <1>1, <1>5, <1>6 DEF Snapshot, Listing, Lists, Wanted
<1>10. Descending(w)
  <2>1. \A k \in 1..Len(u) : e.id < u[k].id
    <3> SUFFICES ASSUME NEW k \in 1..Len(u) PROVE e.id < u[k].id
      OBVIOUS
    <3>1. PICK i \in ((n + 1) + 1)..Len(o) : u[k] = o[i]
      BY <1>9
    <3>2. n + 1 < i /\ i \in 1..Len(o)
      BY <1>7
    <3> QED
      BY <1>6, <1>7, <3>1, <3>2 DEF Ascending
  <2>2. ASSUME NEW i \in 1..Len(w), NEW j \in 1..Len(w), i < j
        PROVE  w[j].id < w[i].id
    <3>1. i \in 1..Len(u)
      BY <1>7, <1>8, <2>2
    <3>2. CASE j = Len(u) + 1
      BY <1>8, <2>1, <3>1, <3>2
    <3>3. CASE j \in 1..Len(u)
      BY <1>8, <1>9, <2>2, <3>1, <3>3 DEF Descending
    <3> QED
      BY <1>8, <3>2, <3>3
  <2> QED
    BY <2>2 DEF Descending
<1>11. \A k \in 1..Len(w) : \E i \in (n + 1)..Len(o) :
          w[k] = o[i] /\ Rank(o[i].level) >= threshold
  <2> SUFFICES ASSUME NEW k \in 1..Len(w)
               PROVE  \E i \in (n + 1)..Len(o) :
                         w[k] = o[i] /\ Rank(o[i].level) >= threshold
    OBVIOUS
  <2>1. CASE k = Len(u) + 1
    <3>1. n + 1 \in (n + 1)..Len(o)
      BY <1>7
    <3> QED
      BY <1>6, <1>8, <1>9, <2>1, <3>1
  <2>2. CASE k \in 1..Len(u)
    <3>1. \A i \in ((n + 1) + 1)..Len(o) : i \in (n + 1)..Len(o)
      BY <1>7
    <3>2. PICK i \in ((n + 1) + 1)..Len(o) : u[k] = o[i] /\ Rank(o[i].level) >= threshold
      BY <1>9, <2>2
    <3>3. w[k] = u[k]
      BY <1>8, <2>2
    <3> QED
      BY <3>1, <3>2, <3>3
  <2> QED
    BY <1>8, <2>1, <2>2
<1>12. \A i \in (n + 1)..Len(o) :
          Rank(o[i].level) >= threshold => \E k \in 1..Len(w) : w[k] = o[i]
  <2>1. \A i \in (n + 1)..Len(o) : i = n + 1 \/ i \in ((n + 1) + 1)..Len(o)
    BY <1>7
  <2>2. Len(u) + 1 \in 1..Len(w) /\ \A k \in 1..Len(u) : k \in 1..Len(w)
    BY <1>7, <1>8
  <2> QED
    BY <1>6, <1>8, <1>9, <2>1, <2>2
<1>w. Lists(o, w, n, threshold)
  BY <1>10, <1>11, <1>12 DEF Lists
<1>13. CASE Len(out) + 1 >= iter.limit
  <2>1. iter'.at = "done"
    BY <1>4, <1>13
  <2>2. Len(w) = room /\ room \in Nat /\ n \in 0..Len(o)
    BY <1>0, <1>6, <1>7, <1>8, <1>13, Reading
  <2>3. Asked(o, w, room, threshold)
    <3>1. Len(w) <= room
      BY <2>2
    <3> QED
      BY <1>7, <1>8, <1>w, <2>2, <3>1, Complete
  <2>4. SnapshotIsAnInstant'
    BY <1>3, <1>4, <1>6, <2>3 DEF SnapshotIsAnInstant, Limit, Asked
  <2> QED
    BY <1>3, <1>6, <1>7, <2>1, <2>4 DEF Snapshot, Ascending
<1>14. CASE ~(Len(out) + 1 >= iter.limit)
  <2>1. iter'.at = "open" /\ Len(out') < Limit'
    <3>1. iter.limit \in Int /\ Limit \in Nat /\ iter.limit <= Limit
      BY <1>0, Reading
    <3>2. Len(out') = Len(out) + 1 /\ Len(out) \in Nat
      BY <1>6, <1>7, <1>8
    <3>3. Len(out) + 1 < iter.limit
      BY <1>14, <3>1, <3>2
    <3>4. Len(out') < Limit
      BY <3>1, <3>2, <3>3
    <3> QED
      BY <1>4, <1>14, <3>4
  <2>2. Listing(iter.left)'
    BY <1>3, <1>4, <1>5, <1>6, <1>w DEF Listing
  <2>3. SnapshotIsAnInstant'
    BY <2>1 DEF SnapshotIsAnInstant
  <2> QED
    BY <1>0, <1>1, <1>3, <1>4, <1>5, <1>6, <1>7, <2>1, <2>2, <2>3
       DEF Snapshot, Ascending
<1> QED
  BY <1>13, <1>14

\* A listing that returns is that of one instant, however many threads log
\* while it is made, for every capacity and limit (snapshot, get_logs).
THEOREM SnapshotCorrect == Spec => []SnapshotIsAnInstant
<1>1. Init => RInv /\ Snapshot
  BY RInit, SInit
<1>2. RInv /\ Snapshot /\ [Next]_vars => (RInv /\ Snapshot)'
  <2> SUFFICES ASSUME RInv, Snapshot, [Next]_vars PROVE Snapshot'
    BY RStep
  <2>1. CASE Step
    BY <2>1, SSkip, SKeep
  <2>2. CASE Mutated
    <3>1. /\ iter' = [iter EXCEPT !.at = "raised"] /\ iter.at = "open"
          /\ UNCHANGED opened
      BY <2>2 DEF Mutated
    <3>2. iter'.at = "raised"
      BY <3>1, Reading
    <3> QED
      BY <3>1, <3>2 DEF Snapshot, Ascending, SnapshotIsAnInstant
  <2>3. CASE UNCHANGED vars
    BY <2>3, SEmit DEF vars, logVars
  <2>4. ASSUME NEW t \in Thread, Number(t) \/ Emit(t)
        PROVE  Snapshot'
    <3>1. UNCHANGED readVars
      BY <2>4 DEF Number, Emit, AppendEntry, Drop
    <3>2. UNCHANGED <<buf, logged>> \/ Len(logged') = Len(logged) + 1
      <4>1. logged \in Seq(Entry)
        BY DEF RInv, LInv, LogType
      <4> QED
        BY <2>4, <4>1 DEF Number, Emit, AppendEntry, Drop
    <3> QED
      BY <3>1, <3>2, SEmit
  <2> QED
    BY <2>1, <2>2, <2>3, <2>4, SOpen, SExhaust DEF Next, Read
<1>3. Snapshot => SnapshotIsAnInstant
  BY DEF Snapshot
<1> QED
  BY <1>1, <1>2, <1>3, PTL DEF Spec
=============================================================================
