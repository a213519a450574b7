------------------------------- MODULE LogBuffer -------------------------------
(***************************************************************************)
(* api/log_buffer.py and get_logs (api/resources.py): the ring buffer of   *)
(* the last log records that install attaches to the root logger.  Threads *)
(* log into it while the event loop takes a snapshot.                      *)
(*                                                                         *)
(* Two locks: logging calls emit under the handler's own lock, and _lock   *)
(* is around the append and around the creation of the iterator, each of   *)
(* them one action here.  The iterator is used after _lock is released; a  *)
(* deque raises when an iterator older than its last change is used again. *)
(***************************************************************************)
EXTENDS SequencesExt

CONSTANTS Thread,       \* the threads that log
          Capacity,     \* maxlen
          MaxLogged,    \* bound: the records logged
          Limits        \* bound: the values of limit asked for

ASSUME LogBufferAssumption ==
    /\ Capacity \in Nat \ {0}
    /\ MaxLogged \in Nat
    /\ Limits \subseteq Int

VARIABLES
    counter,    \* _counter: the last id given
    entry,      \* entry[t]: the entry that thread t is emitting, or NoEntry
    buf,        \* _buf
    logged,     \* every entry appended (history); its length is buf's state
    iter,       \* the snapshot: its arguments, iterator and place
    out,        \* the list built so far
    opened      \* buf when the iterator was created (history)

logVars  == <<counter, entry, buf, logged>>
readVars == <<iter, out, opened>>
vars     == <<logVars, readVars>>

\* A level of the table at or above INFO, and one that is not in it.
Level   == {"INFO", "ERROR", "NOTICE"}
Rank(l) == CASE l = "INFO" -> 20 [] l = "ERROR" -> 40 [] OTHER -> 0
Entry   == [id : 1..MaxLogged, level : Level]
NoEntry == [id |-> 0, level |-> "INFO"]
Closed  == [at |-> "closed", threshold |-> 0, limit |-> 0, state |-> 0, left |-> 0]

Init ==
    /\ counter = 0
    /\ entry = [t \in Thread |-> NoEntry]
    /\ buf = <<>>
    /\ logged = <<>>
    /\ iter = Closed
    /\ out = <<>>
    /\ opened = <<>>

\* Seeded bug: emit without the handler's lock.
NumberBug(t) ==
    /\ counter < MaxLogged
    /\ entry[t] = NoEntry
    /\ counter' = counter + 1
    /\ \E l \in Level : entry' = [entry EXCEPT ![t] = [id |-> counter + 1, level |-> l]]
    /\ UNCHANGED <<buf, logged, readVars>>

\* Thread t has the handler's lock: emit numbers the record.
Number(t) ==
    /\ counter < MaxLogged
    /\ \A u \in Thread : entry[u] = NoEntry
    /\ counter' = counter + 1
    /\ \E l \in Level : entry' = [entry EXCEPT ![t] = [id |-> counter + 1, level |-> l]]
    /\ UNCHANGED <<buf, logged, readVars>>

\* Formatting raised: the record is lost, and its number with it.
Drop(t) ==
    /\ entry[t] # NoEntry
    /\ entry' = [entry EXCEPT ![t] = NoEntry]
    /\ UNCHANGED <<counter, buf, logged, readVars>>

\* The entry is appended; the deque drops its oldest one when it is full.
AppendEntry(t) ==
    /\ entry[t] # NoEntry
    /\ LET full == Append(buf, entry[t])
       IN  buf' = IF Len(full) > Capacity THEN Tail(full) ELSE full
    /\ logged' = Append(logged, entry[t])
    /\ entry' = [entry EXCEPT ![t] = NoEntry]
    /\ UNCHANGED <<counter, readVars>>

\* GET /admin/logs: an unknown min_level stands for INFO.
Open ==
    /\ iter.at # "open"
    /\ \E min \in Level, limit \in Limits :
          iter' = [at        |-> "open",
                   threshold |-> IF Rank(min) = 0 THEN Rank("INFO") ELSE Rank(min),
                   limit     |-> limit,
                   state     |-> Len(logged),
                   left      |-> Len(buf)]
    /\ out' = <<>>
    /\ opened' = buf
    /\ UNCHANGED logVars

\* Seeded bug: the entries below the threshold count towards the limit.
StepBug ==
    /\ iter.at = "open"
    /\ iter.left > 0
    /\ iter.state = Len(logged)
    /\ LET e == buf[iter.left]
       IN  /\ out' = IF Rank(e.level) < iter.threshold THEN out ELSE Append(out, e)
           /\ iter' = [iter EXCEPT
                 !.left = @ - 1,
                 !.at = IF Len(buf) - iter.left + 1 >= iter.limit THEN "done" ELSE @]
    /\ UNCHANGED <<logVars, opened>>

\* The next entry, from the right: skipped, or kept and perhaps the last.
Step ==
    /\ iter.at = "open"
    /\ iter.left > 0
    /\ iter.state = Len(logged)
    /\ LET e == buf[iter.left]
       IN  IF Rank(e.level) < iter.threshold
           THEN iter' = [iter EXCEPT !.left = @ - 1] /\ UNCHANGED out
           ELSE /\ out' = Append(out, e)
                /\ iter' = [iter EXCEPT
                      !.left = @ - 1,
                      !.at = IF Len(out) + 1 >= iter.limit THEN "done" ELSE @]
    /\ UNCHANGED <<logVars, opened>>

\* The iterator is exhausted.
Exhaust ==
    /\ iter.at = "open"
    /\ iter.left = 0
    /\ iter' = [iter EXCEPT !.at = "done"]
    /\ UNCHANGED <<logVars, out, opened>>

\* RuntimeError: deque mutated during iteration.
Mutated ==
    /\ iter.at = "open"
    /\ iter.left > 0
    /\ iter.state # Len(logged)
    /\ iter' = [iter EXCEPT !.at = "raised"]
    /\ UNCHANGED <<logVars, out, opened>>

Emit(t) == AppendEntry(t) \/ Drop(t)
Read    == Step \/ Exhaust \/ Mutated

Next == (\E t \in Thread : Number(t) \/ Emit(t)) \/ Open \/ Read

Spec == Init /\ [][Next]_vars

-----------------------------------------------------------------------------
(* Properties. *)

\* Types: an emit, and a snapshot, at any point.
TypeOK ==
    /\ counter \in 0..MaxLogged
    /\ entry \in [Thread -> Entry \cup {NoEntry}]
    /\ buf \in Seq(Entry) /\ Len(buf) <= Capacity
    /\ logged \in Seq(Entry) /\ opened \in Seq(Entry) /\ out \in Seq(Entry)
    /\ iter \in [at : {"closed", "open", "done", "raised"}, threshold : {0, 20, 40},
                 limit : Limits \cup {0}, state : 0..MaxLogged, left : 0..Capacity]

Ascending(s) == \A i, j \in 1..Len(s) : i < j => s[i].id < s[j].id

\* "Stores the most recent N log records" (log_buffer.py:38), in the order of
\* their numbers, however the threads overlap.
KeepsNewest ==
    /\ Ascending(buf)
    /\ Len(buf) <= Capacity
    /\ Len(buf) < Capacity => Len(buf) = Len(logged)
    /\ \A i \in 1..Len(buf) : buf[i] = logged[Len(logged) - Len(buf) + i]

\* A snapshot that returns lists entries at or above the level asked for, as
\* one instant had them, newest first and no more than the limit; one that it
\* leaves out is older than all of these, and there was no room for it.  (It
\* lists one entry for a limit of zero or less.)
SnapshotIsAnInstant ==
    iter.at = "done" =>
        LET wanted == {e \in Range(opened) : Rank(e.level) >= iter.threshold}
            room   == Max({1, iter.limit})
        IN  /\ Ascending(Reverse(out))
            /\ Range(out) \subseteq wanted
            /\ Len(out) <= room
            /\ \A e \in wanted \ Range(out) :
                  Len(out) = room /\ \A k \in 1..Len(out) : e.id < out[k].id

\* "Thread-safe": a thread that logs does not fail the snapshot
\* (log_buffer.py:39).
SnapshotNeverRaises == iter.at # "raised"
=============================================================================
