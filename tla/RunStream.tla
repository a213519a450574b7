------------------------------- MODULE RunStream -------------------------------
(***************************************************************************)
(* The life of one run behind the HTTP API (api/runs.py, api/state.py):    *)
(* the background task that runs the orchestrator and fills RunState, the  *)
(* SSE generators of GET /runs/{id}/stream that drain its queue, and the   *)
(* browsers that watch them through an EventSource (useRunStream.ts).      *)
(*                                                                         *)
(* An event is its number: 0 is run_started, then the LeafEvents of the    *)
(* leaf tasks, then the AggEvents of the topological walk, then            *)
(* run_finished.  All generators of a run take from the one queue: an      *)
(* event goes to the generator that takes it and to no other.              *)
(***************************************************************************)
EXTENDS Integers, Sequences

CONSTANTS
    Client,         \* browsers that watch the run
    LeafEvents,     \* check_started and check_finished events of the leaves
    AggEvents,      \* check_finished events of the aggregators
    MaxDrops        \* bound: connections that break during a behaviour

ASSUME StreamAssumption ==
    /\ LeafEvents \in Nat \ {0}
    /\ AggEvents \in Nat
    /\ MaxDrops \in Nat

VARIABLES
    task,       \* where runner() is
    emitted,    \* how many events on_event has put on the queue
    queue,      \* RunState.events
    completed,  \* RunState.completed
    result,     \* whether RunState.result is set
    pc,         \* pc[g]: where generator g is, "none" when there is no such
    held,       \* held[g]: the event g took and has not yet yielded
    client,     \* client[c]: what the EventSource of c is doing
    conn,       \* conn[c]: the slot of the generator c is connected to, or 0
    seen,       \* seen[c]: the events c has handled, in order
    lost,       \* events yielded to a connection that was gone
    drops       \* connections broken so far

runVars    == <<task, emitted, completed, result>>
streamVars == <<pc, held>>
clientVars == <<client, conn, seen, drops>>
vars == <<runVars, queue, streamVars, clientVars, lost>>

RunFinished == LeafEvents + AggEvents + 1   \* the number of that event
EventNo     == 0..RunFinished
NoEvent     == -1

\* A reconnecting client may find its previous generator still running.
Stream == Client \X {1, 2}
Connected(g) == conn[g[1]] = g[2]

Init ==
    /\ task = "created"
    /\ emitted = 0
    /\ queue = <<>>
    /\ completed = FALSE
    /\ result = FALSE
    /\ pc = [g \in Stream |-> "none"]
    /\ held = [g \in Stream |-> NoEvent]
    /\ client = [c \in Client |-> "watching"]
    /\ conn = [c \in Client |-> 0]
    /\ seen = [c \in Client |-> <<>>]
    /\ lost = {}
    /\ drops = 0

-----------------------------------------------------------------------------
(* The run task: runner() around Orchestrator.run. *)

\* Seeded bug: the counter is advanced before the event is built.
PutBug == /\ queue' = Append(queue, emitted + 1)
          /\ emitted' = emitted + 1

Put == /\ queue' = Append(queue, emitted)
       /\ emitted' = emitted + 1

\* run_started, a leaf's event or an aggregator's.
RunEmit ==
    /\ task \in {"created", "running"}
    /\ emitted < RunFinished
    /\ task' = "running"
    /\ Put
    /\ UNCHANGED <<completed, result, streamVars, clientVars, lost>>

\* Seeded bug: with a database run_finished is left to the persisting code,
\* which does not emit it.
RunFinishBug ==
    /\ task = "running"
    /\ emitted = RunFinished
    /\ result' = TRUE
    /\ \/ /\ Put
          /\ task' = "done"
          /\ completed' = TRUE
       \/ /\ task' = "persisting"
          /\ UNCHANGED <<queue, emitted, completed>>
    /\ UNCHANGED <<streamVars, clientVars, lost>>

\* run_finished: the queue is unbounded, so nothing awaits between the put and
\* the assignment of state.result.  Without a database the task ends here.
RunFinish ==
    /\ task = "running"
    /\ emitted = RunFinished
    /\ Put
    /\ result' = TRUE
    /\ \E db \in BOOLEAN :
          /\ task' = IF db THEN "persisting" ELSE "done"
          /\ completed' = ~db
    /\ UNCHANGED <<streamVars, clientVars, lost>>

\* persist_run committed or failed: either way the task returns the result.
RunPersist ==
    /\ task = "persisting"
    /\ task' = "done"
    /\ completed' = TRUE
    /\ UNCHANGED <<emitted, result, queue, streamVars, clientVars, lost>>

\* Seeded bug: completed is set on success only.
RunCrashBug ==
    /\ task = "running"
    /\ emitted \in 2..LeafEvents
    /\ task' = "crashed"
    /\ UNCHANGED <<emitted, completed, result, queue, streamVars, clientVars, lost>>

\* A leaf raised: Orchestrator.run raises while leaf tasks are still out, and
\* the finally of runner() sets completed.
RunCrash ==
    /\ task = "running"
    /\ emitted \in 2..LeafEvents
    /\ task' = "crashed"
    /\ completed' = TRUE
    /\ UNCHANGED <<emitted, result, queue, streamVars, clientVars, lost>>

\* The other leaf tasks of a crashed run still emit; the leaf that raised never
\* emits its check_finished.
OrphanEmit ==
    /\ task = "crashed"
    /\ emitted < LeafEvents
    /\ Put
    /\ UNCHANGED <<task, completed, result, streamVars, clientVars, lost>>

RunNext == RunEmit \/ RunFinish \/ RunPersist \/ RunCrash \/ OrphanEmit

-----------------------------------------------------------------------------
(* The generators: event_source() of stream_run. *)

\* The generator returns, and its client sees the response end.
Close(g) ==
    /\ pc' = [pc EXCEPT ![g] = "none"]
    /\ conn' = IF Connected(g) THEN [conn EXCEPT ![g[1]] = 0] ELSE conn

\* Seeded bug: the event is read but left on the queue for the others.
TakeHeadBug(g) ==
    /\ held' = [held EXCEPT ![g] = Head(queue)]
    /\ queue' = queue
    /\ pc' = [pc EXCEPT ![g] = "send"]

TakeHead(g) ==
    /\ held' = [held EXCEPT ![g] = Head(queue)]
    /\ queue' = Tail(queue)
    /\ pc' = [pc EXCEPT ![g] = "send"]

\* events.get(): the next event, if one is queued or put within the second.
Get(g) ==
    /\ pc[g] = "loop"
    /\ queue # <<>>
    /\ TakeHead(g)
    /\ UNCHANGED <<runVars, clientVars, lost>>

\* Seeded bug: the queue is not looked at before the generator returns.
TimeoutBug(g) ==
    /\ pc[g] = "loop"
    /\ completed
    /\ Close(g)
    /\ UNCHANGED <<runVars, queue, held, client, seen, drops, lost>>

\* wait_for gave up and the run is over and drained.  (Otherwise a heartbeat,
\* and the loop again: a put may race the timeout.)
Timeout(g) ==
    /\ pc[g] = "loop"
    /\ completed
    /\ queue = <<>>
    /\ Close(g)
    /\ UNCHANGED <<runVars, queue, held, client, seen, drops, lost>>

\* The frame is yielded: handled by the client that is still there, lost
\* otherwise.  After run_finished both sides close.
Send(g) ==
    /\ pc[g] = "send"
    /\ held' = [held EXCEPT ![g] = NoEvent]
    /\ IF Connected(g)
       THEN /\ seen' = [seen EXCEPT ![g[1]] = Append(@, held[g])]
            /\ client' = [client EXCEPT ![g[1]] =
                             IF held[g] = RunFinished THEN "closed" ELSE @]
            /\ lost' = lost
       ELSE /\ lost' = lost \cup {held[g]}
            /\ UNCHANGED <<seen, client>>
    /\ IF held[g] = RunFinished
       THEN Close(g)
       ELSE pc' = [pc EXCEPT ![g] = "loop"] /\ UNCHANGED conn
    /\ UNCHANGED <<runVars, queue, drops>>

\* Seeded bug: an event taken for a lost connection goes back on the queue.
NoticeBug(g) ==
    /\ pc[g] # "none"
    /\ ~Connected(g)
    /\ pc' = [pc EXCEPT ![g] = "none"]
    /\ held' = [held EXCEPT ![g] = NoEvent]
    /\ queue' = IF pc[g] = "send" THEN Append(queue, held[g]) ELSE queue
    /\ UNCHANGED <<runVars, clientVars, lost>>

\* The server notices that the connection is gone (is_disconnected, or the
\* response task being cancelled): an event the generator had taken is lost.
Notice(g) ==
    /\ pc[g] # "none"
    /\ ~Connected(g)
    /\ pc' = [pc EXCEPT ![g] = "none"]
    /\ held' = [held EXCEPT ![g] = NoEvent]
    /\ lost' = IF pc[g] = "send" THEN lost \cup {held[g]} ELSE lost
    /\ UNCHANGED <<runVars, queue, clientVars>>

StreamNext(g) == Get(g) \/ Timeout(g) \/ Send(g) \/ Notice(g)

-----------------------------------------------------------------------------
(* The browsers: the EventSource of useRunStream.ts. *)

\* The first connection, or an automatic reconnection after the response
\* ended or the connection broke.
Connect(c) ==
    /\ client[c] = "watching"
    /\ conn[c] = 0
    /\ \E s \in {1, 2} :
          /\ pc[<<c, s>>] = "none"
          /\ s = 2 => pc[<<c, 1>>] # "none"     \* the slots are alike
          /\ conn' = [conn EXCEPT ![c] = s]
          /\ pc' = [pc EXCEPT ![<<c, s>>] = "loop"]
    /\ UNCHANGED <<runVars, queue, held, client, seen, drops, lost>>

\* The connection breaks; the generator does not know yet.
Drop(c) ==
    /\ conn[c] # 0
    /\ drops < MaxDrops
    /\ conn' = [conn EXCEPT ![c] = 0]
    /\ drops' = drops + 1
    /\ UNCHANGED <<runVars, queue, streamVars, client, seen, lost>>

\* The effect's cleanup: another run is selected or the page is left.
Leave(c) ==
    /\ client[c] = "watching"
    /\ client' = [client EXCEPT ![c] = "gone"]
    /\ conn' = [conn EXCEPT ![c] = 0]
    /\ UNCHANGED <<runVars, queue, streamVars, seen, drops, lost>>

\* App: the Run button is disabled until the hook has handled run_finished.
Busy(c) == client[c] = "watching"

ClientNext(c) == Connect(c) \/ Drop(c) \/ Leave(c)

\* The run is over, every watcher has left and every generator has ended.
Quiescent ==
    /\ completed
    /\ task = "crashed" => emitted >= LeafEvents
    /\ \A c \in Client : client[c] # "watching"
    /\ \A g \in Stream : pc[g] = "none"
    /\ UNCHANGED vars

Next ==
    \/ RunNext
    \/ \E g \in Stream : StreamNext(g)
    \/ \E c \in Client : ClientNext(c)
    \/ Quiescent

Spec == Init /\ [][Next]_vars

\* The run makes progress (Orchestrator's RunSettles); a generator is not
\* starved by the event loop, its one-second timer fires and a lost connection
\* is noticed in the end; an EventSource retries until it is closed.  Nothing
\* forces a crash, a broken connection or a user to leave.
Fairness ==
    /\ WF_vars(RunEmit \/ RunFinish \/ RunPersist \/ OrphanEmit)
    /\ \A g \in Stream : /\ WF_vars(Get(g) \/ Timeout(g) \/ Send(g))
                         /\ WF_vars(Notice(g))
    /\ \A c \in Client : WF_vars(Connect(c))

FairSpec == Spec /\ Fairness

-----------------------------------------------------------------------------
(* Properties. *)

\* Types: RunState, the generators of stream_run and their EventSources.
TypeOK ==
    /\ task \in {"created", "running", "persisting", "done", "crashed"}
    /\ emitted \in 0..(RunFinished + 1)
    /\ queue \in Seq(EventNo)
    /\ completed \in BOOLEAN
    /\ result \in BOOLEAN
    /\ pc \in [Stream -> {"none", "loop", "send"}]
    /\ held \in [Stream -> EventNo \cup {NoEvent}]
    /\ client \in [Client -> {"watching", "closed", "gone"}]
    /\ conn \in [Client -> {0, 1, 2}]
    /\ seen \in [Client -> Seq(EventNo)]
    /\ lost \subseteq EventNo
    /\ drops \in 0..MaxDrops

Elements(s) == {s[i] : i \in 1..Len(s)}
Sent(c)     == Elements(seen[c])

\* A browser handles the events it gets in the order the orchestrator emitted
\* them and none twice, across reconnections and with other browsers taking
\* from the same queue: a tile never goes back from its verdict to running.
InOrder ==
    \A c \in Client : \A i, j \in 1..Len(seen[c]) : i < j => seen[c][i] < seen[c][j]

\* Every event the run emitted is in exactly one place: queued, taken by one
\* generator, handled by one browser, or lost; and none is lost unless a
\* connection broke or a watcher left.
Conservation ==
    LET places == [queued |-> Elements(queue), gone |-> lost]
        inHand == {g \in Stream : held[g] # NoEvent}
    IN  /\ 0..(emitted - 1) = places.queued \cup places.gone
              \cup {held[g] : g \in inHand} \cup UNION {Sent(c) : c \in Client}
        /\ places.queued \cap places.gone = {}
        /\ \A c \in Client :
              /\ Sent(c) \cap (places.queued \cup places.gone) = {}
              /\ \A d \in Client \ {c} : Sent(c) \cap Sent(d) = {}
              /\ \A g \in inHand : held[g] \notin Sent(c)
        /\ \A g \in inHand :
              /\ held[g] \notin places.queued \cup places.gone
              /\ \A h \in inHand \ {g} : held[g] # held[h]
        /\ lost # {} => drops > 0 \/ \E c \in Client : client[c] = "gone"

\* Every generator ends, whatever becomes of its run and of its client: "without
\* it a stalled client would pin a worker forever" (runs.py:187).
GeneratorsEnd == \A g \in Stream : pc[g] # "none" ~> pc[g] = "none"

\* A browser that stays busy for ever watches a run that crashed, or one whose
\* run_finished was lost with a connection or went to another browser: nothing
\* else keeps its Run button disabled (App.tsx:125), however streams end, time
\* out and reconnect.
BusyForAReason ==
    \A c \in Client : <>[]Busy(c) =>
        <>(\/ task = "crashed"
           \/ RunFinished \in lost
           \/ \E d \in Client \ {c} : RunFinished \in Sent(d))

\* The response of a connected browser ends without run_finished only after the
\* run is over, and only because it crashed or because run_finished went to
\* another generator: the timeout of get() never cuts off a stream that still
\* has something to say.
EndsForAReason ==
    [][\A g \in Stream :
          pc[g] # "none" /\ pc'[g] = "none" /\ Connected(g) =>
             \/ held[g] = RunFinished
             \/ completed /\ task = "crashed"
             \/ completed /\ \/ RunFinished \in lost
                             \/ \E h \in Stream : held[h] = RunFinished
                             \/ \E c \in Client : RunFinished \in Sent(c)]_vars
=============================================================================
