---------------------------- MODULE RunStreamProofs ----------------------------
(***************************************************************************)
(* The event queue of a run and the browsers that watch it, for any number *)
(* of browsers, of events and of broken connections.                       *)
(*                                                                         *)
(* The queue always holds the last events emitted, so that an event is     *)
(* taken when all before it have been taken: what a connected generator    *)
(* has in hand is later than all that its browser has handled.             *)
(***************************************************************************)
EXTENDS RunStream, TLAPS

\* The events that generators have taken: 0..Taken - 1.
Taken == emitted - Len(queue)

\* How far the run has come when its task is where it is.
TaskBook ==
    /\ completed <=> task \in {"done", "crashed"}
    /\ task \in {"persisting", "done"} => emitted = RunFinished + 1
    /\ task \in {"created", "running"} => emitted <= RunFinished
    /\ task = "crashed" => emitted <= LeafEvents

\* The queue holds the others, in order.
Fifo ==
    /\ Len(queue) <= emitted
    /\ \A i \in 1..Len(queue) : queue[i] = Taken + i - 1

\* An event in hand is one a generator is about to yield.
InHand == \A g \in Stream : held[g] # NoEvent <=> pc[g] = "send"

\* What is in hand, handled or lost was taken, ...
OnlyTaken ==
    /\ \A g \in Stream : held[g] < Taken
    /\ \A c \in Client : \A i \in 1..Len(seen[c]) : seen[c][i] < Taken
    /\ \A e \in lost : e < Taken

\* ... and everything taken is in hand, handled or lost, ...
AllTaken ==
    \A e \in 0..(Taken - 1) :
        \/ e \in lost
        \/ \E g \in Stream : held[g] = e
        \/ \E c \in Client : \E i \in 1..Len(seen[c]) : seen[c][i] = e

\* ... in one place only.
OnePlace ==
    /\ \A g \in Stream : held[g] \notin lost
    /\ \A g, h \in Stream : held[g] = held[h] /\ held[g] # NoEvent => g = h
    /\ \A c \in Client : \A i \in 1..Len(seen[c]) :
          /\ seen[c][i] \notin lost
          /\ \A g \in Stream : held[g] # seen[c][i]
          /\ \A d \in Client \ {c} : \A j \in 1..Len(seen[d]) : seen[d][j] # seen[c][i]

\* A connected generator's event is later than all its browser has handled.
Later ==
    \A g \in Stream : Connected(g) /\ pc[g] = "send" =>
        \A i \in 1..Len(seen[g[1]]) : seen[g[1]][i] < held[g]

\* A connection is to a generator that runs; a browser that has left has none.
Attached ==
    \A c \in Client : /\ conn[c] # 0 => pc[<<c, conn[c]>>] # "none"
                      /\ client[c] = "gone" => conn[c] = 0

\* A generator without its browser, and an event lost, have a reason.
Excused ==
    /\ \A g \in Stream : pc[g] # "none" /\ ~Connected(g) =>
          drops > 0 \/ client[g[1]] = "gone"
    /\ lost # {} => drops > 0 \/ \E c \in Client : client[c] = "gone"

SInv ==
    /\ TypeOK /\ TaskBook /\ Fifo /\ InHand
    /\ OnlyTaken /\ AllTaken /\ OnePlace
    /\ InOrder /\ Later /\ Attached /\ Excused

-----------------------------------------------------------------------------

\* The generators of a browser are its slots.
LEMMA Slots ==
    /\ \A g \in Stream : g[1] \in Client /\ g[2] \in {1, 2} /\ g = <<g[1], g[2]>>
    /\ \A g, h \in Stream : g[1] = h[1] /\ Connected(g) /\ Connected(h) => g = h
    /\ \A c \in Client, s \in {1, 2} :
          <<c, s>> \in Stream /\ <<c, s>>[1] = c /\ <<c, s>>[2] = s
<1>1. \A g \in Stream : g[1] \in Client /\ g[2] \in {1, 2} /\ g = <<g[1], g[2]>>
  BY DEF Stream
<1>2. \A g, h \in Stream : g[1] = h[1] /\ Connected(g) /\ Connected(h) => g = h
  BY <1>1 DEF Connected
<1>3. \A c \in Client, s \in {1, 2} :
         <<c, s>> \in Stream /\ <<c, s>>[1] = c /\ <<c, s>>[2] = s
  BY DEF Stream
<1> QED
  BY <1>1, <1>2, <1>3

\* The constants and counters that arithmetic needs, and the events' numbers.
LEMMA Counters ==
    ASSUME TypeOK
    PROVE  /\ LeafEvents \in Nat /\ AggEvents \in Nat /\ RunFinished \in Nat
           /\ LeafEvents < RunFinished
           /\ emitted \in Nat /\ Len(queue) \in Nat /\ Taken \in Int
           /\ EventNo = 0..RunFinished /\ NoEvent = -1
           /\ drops \in Nat
<1>1. /\ LeafEvents \in Nat /\ AggEvents \in Nat /\ RunFinished \in Nat
      /\ LeafEvents < RunFinished
  BY StreamAssumption DEF RunFinished
<1> QED
  BY <1>1, StreamAssumption DEF TypeOK, Taken, EventNo, NoEvent

LEMMA HeldNumber ==
    ASSUME TypeOK, NEW g \in Stream
    PROVE  held[g] \in Int /\ (held[g] # NoEvent => held[g] \in Nat)
BY Counters DEF TypeOK

LEMMA LostNumber ==
    ASSUME TypeOK, NEW e \in lost
    PROVE  e \in Nat /\ e # NoEvent
BY Counters DEF TypeOK

LEMMA SeenNumber ==
    ASSUME TypeOK, NEW c \in Client
    PROVE  /\ seen[c] \in Seq(EventNo) /\ Len(seen[c]) \in Nat
           /\ \A i \in 1..Len(seen[c]) : seen[c][i] \in Nat /\ seen[c][i] # NoEvent
<1>1. seen[c] \in Seq(EventNo)
  BY DEF TypeOK
<1>2. \A e \in EventNo : e \in Nat /\ e # NoEvent
  BY Counters
<1> QED
  BY <1>1, <1>2

LEMMA SInit == Init => SInv
<1> SUFFICES ASSUME Init PROVE SInv
  OBVIOUS
<1>1. TypeOK
  <2>1. 0 \in 0..(RunFinished + 1) /\ 0 \in 0..MaxDrops
    BY StreamAssumption DEF RunFinished
  <2>2. <<>> \in Seq(EventNo)
    OBVIOUS
  <2> QED
    BY <2>1, <2>2 DEF Init, TypeOK
<1>2. /\ Len(queue) = 0 /\ Taken = 0
      /\ \A c \in Client : Len(seen[c]) = 0
  <2>1. queue = <<>> /\ emitted = 0 /\ \A c \in Client : seen[c] = <<>>
    BY DEF Init
  <2>2. Len(queue) = 0 /\ \A c \in Client : Len(seen[c]) = 0
    BY <2>1
  <2>3. emitted = 0
    BY DEF Init
  <2>4. Taken = 0
    BY <2>2, <2>3 DEF Taken
  <2> QED
    BY <2>2, <2>4
<1>3. TaskBook
  <2>1. emitted <= RunFinished
    BY <1>1, Counters DEF Init
  <2> QED
    BY <2>1 DEF Init, TaskBook
<1>4. Fifo /\ OnlyTaken
  BY <1>2 DEF Init, Fifo, OnlyTaken, NoEvent
<1>5. AllTaken /\ InOrder /\ Later
  BY <1>2, Slots DEF Init, AllTaken, InOrder, Later
<1>6. InHand /\ OnePlace /\ Attached /\ Excused
  BY <1>2 DEF Init, InHand, OnePlace, Attached, Excused
<1> QED
  BY <1>1, <1>3, <1>4, <1>5, <1>6 DEF SInv

-----------------------------------------------------------------------------
(* The run task. *)

\* What does not depend on the queue but through the events taken.
LEMMA SStreams ==
    ASSUME SInv, UNCHANGED <<streamVars, clientVars, lost>>, Taken' = Taken
    PROVE  InHand' /\ OnlyTaken' /\ AllTaken' /\ OnePlace' /\ InOrder' /\ Later'
           /\ Attached' /\ Excused'
<1>1. /\ pc' = pc /\ held' = held /\ client' = client /\ conn' = conn /\ seen' = seen
      /\ drops' = drops /\ lost' = lost
  BY DEF streamVars, clientVars
<1>2. InHand' /\ OnePlace' /\ InOrder' /\ Later' /\ Attached' /\ Excused'
  BY <1>1 DEF SInv, InHand, OnePlace, InOrder, Later, Attached, Excused, Connected
<1>3. OnlyTaken' /\ AllTaken'
  BY <1>1 DEF SInv, OnlyTaken, AllTaken
<1> QED
  BY <1>2, <1>3

\* An event is put: it is the last on the queue.
LEMMA SPut ==
    ASSUME SInv, Put, emitted <= RunFinished
    PROVE  /\ Taken' = Taken /\ Fifo'
           /\ emitted' = emitted + 1 /\ emitted' \in 0..(RunFinished + 1)
           /\ queue' \in Seq(EventNo)
<1>1. /\ queue \in Seq(EventNo) /\ emitted \in EventNo
      /\ queue' = Append(queue, emitted) /\ emitted' = emitted + 1
  BY Counters DEF SInv, TypeOK, Put
<1>2. /\ Len(queue') = Len(queue) + 1 /\ queue' \in Seq(EventNo)
      /\ \A i \in 1..Len(queue) : queue'[i] = queue[i]
      /\ queue'[Len(queue) + 1] = emitted
  BY <1>1
<1>3. Taken' = Taken
  BY <1>1, <1>2, Counters DEF SInv, Taken
<1>4. \A i \in 1..Len(queue') : queue'[i] = Taken + i - 1
  <2> SUFFICES ASSUME NEW i \in 1..Len(queue') PROVE queue'[i] = Taken + i - 1
    OBVIOUS
  <2>1. CASE i \in 1..Len(queue)
    BY <2>1, <1>2 DEF SInv, Fifo
  <2>2. CASE i = Len(queue) + 1
    BY <2>2, <1>2, Counters DEF SInv, Taken
  <2> QED
    BY <2>1, <2>2, <1>2, Counters DEF SInv
<1>5. Fifo'
  BY <1>1, <1>2, <1>3, <1>4, Counters DEF SInv, Fifo
<1> QED
  BY <1>1, <1>2, <1>3, <1>5, Counters DEF SInv

\* Whatever the run does, the generators are where they were.
LEMMA SRun ==
    ASSUME SInv, RunNext
    PROVE  SInv'
<1> USE DEF SInv
<1>1. UNCHANGED <<streamVars, clientVars, lost>>
  BY DEF RunNext, RunEmit, RunFinish, RunPersist, RunCrash, OrphanEmit
<1>2. /\ pc' = pc /\ held' = held /\ client' = client /\ conn' = conn /\ seen' = seen
      /\ drops' = drops /\ lost' = lost
  BY <1>1 DEF streamVars, clientVars
<1>3. CASE RunEmit \/ RunFinish \/ OrphanEmit
  <2>1. Put /\ emitted <= RunFinished
    BY <1>3, Counters DEF RunEmit, RunFinish, OrphanEmit
  <2>2. /\ Taken' = Taken /\ Fifo' /\ emitted' = emitted + 1
        /\ emitted' \in 0..(RunFinished + 1) /\ queue' \in Seq(EventNo)
    BY <2>1, SPut
  <2>3. TypeOK'
    <3>1. /\ task' \in {"created", "running", "persisting", "done", "crashed"}
          /\ completed' \in BOOLEAN /\ result' \in BOOLEAN
      <4>1. CASE RunEmit
        BY <4>1 DEF TypeOK, RunEmit
      <4>2. CASE RunFinish
        BY <4>2 DEF TypeOK, RunFinish
      <4>3. CASE OrphanEmit
        BY <4>3 DEF TypeOK, OrphanEmit
      <4> QED
        BY <1>3, <4>1, <4>2, <4>3
    <3> QED
      BY <2>2, <3>1, <1>2 DEF TypeOK
  <2>4. TaskBook'
    <3>1. CASE RunEmit
      BY <2>2, <3>1, Counters DEF TaskBook, RunEmit
    <3>2. CASE RunFinish
      <4>1. PICK db \in BOOLEAN : task' = (IF db THEN "persisting" ELSE "done") /\ completed' = ~db
        BY <3>2 DEF RunFinish
      <4> QED
        BY <2>2, <3>2, <4>1, Counters DEF TaskBook, RunFinish
    <3>3. CASE OrphanEmit
      BY <2>2, <3>3, Counters DEF TaskBook, OrphanEmit
    <3> QED
      BY <1>3, <3>1, <3>2, <3>3
  <2> QED
    BY <2>2, <2>3, <2>4, <1>1, SStreams
<1>4. CASE RunPersist \/ RunCrash
  <2>1. emitted' = emitted /\ queue' = queue
    BY <1>4 DEF RunPersist, RunCrash
  <2>2. Taken' = Taken /\ Fifo'
    BY <2>1 DEF Taken, Fifo
  <2>3. TypeOK'
    BY <2>1, <1>2, <1>4 DEF TypeOK, RunPersist, RunCrash
  <2>4. TaskBook'
    BY <2>1, <1>4, Counters DEF TaskBook, RunPersist, RunCrash
  <2> QED
    BY <2>2, <2>3, <2>4, <1>1, SStreams
<1> QED
  BY <1>3, <1>4 DEF RunNext

-----------------------------------------------------------------------------
(* The generators. *)

\* A generator takes the head of the queue: the first event not taken before.
LEMMA SGet ==
    ASSUME SInv, NEW g \in Stream, Get(g)
    PROVE  SInv'
<1> USE DEF SInv
<1>1. /\ UNCHANGED <<task, emitted, completed, result, client, conn, seen, drops, lost>>
      /\ pc[g] = "loop" /\ queue # <<>>
      /\ held' = [held EXCEPT ![g] = Head(queue)]
      /\ queue' = Tail(queue)
      /\ pc' = [pc EXCEPT ![g] = "send"]
  BY DEF Get, TakeHead, runVars, clientVars
<1>2. /\ queue \in Seq(EventNo) /\ Len(queue) >= 1
      /\ Head(queue) = queue[1] /\ queue[1] \in EventNo
      /\ queue' \in Seq(EventNo) /\ Len(queue') = Len(queue) - 1
      /\ \A i \in 1..Len(queue') : i + 1 \in 1..Len(queue) /\ queue'[i] = queue[i + 1]
  BY <1>1 DEF TypeOK
<1>3. Taken \in Nat /\ Taken' = Taken + 1
  BY <1>1, <1>2, Counters DEF Taken, Fifo
<1>4. Head(queue) = Taken
  BY <1>2, <1>3 DEF Fifo
<1>5. Fifo'
  <2>1. \A i \in 1..Len(queue') : queue'[i] = Taken' + i - 1
    BY <1>2, <1>3 DEF Fifo
  <2>2. Len(queue') <= emitted'
    BY <1>1, <1>2, Counters DEF Fifo
  <2> QED
    BY <2>1, <2>2 DEF Fifo
<1>6. TypeOK' /\ TaskBook'
  BY <1>1, <1>2 DEF TypeOK, TaskBook
<1>7. /\ held[g] = NoEvent /\ held'[g] = Taken /\ pc'[g] = "send"
      /\ \A h \in Stream : h # g => held'[h] = held[h] /\ pc'[h] = pc[h]
  BY <1>1, <1>4 DEF TypeOK, InHand
<1>8. InHand'
  BY <1>3, <1>7 DEF InHand, NoEvent
<1>9. OnlyTaken'
  <2>1. ASSUME NEW h \in Stream PROVE held'[h] < Taken'
    <3>1. held[h] < Taken /\ held[h] \in Int
      BY HeldNumber DEF OnlyTaken
    <3> QED
      BY <3>1, <1>3, <1>7
  <2>2. ASSUME NEW c \in Client, NEW i \in 1..Len(seen[c]) PROVE seen[c][i] < Taken'
    <3>1. seen[c][i] < Taken /\ seen[c][i] \in Int
      BY SeenNumber DEF OnlyTaken
    <3> QED
      BY <3>1, <1>3
  <2>3. ASSUME NEW e \in lost PROVE e < Taken'
    <3>1. e < Taken /\ e \in Int
      BY LostNumber DEF OnlyTaken
    <3> QED
      BY <3>1, <1>3
  <2> QED
    BY <2>1, <2>2, <2>3, <1>1 DEF OnlyTaken
<1>10. AllTaken'
  <2> SUFFICES ASSUME NEW e \in 0..(Taken' - 1)
               PROVE  \/ e \in lost
                      \/ \E h \in Stream : held'[h] = e
                      \/ \E c \in Client : \E i \in 1..Len(seen[c]) : seen[c][i] = e
    BY <1>1 DEF AllTaken
  <2>1. CASE e = Taken
    BY <2>1, <1>7
  <2>2. CASE e \in 0..(Taken - 1)
    <3>1. \A h \in Stream : held[h] = e => h # g
      BY <2>2, <1>3, <1>7 DEF NoEvent
    <3> QED
      BY <2>2, <3>1, <1>7 DEF AllTaken
  <2> QED
    BY <2>1, <2>2, <1>3
<1>11. OnePlace'
  <2>1. \A h \in Stream : h # g => held[h] # Taken
    BY <1>3, HeldNumber DEF OnlyTaken
  <2>2. \A e \in lost : e # Taken
    BY <1>3, LostNumber DEF OnlyTaken
  <2>3. ASSUME NEW c \in Client, NEW i \in 1..Len(seen[c]) PROVE seen[c][i] # Taken
    BY <1>3, SeenNumber DEF OnlyTaken
  <2>4. \A h \in Stream : held'[h] \notin lost'
    BY <2>2, <1>1, <1>7 DEF OnePlace
  <2>5. \A h, k \in Stream : held'[h] = held'[k] /\ held'[h] # NoEvent => h = k
    BY <2>1, <1>7 DEF OnePlace
  <2>6. ASSUME NEW c \in Client, NEW i \in 1..Len(seen[c]), NEW h \in Stream
        PROVE  held'[h] # seen[c][i]
    BY <2>3, <1>7 DEF OnePlace
  <2>7. /\ \A c \in Client : \A i \in 1..Len(seen[c]) : seen[c][i] \notin lost
        /\ \A c \in Client : \A i \in 1..Len(seen[c]) :
              \A d \in Client \ {c} : \A j \in 1..Len(seen[d]) : seen[d][j] # seen[c][i]
    BY DEF OnePlace
  <2> QED
    BY <2>4, <2>5, <2>6, <2>7, <1>1 DEF OnePlace
<1>12. InOrder' /\ Attached' /\ Excused'
  BY <1>1, <1>7 DEF InOrder, Attached, Excused, Connected
<1>13. Later'
  BY <1>1, <1>7, Slots DEF Later, Connected, OnlyTaken
<1> QED
  BY <1>5, <1>6, <1>8, <1>9, <1>10, <1>11, <1>12, <1>13

\* Generator g has gone on or returned, and the others are where they were.
Moved(g) ==
    /\ pc'[g] \in {"none", "loop"}
    /\ \A h \in Stream \ {g} : pc'[h] = pc[h]
    /\ \A h \in Stream : Connected(h)' => Connected(h)
    /\ \A h \in Stream : pc'[h] # "none" /\ ~Connected(h)' => pc[h] # "none" /\ ~Connected(h)
    /\ \A c \in Client : conn'[c] # 0 => conn'[c] = conn[c] /\ pc'[<<c, conn[c]>>] # "none"
    /\ pc' \in [Stream -> {"none", "loop", "send"}]
    /\ conn' \in [Client -> {0, 1, 2}]

LEMMA SMoved ==
    ASSUME SInv, NEW g \in Stream, pc[g] # "none",
           \/ Close(g)
           \/ pc' = [pc EXCEPT ![g] = "loop"] /\ conn' = conn
    PROVE  Moved(g)
<1> USE DEF SInv
<1>1. pc \in [Stream -> {"none", "loop", "send"}] /\ conn \in [Client -> {0, 1, 2}]
  BY DEF TypeOK
<1>2. CASE pc' = [pc EXCEPT ![g] = "loop"] /\ conn' = conn
  BY <1>1, <1>2 DEF Moved, Connected, Attached
<1>3. CASE Close(g)
  <2>1. pc' = [pc EXCEPT ![g] = "none"]
    BY <1>3 DEF Close
  <2>2. CASE Connected(g)
    <3>1. conn' = [conn EXCEPT ![g[1]] = 0]
      BY <1>3, <2>2 DEF Close
    <3>2. \A c \in Client : conn'[c] = IF c = g[1] THEN 0 ELSE conn[c]
      BY <1>1, <3>1
    <3>3. \A h \in Stream : h # g => (Connected(h)' <=> Connected(h))
      BY <2>2, <3>2, Slots DEF Connected
    <3>4. ~Connected(g)'
      BY <3>2, Slots DEF Connected
    <3>5. \A c \in Client : conn'[c] # 0 => <<c, conn[c]>> # g
      BY <3>2
    <3>6. \A c \in Client : conn'[c] # 0 => conn'[c] = conn[c] /\ pc'[<<c, conn[c]>>] # "none"
      <4> SUFFICES ASSUME NEW c \in Client, conn'[c] # 0
                   PROVE  conn'[c] = conn[c] /\ pc'[<<c, conn[c]>>] # "none"
        OBVIOUS
      <4>1. conn'[c] = conn[c] /\ conn[c] \in {1, 2}
        BY <3>2, <1>1
      <4>2. <<c, conn[c]>> \in Stream /\ <<c, conn[c]>> # g
        BY <4>1, <3>5, Slots
      <4> QED
        BY <4>1, <4>2, <2>1, <1>1 DEF Attached
    <3>7. pc' \in [Stream -> {"none", "loop", "send"}] /\ conn' \in [Client -> {0, 1, 2}]
      BY <1>1, <2>1, <3>1, Slots
    <3> QED
      BY <1>1, <2>1, <3>3, <3>4, <3>6, <3>7 DEF Moved
  <2>3. CASE ~Connected(g)
    <3>1. conn' = conn
      BY <1>3, <2>3 DEF Close
    <3>2. \A c \in Client : conn[c] # 0 => <<c, conn[c]>> \in Stream /\ <<c, conn[c]>> # g
      <4> SUFFICES ASSUME NEW c \in Client, conn[c] # 0
                   PROVE  <<c, conn[c]>> \in Stream /\ <<c, conn[c]>> # g
        OBVIOUS
      <4>1. PICK s \in {1, 2} : s = conn[c]
        BY <1>1
      <4>2. <<c, s>> \in Stream /\ <<c, s>>[1] = c /\ <<c, s>>[2] = s
        BY Slots
      <4> QED
        BY <2>3, <4>1, <4>2 DEF Connected
    <3>3. \A c \in Client : conn[c] # 0 => pc'[<<c, conn[c]>>] # "none"
      BY <1>1, <2>1, <3>2 DEF Attached
    <3> QED
      BY <1>1, <2>1, <3>1, <3>3 DEF Moved, Connected
  <2> QED
    BY <2>2, <2>3
<1> QED
  BY <1>2, <1>3

\* What a generator leaves behind when it goes on or returns.
LEMMA SLeft ==
    ASSUME SInv, NEW g \in Stream, Moved(g), UNCHANGED <<runVars, queue, drops>>
    PROVE  TaskBook' /\ Fifo' /\ Taken' = Taken
<1>1. /\ task' = task /\ emitted' = emitted /\ completed' = completed /\ queue' = queue
  BY DEF runVars
<1> QED
  BY <1>1 DEF SInv, TaskBook, Fifo, Taken

\* The generator returns with nothing in hand: the timeout after the end of the
\* run, or a lost connection noticed between two events.
LEMMA SIdle ==
    ASSUME SInv, NEW g \in Stream,
           Timeout(g) \/ (Notice(g) /\ pc[g] # "send")
    PROVE  SInv'
<1> USE DEF SInv
<1>1. /\ UNCHANGED <<runVars, queue, client, seen, drops, lost>>
      /\ pc[g] # "none" /\ pc[g] # "send" /\ Close(g)
  BY DEF Timeout, Notice, Close, clientVars
<1>2. held' = held
  <2>1. held[g] = NoEvent
    BY <1>1 DEF InHand
  <2>2. held \in [Stream -> EventNo \cup {NoEvent}]
    BY DEF TypeOK
  <2> QED
    BY <2>1, <2>2 DEF Timeout, Notice
<1>3. Moved(g)
  BY <1>1, SMoved
<1>4. TaskBook' /\ Fifo' /\ Taken' = Taken
  BY <1>1, <1>3, SLeft
<1>5. client' = client /\ seen' = seen /\ drops' = drops /\ lost' = lost
  BY <1>1
<1>6. TypeOK'
  BY <1>1, <1>2, <1>3 DEF TypeOK, Moved, runVars
<1>7. OnlyTaken' /\ AllTaken' /\ OnePlace' /\ InOrder'
  BY <1>2, <1>4, <1>5 DEF OnlyTaken, AllTaken, OnePlace, InOrder
<1>8. pc'[g] = "none" /\ \A h \in Stream \ {g} : pc'[h] = pc[h]
  BY <1>1, <1>3 DEF Moved, Close, TypeOK
<1>9. InHand'
  BY <1>1, <1>2, <1>8 DEF InHand
<1>10. Later'
  BY <1>2, <1>3, <1>5, <1>8 DEF Later, Moved
<1>11. Attached'
  BY <1>3, <1>5 DEF Attached, Moved
<1>12. Excused'
  BY <1>3, <1>5 DEF Excused, Moved
<1> QED
  BY <1>4, <1>6, <1>7, <1>9, <1>10, <1>11, <1>12

\* The event in hand goes to nobody.
LEMMA SLose ==
    ASSUME SInv, NEW g \in Stream,
           (Send(g) \/ Notice(g)) /\ pc[g] = "send" /\ ~Connected(g)
    PROVE  SInv'
<1> USE DEF SInv
<1>1. /\ UNCHANGED <<runVars, queue, client, seen, drops>>
      /\ held' = [held EXCEPT ![g] = NoEvent]
      /\ lost' = lost \cup {held[g]}
      /\ \/ Close(g)
         \/ pc' = [pc EXCEPT ![g] = "loop"] /\ conn' = conn
  BY DEF Send, Notice, Close, clientVars
<1>2. Moved(g)
  BY <1>1, SMoved
<1>3. TaskBook' /\ Fifo' /\ Taken' = Taken
  BY <1>1, <1>2, SLeft
<1>4. client' = client /\ seen' = seen /\ drops' = drops
  BY <1>1
<1>5. held[g] # NoEvent /\ held[g] \in EventNo
  BY DEF InHand, TypeOK
<1>6. held'[g] = NoEvent /\ \A h \in Stream \ {g} : held'[h] = held[h]
  BY <1>1 DEF TypeOK
<1>7. TypeOK'
  BY <1>1, <1>2, <1>5 DEF TypeOK, Moved, runVars
<1>8. InHand'
  BY <1>2, <1>6 DEF InHand, Moved
<1>9. OnlyTaken'
  <2>1. held[g] < Taken /\ NoEvent < Taken
    BY <1>5, HeldNumber, Counters DEF OnlyTaken
  <2> QED
    BY <1>1, <1>3, <1>4, <1>6, <2>1 DEF OnlyTaken
<1>10. AllTaken'
  BY <1>1, <1>3, <1>4, <1>6 DEF AllTaken
<1>11. OnePlace'
  <2>1. \A e \in lost : e # NoEvent
    BY LostNumber
  <2>2. \A c \in Client : \A i \in 1..Len(seen[c]) : seen[c][i] # NoEvent
    BY SeenNumber
  <2>3. \A h \in Stream : held'[h] \notin lost'
    BY <1>1, <1>5, <1>6, <2>1 DEF OnePlace
  <2>4. \A h, k \in Stream : held'[h] = held'[k] /\ held'[h] # NoEvent => h = k
    BY <1>6 DEF OnePlace
  <2>5. \A c \in Client : \A i \in 1..Len(seen[c]) :
           /\ seen[c][i] \notin lost'
           /\ \A h \in Stream : held'[h] # seen[c][i]
    BY <1>1, <1>6, <2>2 DEF OnePlace
  <2> QED
    BY <2>3, <2>4, <2>5, <1>4 DEF OnePlace
<1>12. InOrder'
  BY <1>4 DEF InOrder
<1>13. Later'
  BY <1>2, <1>4, <1>6 DEF Later, Moved
<1>14. Attached'
  BY <1>2, <1>4 DEF Attached, Moved
<1>15. Excused'
  BY <1>2, <1>4, Slots DEF Excused, Moved
<1> QED
  BY <1>3, <1>7, <1>8, <1>9, <1>10, <1>11, <1>12, <1>13, <1>14, <1>15

\* The browser handles the event in hand: none it has handled is as late.
LEMMA SHandle ==
    ASSUME SInv, NEW g \in Stream, Send(g), Connected(g)
    PROVE  SInv'
<1> USE DEF SInv
<1> DEFINE b == g[1]
<1>1. /\ UNCHANGED <<runVars, queue, drops>>
      /\ pc[g] = "send"
      /\ held' = [held EXCEPT ![g] = NoEvent]
      /\ lost' = lost
      /\ seen' = [seen EXCEPT ![b] = Append(@, held[g])]
      /\ client' = [client EXCEPT ![b] = IF held[g] = RunFinished THEN "closed" ELSE @]
      /\ \/ Close(g)
         \/ pc' = [pc EXCEPT ![g] = "loop"] /\ conn' = conn
  BY DEF Send
<1>2. Moved(g)
  BY <1>1, SMoved
<1>3. TaskBook' /\ Fifo' /\ Taken' = Taken
  BY <1>1, <1>2, SLeft
<1>4. b \in Client
  BY Slots
<1>5. PICK e \in EventNo : e = held[g] /\ e # NoEvent
  BY <1>1 DEF InHand, TypeOK
<1>6. held'[g] = NoEvent /\ \A h \in Stream \ {g} : held'[h] = held[h]
  BY <1>1 DEF TypeOK
<1>7. \A c \in Client \ {b} : seen'[c] = seen[c] /\ client'[c] = client[c]
  BY <1>1, <1>4 DEF TypeOK
<1>8. /\ seen[b] \in Seq(EventNo) /\ seen'[b] = Append(seen[b], e)
      /\ Len(seen'[b]) = Len(seen[b]) + 1
      /\ \A i \in 1..Len(seen[b]) : seen'[b][i] = seen[b][i]
      /\ seen'[b][Len(seen[b]) + 1] = e
  BY <1>1, <1>4, <1>5 DEF TypeOK
<1>9. \A i \in 1..Len(seen'[b]) : i \in 1..Len(seen[b]) \/ i = Len(seen[b]) + 1
  BY <1>8
<1>10. /\ \A c \in Client : \A i \in 1..Len(seen'[c]) :
             \/ c = b /\ i = Len(seen[b]) + 1 /\ seen'[c][i] = e
             \/ i \in 1..Len(seen[c]) /\ seen'[c][i] = seen[c][i]
       /\ \A c \in Client : \A i \in 1..Len(seen[c]) :
             i \in 1..Len(seen'[c]) /\ seen'[c][i] = seen[c][i]
       /\ Len(seen[b]) + 1 \in 1..Len(seen'[b])
  <2>1. ASSUME NEW c \in Client, NEW i \in 1..Len(seen'[c])
        PROVE  \/ c = b /\ i = Len(seen[b]) + 1 /\ seen'[c][i] = e
               \/ i \in 1..Len(seen[c]) /\ seen'[c][i] = seen[c][i]
    <3>1. CASE c = b
      BY <3>1, <1>8, <1>9
    <3>2. CASE c # b
      BY <3>2, <1>7
    <3> QED
      BY <3>1, <3>2
  <2>2. ASSUME NEW c \in Client, NEW i \in 1..Len(seen[c])
        PROVE  i \in 1..Len(seen'[c]) /\ seen'[c][i] = seen[c][i]
    <3>1. CASE c = b
      BY <3>1, <1>8
    <3>2. CASE c # b
      BY <3>2, <1>7
    <3> QED
      BY <3>1, <3>2
  <2>3. Len(seen[b]) + 1 \in 1..Len(seen'[b])
    BY <1>8
  <2> QED
    BY <2>1, <2>2, <2>3
<1>11. client'[b] = client[b] \/ client'[b] = "closed"
  BY <1>1, <1>4 DEF TypeOK
<1>12. TypeOK'
  <2>1. seen' \in [Client -> Seq(EventNo)]
    BY <1>1, <1>4, <1>5, <1>8 DEF TypeOK
  <2>2. client' \in [Client -> {"watching", "closed", "gone"}]
    BY <1>1 DEF TypeOK
  <2> QED
    BY <1>1, <1>2, <2>1, <2>2 DEF TypeOK, Moved, runVars
<1>13. InHand'
  BY <1>2, <1>6 DEF InHand, Moved
<1>14. OnlyTaken'
  <2>1. \A h \in Stream : held'[h] < Taken
    <3>1. NoEvent < Taken
      BY <1>5, HeldNumber, Counters DEF OnlyTaken
    <3> QED
      BY <1>6, <3>1 DEF OnlyTaken
  <2>2. \A c \in Client : \A i \in 1..Len(seen'[c]) : seen'[c][i] < Taken
    BY <1>5, <1>10 DEF OnlyTaken
  <2> QED
    BY <2>1, <2>2, <1>1, <1>3 DEF OnlyTaken
<1>15. AllTaken'
  <2> SUFFICES ASSUME NEW n \in 0..(Taken - 1)
               PROVE  \/ n \in lost
                      \/ \E h \in Stream : held'[h] = n
                      \/ \E c \in Client : \E i \in 1..Len(seen'[c]) : seen'[c][i] = n
    BY <1>1, <1>3 DEF AllTaken
  <2>1. CASE n = e
    BY <2>1, <1>4, <1>8, <1>10
  <2>2. CASE n # e
    <3>1. CASE n \in lost
      BY <3>1
    <3>2. ASSUME NEW h \in Stream, held[h] = n
          PROVE  held'[h] = n
      BY <2>2, <3>2, <1>5, <1>6
    <3>3. ASSUME NEW c \in Client, NEW i \in 1..Len(seen[c]), seen[c][i] = n
          PROVE  \E j \in 1..Len(seen'[c]) : seen'[c][j] = n
      BY <3>3, <1>10
    <3> QED
      BY <3>1, <3>2, <3>3 DEF AllTaken
  <2> QED
    BY <2>1, <2>2
<1>16. OnePlace'
  <2>1. \A n \in lost : n # NoEvent
    BY LostNumber
  <2>2. ASSUME NEW c \in Client, NEW i \in 1..Len(seen[c])
        PROVE  seen[c][i] # NoEvent /\ seen[c][i] # e
    <3>1. seen[c][i] # NoEvent
      BY SeenNumber
    <3>2. seen[c][i] # e
      BY <1>5 DEF OnePlace
    <3> QED
      BY <3>1, <3>2
  <2>3. e \notin lost /\ \A h \in Stream \ {g} : held[h] # e
    BY <1>5 DEF OnePlace
  <2>4. \A h \in Stream : held'[h] \notin lost'
    BY <1>1, <1>6, <2>1 DEF OnePlace
  <2>5. \A h, k \in Stream : held'[h] = held'[k] /\ held'[h] # NoEvent => h = k
    BY <1>6 DEF OnePlace
  <2>6. \A c \in Client : \A i \in 1..Len(seen'[c]) :
           /\ seen'[c][i] \notin lost
           /\ \A h \in Stream : held'[h] # seen'[c][i]
    BY <1>5, <1>6, <1>10, <2>2, <2>3 DEF OnePlace
  <2>7. ASSUME NEW c \in Client, NEW i \in 1..Len(seen'[c]),
               NEW d \in Client \ {c}, NEW j \in 1..Len(seen'[d])
        PROVE  seen'[d][j] # seen'[c][i]
    <3>1. \A m \in 1..Len(seen[c]) : \A n \in 1..Len(seen[d]) : seen[d][n] # seen[c][m]
      BY DEF OnePlace
    <3>2. seen'[d][j] = e \/ \E n \in 1..Len(seen[d]) : seen[d][n] = seen'[d][j]
      BY <1>10
    <3>3. CASE seen'[c][i] = e /\ c = b
      <4>1. d # b
        BY <3>3
      <4>2. seen'[d] = seen[d]
        BY <4>1, <1>7
      <4> QED
        BY <3>3, <4>2, <2>2
    <3>4. CASE ~(seen'[c][i] = e /\ c = b)
      <4>1. i \in 1..Len(seen[c]) /\ seen'[c][i] = seen[c][i]
        BY <3>4, <1>10
      <4> QED
        BY <3>1, <3>2, <4>1, <2>2
    <3> QED
      BY <3>3, <3>4
  <2> QED
    BY <2>4, <2>5, <2>6, <2>7, <1>1 DEF OnePlace
<1>17. InOrder'
  <2>1. \A i \in 1..Len(seen[b]) : seen[b][i] < e
    BY <1>1, <1>5 DEF Later
  <2> SUFFICES ASSUME NEW c \in Client, NEW i \in 1..Len(seen'[c]), NEW j \in 1..Len(seen'[c]),
                      i < j
               PROVE  seen'[c][i] < seen'[c][j]
    BY DEF InOrder
  <2>2. CASE c = b
    <3>1. i \in 1..Len(seen[b]) /\ seen'[c][i] = seen[b][i]
      BY <2>2, <1>8, <1>9
    <3>2. CASE j \in 1..Len(seen[b])
      BY <2>2, <3>1, <3>2, <1>4, <1>8 DEF InOrder
    <3>3. CASE j = Len(seen[b]) + 1
      BY <2>1, <2>2, <3>1, <3>3, <1>8
    <3> QED
      BY <2>2, <3>2, <3>3, <1>9
  <2>3. CASE c # b
    BY <2>3, <1>7 DEF InOrder
  <2> QED
    BY <2>2, <2>3
<1>18. Later'
  <2> SUFFICES ASSUME NEW h \in Stream, Connected(h)', pc'[h] = "send",
                      NEW i \in 1..Len(seen'[h[1]])
               PROVE  seen'[h[1]][i] < held'[h]
    BY DEF Later
  <2>1. h # g /\ Connected(h) /\ pc[h] = "send" /\ held'[h] = held[h]
    BY <1>2, <1>6 DEF Moved
  <2>2. h[1] # b /\ h[1] \in Client
    BY <2>1, Slots
  <2> QED
    BY <2>1, <2>2, <1>7 DEF Later
<1>19. Attached'
  <2>1. conn[b] # 0
    BY Slots DEF Connected
  <2>2. \A c \in Client : client'[c] = "gone" => conn[c] = 0
    BY <2>1, <1>4, <1>7, <1>11 DEF Attached
  <2> QED
    BY <2>2, <1>2 DEF Attached, Moved
<1>20. Excused'
  <2>1. \A c \in Client : client[c] = "gone" => client'[c] = "gone"
    BY <1>4, <1>7, Slots DEF Attached, Connected
  <2>2. drops' = drops
    BY <1>1
  <2> QED
    BY <2>1, <2>2, <1>1, <1>2, Slots DEF Excused, Moved
<1> QED
  BY <1>3, <1>12, <1>13, <1>14, <1>15, <1>16, <1>17, <1>18, <1>19, <1>20

-----------------------------------------------------------------------------
(* The browsers. *)

\* A browser that connects has no other generator running for it, unless a
\* connection of its own was lost; one whose connection is lost has a reason.
LEMMA SClient ==
    ASSUME SInv, NEW c \in Client, ClientNext(c)
    PROVE  SInv'
<1> USE DEF SInv
<1>1. /\ UNCHANGED <<task, emitted, completed, result, queue, held, seen, lost>>
      /\ queue' = queue /\ held' = held /\ seen' = seen /\ lost' = lost
  BY DEF ClientNext, Connect, Drop, Leave, runVars, streamVars
<1>2. /\ TaskBook' /\ Fifo' /\ Taken' = Taken
      /\ OnlyTaken' /\ AllTaken' /\ OnePlace' /\ InOrder'
  BY <1>1 DEF TaskBook, Fifo, Taken, OnlyTaken, AllTaken, OnePlace, InOrder
<1>3. CASE Connect(c)
  <2>1. PICK s \in {1, 2} : /\ pc[<<c, s>>] = "none"
                            /\ conn' = [conn EXCEPT ![c] = s]
                            /\ pc' = [pc EXCEPT ![<<c, s>>] = "loop"]
    BY <1>3 DEF Connect
  <2> DEFINE n == <<c, s>>
  <2>2. n \in Stream /\ n[1] = c /\ n[2] = s
    BY Slots
  <2>3. client[c] = "watching" /\ conn[c] = 0 /\ client' = client /\ drops' = drops
    BY <1>3 DEF Connect
  <2>4. /\ pc'[n] = "loop" /\ conn'[c] = s
        /\ \A h \in Stream \ {n} : pc'[h] = pc[h]
        /\ \A d \in Client \ {c} : conn'[d] = conn[d]
    BY <2>1, <2>2 DEF TypeOK
  <2> HIDE DEF n
  <2>5. TypeOK'
    BY <1>1, <2>1, <2>3 DEF TypeOK
  <2>6. InHand'
    BY <1>1, <2>1, <2>2, <2>4 DEF InHand, n
  <2>7. \A h \in Stream \ {n} : Connected(h)' <=> Connected(h)
    <3> SUFFICES ASSUME NEW h \in Stream \ {n} PROVE Connected(h)' <=> Connected(h)
      OBVIOUS
    <3>1. CASE h[1] = c
      <4>1. h[2] # s /\ h[2] # 0
        BY <3>1, <2>2, Slots DEF n
      <4> QED
        BY <3>1, <4>1, <2>3, <2>4 DEF Connected
    <3>2. CASE h[1] # c
      BY <3>2, <2>4, Slots DEF Connected
    <3> QED
      BY <3>1, <3>2
  <2>8. Later'
    BY <1>1, <2>4, <2>7 DEF Later
  <2>9. Attached'
    <3> SUFFICES ASSUME NEW d \in Client
                 PROVE  /\ conn'[d] # 0 => pc'[<<d, conn'[d]>>] # "none"
                        /\ client'[d] = "gone" => conn'[d] = 0
      BY DEF Attached
    <3>1. CASE d = c
      BY <3>1, <2>3, <2>4 DEF n
    <3>2. CASE d # c
      <4>1. conn[d] # 0 => <<d, conn[d]>> \in Stream /\ <<d, conn[d]>> # n
        BY <3>2, Slots DEF TypeOK, n
      <4> QED
        BY <3>2, <4>1, <2>3, <2>4 DEF Attached
    <3> QED
      BY <3>1, <3>2
  <2>10. Excused'
    <3>1. Connected(n)'
      BY <2>2, <2>4 DEF Connected
    <3> QED
      BY <3>1, <1>1, <2>3, <2>4, <2>7 DEF Excused
  <2> QED
    BY <1>2, <2>5, <2>6, <2>8, <2>9, <2>10
<1>4. CASE Drop(c) \/ Leave(c)
  <2>1. /\ conn' = [conn EXCEPT ![c] = 0]
        /\ pc' = pc
        /\ \/ client' = client /\ drops < MaxDrops /\ drops' = drops + 1
           \/ client' = [client EXCEPT ![c] = "gone"] /\ drops' = drops
    BY <1>4 DEF Drop, Leave, streamVars
  <2>2. conn'[c] = 0 /\ \A d \in Client \ {c} : conn'[d] = conn[d]
    BY <2>1 DEF TypeOK
  <2>3. TypeOK'
    <3>1. conn' \in [Client -> {0, 1, 2}]
      BY <2>1 DEF TypeOK
    <3>2. client' \in [Client -> {"watching", "closed", "gone"}]
      BY <2>1 DEF TypeOK
    <3>3. drops' \in 0..MaxDrops
      BY <2>1, StreamAssumption DEF TypeOK
    <3> QED
      BY <1>1, <2>1, <3>1, <3>2, <3>3 DEF TypeOK
  <2>4. InHand'
    BY <1>1, <2>1 DEF InHand
  <2>5. \A h \in Stream : /\ Connected(h)' => Connected(h)
                          /\ h[1] # c => (Connected(h)' <=> Connected(h))
    BY <2>2, Slots DEF Connected
  <2>6. Later'
    BY <1>1, <2>1, <2>5 DEF Later
  <2>7. \A d \in Client : client'[d] = "gone" => d = c \/ client[d] = "gone"
    BY <2>1 DEF TypeOK
  <2>8. Attached'
    BY <2>1, <2>2, <2>7 DEF Attached
  <2>9. \/ drops' > 0
        \/ /\ drops' = drops /\ client'[c] = "gone"
           /\ \A d \in Client : client[d] = "gone" => client'[d] = "gone"
    BY <2>1, Counters DEF TypeOK
  <2>10. Excused'
    BY <1>1, <2>1, <2>5, <2>9, Slots DEF Excused
  <2> QED
    BY <1>2, <2>3, <2>4, <2>6, <2>8, <2>10
<1> QED
  BY <1>3, <1>4 DEF ClientNext

-----------------------------------------------------------------------------

LEMMA SStep ==
    ASSUME SInv, [Next]_vars
    PROVE  SInv'
<1>1. ASSUME NEW g \in Stream, StreamNext(g) PROVE SInv'
  <2>1. CASE Get(g)
    BY <2>1, SGet
  <2>2. CASE Timeout(g)
    BY <2>2, SIdle
  <2>3. CASE Send(g)
    <3>1. pc[g] = "send"
      BY <2>3 DEF Send
    <3> QED
      BY <2>3, <3>1, SHandle, SLose
  <2>4. CASE Notice(g)
    <3>1. ~Connected(g)
      BY <2>4 DEF Notice
    <3> QED
      BY <2>4, <3>1, SIdle, SLose
  <2> QED
    BY <1>1, <2>1, <2>2, <2>3, <2>4 DEF StreamNext
<1>2. CASE UNCHANGED vars
  <2>1. UNCHANGED <<streamVars, clientVars, lost>> /\ Taken' = Taken
    BY <1>2 DEF vars, Taken, runVars
  <2>2. InHand' /\ OnlyTaken' /\ AllTaken' /\ OnePlace' /\ InOrder' /\ Later'
        /\ Attached' /\ Excused'
    BY <2>1, SStreams
  <2>3. TypeOK' /\ TaskBook' /\ Fifo'
    BY <1>2 DEF SInv, TypeOK, TaskBook, Fifo, Taken, vars, runVars, streamVars, clientVars
  <2> QED
    BY <2>2, <2>3 DEF SInv
<1> QED
  BY <1>1, <1>2, SRun, SClient DEF Next, Quiescent

LEMMA StreamInvariant == Spec => []SInv
<1> QED
  BY SInit, SStep, PTL DEF Spec

\* RunState, its generators and their browsers are well-typed.
THEOREM StreamTypes == Spec => []TypeOK
<1>1. SInv => TypeOK
  BY DEF SInv
<1> QED
  BY <1>1, StreamInvariant, PTL

\* Every browser handles its events in the order of emission, across broken
\* connections and with any number of generators taking from the one queue.
THEOREM InOrderCorrect == Spec => []InOrder
<1>1. SInv => InOrder
  BY DEF SInv
<1> QED
  BY <1>1, StreamInvariant, PTL

\* No event is duplicated, and none disappears unless a connection broke or a
\* watcher left.
THEOREM ConservationCorrect == Spec => []Conservation
<1>1. ASSUME SInv PROVE Conservation
  <2> DEFINE inHand == {g \in Stream : held[g] # NoEvent}
  <2>a. TypeOK /\ Fifo /\ OnlyTaken /\ AllTaken /\ OnePlace /\ Excused
    BY <1>1 DEF SInv
  <2>b. /\ emitted \in Nat /\ Len(queue) \in Nat /\ Taken \in Nat
        /\ Len(queue) = emitted - Taken
    BY <2>a, Counters DEF Taken, Fifo
  <2>c. /\ \A c \in Client : \A i \in 1..Len(seen[c]) : seen[c][i] \in Nat
        /\ \A e \in lost : e \in Nat
        /\ \A g \in inHand : held[g] \in Nat
        /\ \A e \in Nat : e # NoEvent
    BY <2>a, HeldNumber, LostNumber, SeenNumber DEF NoEvent
  <2>1. Elements(queue) = Taken..(emitted - 1)
    <3>1. ASSUME NEW i \in 1..Len(queue) PROVE queue[i] \in Taken..(emitted - 1)
      <4>1. queue[i] = Taken + i - 1
        BY <2>a DEF Fifo
      <4> QED
        BY <2>b, <4>1
    <3>2. ASSUME NEW e \in Taken..(emitted - 1)
          PROVE  \E i \in 1..Len(queue) : queue[i] = e
      <4> DEFINE i == e - Taken + 1
      <4>1. i \in 1..Len(queue) /\ Taken + i - 1 = e
        BY <2>b
      <4>2. queue[i] = Taken + i - 1
        BY <2>a, <4>1 DEF Fifo
      <4> QED
        BY <4>1, <4>2
    <3> QED
      BY <3>1, <3>2 DEF Elements
  <2>2. ASSUME NEW c \in Client, NEW e
        PROVE  e \in Sent(c) <=> \E i \in 1..Len(seen[c]) : seen[c][i] = e
    BY DEF Sent, Elements
  <2>3. /\ \A e \in lost : e \in 0..(Taken - 1)
        /\ \A g \in inHand : held[g] \in 0..(Taken - 1)
        /\ \A c \in Client : \A e \in Sent(c) : e \in 0..(Taken - 1)
    <3>1. \A e \in lost : e \in 0..(Taken - 1)
      BY <2>a, <2>b, <2>c DEF OnlyTaken
    <3>2. \A g \in inHand : held[g] \in 0..(Taken - 1)
      BY <2>a, <2>b, <2>c DEF OnlyTaken
    <3>3. ASSUME NEW c \in Client, NEW e \in Sent(c)
          PROVE  e \in 0..(Taken - 1)
      <4>1. PICK i \in 1..Len(seen[c]) : seen[c][i] = e
        BY <2>2
      <4>2. seen[c][i] < Taken
        BY <2>a DEF OnlyTaken
      <4> QED
        BY <2>b, <2>c, <4>1, <4>2
    <3> QED
      BY <3>1, <3>2, <3>3
  <2>4. 0..(emitted - 1) = Elements(queue) \cup lost \cup {held[g] : g \in inHand}
                              \cup UNION {Sent(c) : c \in Client}
    <3>1. \A e : e \in 0..(emitted - 1) <=> e \in 0..(Taken - 1) \/ e \in Taken..(emitted - 1)
      BY <2>b
    <3>2. ASSUME NEW e \in 0..(Taken - 1)
          PROVE  \/ e \in lost
                 \/ e \in {held[g] : g \in inHand}
                 \/ e \in UNION {Sent(c) : c \in Client}
      <4>1. e # NoEvent
        BY <2>b, <2>c
      <4>2. CASE e \in lost
        BY <4>2
      <4>3. CASE \E g \in Stream : held[g] = e
        BY <4>1, <4>3
      <4>4. CASE \E c \in Client : \E i \in 1..Len(seen[c]) : seen[c][i] = e
        BY <2>2, <4>4
      <4> QED
        BY <2>a, <4>2, <4>3, <4>4 DEF AllTaken
    <3> QED
      BY <2>1, <2>3, <3>1, <3>2
  <2>5. /\ Elements(queue) \cap lost = {}
        /\ \A c \in Client : Sent(c) \cap Elements(queue) = {}
        /\ \A g \in inHand : held[g] \notin Elements(queue)
    BY <2>1, <2>3, <2>b
  <2>6. /\ \A c \in Client : /\ Sent(c) \cap lost = {}
                             /\ \A d \in Client \ {c} : Sent(c) \cap Sent(d) = {}
                             /\ \A g \in inHand : held[g] \notin Sent(c)
        /\ \A g \in inHand : /\ held[g] \notin lost
                             /\ \A h \in inHand \ {g} : held[g] # held[h]
    BY <2>2, <2>a DEF OnePlace
  <2>7. lost # {} => drops > 0 \/ \E c \in Client : client[c] = "gone"
    BY <2>a DEF Excused
  <2> QED
    BY <2>4, <2>5, <2>6, <2>7 DEF Conservation
<1> QED
  BY <1>1, StreamInvariant, PTL

\* A connected browser's response ends without run_finished only when the run
\* crashed or run_finished is with another generator or its browser, or lost:
\* the queue is empty when the timeout ends it, so run_finished was taken.
THEOREM EndsForAReasonCorrect == Spec => EndsForAReason
<1> DEFINE Ended == \A g \in Stream :
              pc[g] # "none" /\ pc'[g] = "none" /\ Connected(g) =>
                 \/ held[g] = RunFinished
                 \/ completed /\ task = "crashed"
                 \/ completed /\ \/ RunFinished \in lost
                                 \/ \E h \in Stream : held[h] = RunFinished
                                 \/ \E c \in Client : RunFinished \in Sent(c)
<1>1. ASSUME SInv, [Next]_vars PROVE [Ended]_vars
  <2> SUFFICES ASSUME NEW g \in Stream, Next, pc[g] # "none", pc'[g] = "none", Connected(g)
               PROVE  \/ held[g] = RunFinished
                      \/ completed /\ task = "crashed"
                      \/ completed /\ \/ RunFinished \in lost
                                      \/ \E h \in Stream : held[h] = RunFinished
                                      \/ \E c \in Client : RunFinished \in Sent(c)
    BY <1>1
  <2>1. pc \in [Stream -> {"none", "loop", "send"}]
    BY <1>1 DEF SInv, TypeOK
  <2>2. Timeout(g) \/ Send(g)
    <3>1. ~RunNext /\ ~Quiescent
      BY DEF RunNext, RunEmit, RunFinish, RunPersist, RunCrash, OrphanEmit, Quiescent,
             streamVars, vars
    <3>2. \A c \in Client : ~ClientNext(c)
      BY <2>1 DEF ClientNext, Connect, Drop, Leave, streamVars
    <3>3. ASSUME NEW h \in Stream, StreamNext(h) PROVE h = g
      BY <2>1, <3>3 DEF StreamNext, Get, TakeHead, Timeout, Close, Send, Notice
    <3>4. StreamNext(g)
      BY <3>1, <3>2, <3>3 DEF Next
    <3> QED
      BY <2>1, <3>4 DEF StreamNext, Get, TakeHead, Notice
  <2>3. CASE Send(g)
    BY <2>1, <2>3 DEF Send
  <2>4. CASE Timeout(g)
    <3>1. completed /\ queue = <<>> /\ task \in {"done", "crashed"}
      BY <1>1, <2>4 DEF Timeout, SInv, TaskBook
    <3>2. CASE task = "done"
      <4>1. Len(queue) = 0 /\ emitted = RunFinished + 1
        BY <1>1, <3>1, <3>2 DEF SInv, TaskBook
      <4>2. RunFinished \in 0..(Taken - 1)
        BY <1>1, <4>1, Counters DEF SInv, Taken
      <4>3. \/ RunFinished \in lost
            \/ \E h \in Stream : held[h] = RunFinished
            \/ \E c \in Client : RunFinished \in Sent(c)
        BY <1>1, <4>2 DEF SInv, AllTaken, Sent, Elements
      <4> QED
        BY <3>1, <4>3
    <3> QED
      BY <3>1, <3>2
  <2> QED
    BY <2>2, <2>3, <2>4
<1> QED
  BY <1>1, StreamInvariant, PTL DEF Spec, EndsForAReason
=============================================================================
