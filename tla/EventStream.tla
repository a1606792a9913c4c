---------------------------- MODULE EventStream -----------------------------
(***************************************************************************)
(* Log records and script output on their way from the threads of a server *)
(* to its subscribers: server/daemon.py broadcasts each event to the       *)
(* clients subscribed at that moment and replays the events of the last    *)
(* load to a new subscriber; server/runner.py keeps them, up to a maximum. *)
(* All tasks share the send lock, which asyncio hands on first come, first *)
(* served.  The daemon runs throughout; the client puts what it receives   *)
(* into a queue that one thread empties, so got stands for that queue.     *)
(***************************************************************************)
EXTENDS Naturals, Sequences, SequencesExt

CONSTANTS Clients,   \* identities
          Replaying, \* clients that subscribe with replay_history
          Returning, \* clients that come back under the same identity
          MaxEvents, \* bound: events emitted
          MaxLoads,  \* bound: scripts loaded
          MaxHistory, \* events the runner keeps, 1000 in the code
          NoOne      \* Python's None

ASSUME StreamAssumption == /\ Replaying \subseteq Clients /\ Returning \subseteq Clients
                           /\ NoOne \notin Clients
                           /\ MaxEvents \in Nat /\ MaxLoads \in Nat /\ NoOne \notin Nat
                           /\ MaxHistory \in Nat \ {0}

VARIABLES
  emitted,     \* events so far; an event is its number
  own,         \* the event that the thread of the script has posted and has yet to note
  noting,      \* events that other threads have posted and have yet to note
  late,        \* ghost: of these and of the history, the events that were not or
               \* will not be noted during the load in which they were posted
  posted,      \* _broadcast_event calls the loop has yet to run
  loads, loading, \* loads so far; the runner's lock is held by one
  history,     \* _startup_events
  subscribers, \* _subscribers
  sendq,       \* tasks that have the send lock (the first) or wait for it
  reading,     \* the client whose task is about to read the history
  subscription, \* subscription[c]: how far the subscription of c is
  client,      \* client[c]: "open", "gone" without a word, or "back"
  got,         \* got[c]: the events c received, in order
  changed      \* somebody subscribed or left during a broadcast

loadVars   == <<emitted, own, noting, late, loads, loading, history>>
serverVars == <<posted, subscribers, sendq, reading, subscription, client, got, changed>>
vars == <<loadVars, serverVars>>

Init ==
  /\ emitted = 0 /\ own = NoOne /\ noting = {} /\ late = {}
  /\ loads = 0 /\ loading = FALSE /\ history = <<>>
  /\ posted = <<>> /\ subscribers = {} /\ sendq = <<>> /\ reading = NoOne
  /\ subscription = [c \in Clients |-> "none"]
  /\ client = [c \in Clients |-> "open"]
  /\ got = [c \in Clients |-> <<>>] /\ changed = FALSE
-----------------------------------------------------------------------------
(* The threads of the server *)

BeginLoad ==
  /\ ~loading /\ loads < MaxLoads
  /\ loading' = TRUE /\ loads' = loads + 1 /\ history' = <<>>
  /\ late' = late \cap noting
  /\ UNCHANGED <<emitted, own, noting, serverVars>>

\* A record or a text passes the daemon's handler, which posts it to the loop ...
Post(e) ==
  /\ e <= MaxEvents
  /\ emitted' = e /\ posted' = Append(posted, e)
  /\ UNCHANGED <<loads, loading, history, subscribers, sendq, reading, subscription,
                 client, got, changed>>

\* ... and then the one of capture_streams, if it is there.  The thread of the
\* script takes one step after the other; any other thread may write to the
\* stream of a load, also when it is over and the thread still has the stream.
Emit ==
  /\ Post(emitted + 1)
  /\ \/ /\ loading /\ own = NoOne
        /\ own' = emitted + 1 /\ UNCHANGED <<noting, late>>
     \/ /\ loads > 0
        /\ noting' = noting \cup {emitted + 1} /\ UNCHANGED own
        /\ late' = IF loading THEN late ELSE late \cup {emitted + 1}
     \/ UNCHANGED <<own, noting, late>>

\* _startup_events.append: every load has the same deque, which is bounded.
Kept(e) == history' = LET all == Append(history, e)
                      IN IF Len(all) > MaxHistory THEN Tail(all) ELSE all

NoteOwn ==
  /\ own # NoOne /\ Kept(own) /\ own' = NoOne
  /\ UNCHANGED <<emitted, noting, late, loads, loading, serverVars>>

\* Events of other threads are noted in any order, and whenever they like.
Note(e) ==
  /\ e \in noting /\ Kept(e) /\ noting' = noting \ {e}
  /\ UNCHANGED <<emitted, own, late, loads, loading, serverVars>>

\* The thread of the script leaves capture_streams and releases the lock; it
\* waits for nobody.
EndLoad ==
  /\ loading /\ own = NoOne
  /\ loading' = FALSE /\ late' = late \cup noting
  /\ UNCHANGED <<emitted, own, noting, loads, history, serverVars>>

\* A failed load, or an unload, clears the history.
Teardown ==
  /\ ~loading /\ history # <<>>
  /\ history' = <<>> /\ late' = late \cap noting
  /\ UNCHANGED <<emitted, own, noting, loads, loading, serverVars>>
-----------------------------------------------------------------------------
(* The event loop *)

\* The loop thread waits for the runner's lock when a task reads the history.
LoopFree == reading = NoOne

\* Fault: whoever asks last gets the lock first.
WaitsFirst(c, todo) == sendq' = <<[client |-> c, todo |-> todo]>> \o sendq

\* A task that sends todo, one message per acquisition of the lock; the task
\* of a new subscriber goes on to the history.
Waits(c, todo) == sendq' = Append(sendq, [client |-> c, todo |-> todo])
Ok == 0

\* An event is on its way to subscribers.
Broadcasting == posted # <<>> \/ \E i \in DOMAIN sendq :
                                   sendq[i].client = NoOne /\ Head(sendq[i].todo).what # Ok

\* Fault: one subscriber only.
FirstRecipient == IF subscribers = {} THEN <<>> ELSE <<CHOOSE c \in subscribers : TRUE>>

\* A copy of the subscribers, in the order Python lists the set.
Recipients == SetToSeq(subscribers)

\* _broadcast_event: one task sends to all of them.
Broadcast ==
  /\ LoopFree /\ posted # <<>>
  /\ posted' = Tail(posted)
  /\ IF subscribers = {}
       THEN UNCHANGED sendq
       ELSE Waits(NoOne, [i \in DOMAIN Recipients |-> [to |-> Recipients[i], what |-> Head(posted)]])
  /\ UNCHANGED <<loadVars, subscribers, reading, subscription, client, got, changed>>

\* SUBSCRIBE_STREAM up to its reply.
Subscribe(c) ==
  /\ LoopFree /\ client[c] # "gone" /\ subscription[c] = "none"
  /\ subscription' = [subscription EXCEPT ![c] = "asked"]
  /\ subscribers' = subscribers \cup {c}
  /\ changed' = (changed \/ Broadcasting)
  /\ Waits(c, <<[to |-> c, what |-> Ok]>>)
  /\ UNCHANGED <<loadVars, posted, reading, client, got>>

\* UNSUBSCRIBE_STREAM and CLOSE up to their reply.
Unsubscribe(c) ==
  /\ LoopFree /\ client[c] # "gone" /\ subscription[c] = "done"
  /\ subscription' = [subscription EXCEPT ![c] = "left"]
  /\ subscribers' = subscribers \ {c}
  /\ changed' = (changed \/ Broadcasting)
  /\ Waits(NoOne, <<[to |-> c, what |-> Ok]>>)
  /\ UNCHANGED <<loadVars, posted, reading, client, got>>

\* What is no event goes to the tracker; what is for nobody, nowhere.
Deliver(m) == got' = IF m.what = Ok \/ client[m.to] = "gone" THEN got
                     ELSE [got EXCEPT ![m.to] = Append(@, m.what)]

Done(c) == subscription' = IF c = NoOne \/ subscription[c] # "asked" THEN subscription
                           ELSE [subscription EXCEPT ![c] = "done"]

\* The task with the lock sends one message, releases the lock and, if it has
\* more to send, queues for it again.
Send ==
  /\ LoopFree /\ sendq # <<>>
  /\ LET task == Head(sendq)
         rest == Tail(task.todo)
     IN /\ Deliver(Head(task.todo))
        /\ sendq' = IF rest = <<>> THEN Tail(sendq)
                    ELSE Append(Tail(sendq), [task EXCEPT !.todo = rest])
        /\ IF Head(task.todo).what = Ok /\ task.client \in Replaying
             THEN reading' = task.client /\ UNCHANGED subscription
             ELSE UNCHANGED reading /\ (IF rest = <<>> THEN Done(task.client)
                                                       ELSE UNCHANGED subscription)
  /\ UNCHANGED <<loadVars, posted, subscribers, client, changed>>

\* Fault: the history is copied without the runner's lock.
NoLock == TRUE

\* startup_events takes the runner's lock, which a load holds to its end.
LockFree == ~loading

\* The task goes on with a copy of the history.
ReadHistory ==
  /\ reading # NoOne /\ LockFree
  /\ reading' = NoOne
  /\ IF history = <<>>
       THEN Done(reading) /\ UNCHANGED sendq
       ELSE /\ Waits(reading, [i \in DOMAIN history |-> [to |-> reading, what |-> history[i]]])
            /\ UNCHANGED subscription
  /\ UNCHANGED <<loadVars, posted, subscribers, client, got, changed>>

\* A client closes or breaks down: close() sends nothing, its identity stays;
\* what was received goes with it.
Leave(c) ==
  /\ client[c] = "open" /\ client' = [client EXCEPT ![c] = "gone"]
  /\ got' = [got EXCEPT ![c] = <<>>]
  /\ UNCHANGED <<loadVars, posted, subscribers, sendq, reading, subscription, changed>>

\* It is started again, not subscribed as far as it knows.
Return(c) ==
  /\ c \in Returning /\ client[c] = "gone" /\ client' = [client EXCEPT ![c] = "back"]
  /\ subscription' = [subscription EXCEPT ![c] = "none"]
  /\ UNCHANGED <<loadVars, posted, subscribers, sendq, reading, got, changed>>

Next == \/ BeginLoad \/ Emit \/ NoteOwn \/ EndLoad \/ Teardown \/ \E e \in noting : Note(e)
        \/ Broadcast \/ Send \/ ReadHistory
        \/ \E c \in Clients : Subscribe(c) \/ Unsubscribe(c) \/ Leave(c) \/ Return(c)

\* The loop goes on and a load ends.
Progress == NoteOwn \/ EndLoad \/ Broadcast \/ Send \/ ReadHistory

Spec == Init /\ [][Next]_vars /\ WF_vars(Progress)
-----------------------------------------------------------------------------
Events == 1..MaxEvents

Received(c) == {got[c][i] : i \in DOMAIN got[c]}

\* A subscriber that asked for the history misses nothing that was noted while
\* its load went on, however the load, its own subscription and the broadcasts
\* overlap: what was broadcast before it was added is in the history it reads.
\* An event that another thread notes too late for that can be missed.
Listening(c) == client[c] # "gone" /\ subscription[c] = "done"
Settled == posted = <<>> /\ sendq = <<>> /\ reading = NoOne
NothingMissed ==
  Settled => \A c \in subscribers \cap Replaying : Listening(c) =>
               ToSet(history) \ late \subseteq Received(c)

\* As long as nobody subscribes or leaves during a broadcast, every subscriber
\* without replay gets the events in the order they were posted, and none twice,
\* although each event has a task of its own that goes back to the queue between two sends.
LiveInOrder ==
  ~changed => \A c \in Clients \ Replaying : \A i, j \in DOMAIN got[c] : i < j => got[c][i] < got[c][j]

\* An event that is posted while a client is subscribed reaches it, unless the
\* client leaves.  The stale identities of other clients change nothing in this.
EventsArrive ==
  \A c \in Clients, e \in Events :
    (c \in subscribers /\ Contains(posted, e)) ~> (e \in Received(c) \/ c \notin subscribers \/ client[c] # "open")

\* The inductive invariant behind the two invariants above.  What the tasks of
\* the daemon have to send: a broadcast sends one event to several clients, the
\* task of a subscriber sends to it only, first the reply, then the history ...
Tasks == [client : Clients \cup {NoOne}, todo : Seq([to : Clients, what : Nat])]
StreamTypes ==
  /\ emitted \in Nat /\ loading \in BOOLEAN
  /\ own \in (1..emitted) \cup {NoOne} /\ noting \subseteq 1..emitted
  /\ ~loading => own = NoOne /\ noting \subseteq late
  /\ posted \in Seq(Nat) /\ history \in Seq(Nat) /\ sendq \in Seq(Tasks)
  /\ subscribers \subseteq Clients /\ IsFiniteSet(subscribers) /\ reading \in Replaying \cup {NoOne}
  /\ subscription \in [Clients -> {"none", "asked", "done", "left"}]
  /\ client \in [Clients -> {"open", "gone", "back"}] /\ got \in [Clients -> Seq(Nat)]
NumberInv ==
  /\ \A i \in DOMAIN posted : posted[i] \in 1..emitted
  /\ \A i \in DOMAIN history : history[i] \in 1..emitted
  /\ \A c \in Clients : \A i \in DOMAIN got[c] : got[c][i] \in 1..emitted

IsBroadcast(task) == task.client = NoOne /\ task.todo[1].what # Ok
Shaped(task) ==
  /\ task.todo # <<>>
  /\ \A j \in DOMAIN task.todo : task.todo[j].what \in 0..emitted
  /\ task.client # NoOne => \A j \in DOMAIN task.todo : task.todo[j].to = task.client
  /\ IsBroadcast(task) => \A j \in DOMAIN task.todo : task.todo[j].what = task.todo[1].what
  /\ ~IsBroadcast(task) /\ task.client \notin Replaying =>
       \A j \in DOMAIN task.todo : task.todo[j].what = Ok
TaskInv == \A i \in DOMAIN sendq : Shaped(sendq[i])

\* ... what a replaying subscriber lacks of the history is on its way to it, or
\* is in the history it is yet to read ...
Carried(c, e) == \E i \in DOMAIN sendq : \E j \in DOMAIN sendq[i].todo :
                    sendq[i].todo[j].to = c /\ sendq[i].todo[j].what = e
WillRead(c) == reading = c \/ \E i \in DOMAIN sendq : sendq[i].client = c /\ sendq[i].todo[1].what = Ok
Provided(c, e) == e \in Received(c) \/ Contains(posted, e) \/ Carried(c, e) \/ WillRead(c)
Noted == (({own} \ {NoOne}) \cup noting) \cup ToSet(history)
MissInv ==
  \A c \in subscribers \cap Replaying : client[c] # "gone" /\ subscription[c] \in {"asked", "done"} =>
    \A e \in Noted \ late : Provided(c, e)

\* ... and broadcasts are begun in the order of their events; each has the same
\* recipients, and never overtakes an earlier one: it has as many left, and more
\* when it is ahead of it in the queue.
InTurn(task) == LET n == Len(Recipients) - Len(task.todo)
                IN n \in Nat /\ \A j \in DOMAIN task.todo : task.todo[j].to = Recipients[n + j]
OrderInv ==
  /\ \A i, j \in DOMAIN posted : i < j => posted[i] < posted[j]
  /\ \A i \in DOMAIN sendq, j \in DOMAIN posted :
       IsBroadcast(sendq[i]) => sendq[i].todo[1].what < posted[j]
Behind(task, next) == task.todo[1].what < next.todo[1].what /\ Len(task.todo) <= Len(next.todo)
TurnInv == ~changed =>
  /\ \A i \in DOMAIN sendq : IsBroadcast(sendq[i]) => InTurn(sendq[i])
  /\ \A i, k \in DOMAIN sendq : i < k /\ IsBroadcast(sendq[i]) /\ IsBroadcast(sendq[k]) =>
       \/ Behind(sendq[i], sendq[k])
       \/ Behind(sendq[k], sendq[i]) /\ Len(sendq[k].todo) # Len(sendq[i].todo)
GotInv == ~changed => \A c \in Clients \ Replaying : \A i \in DOMAIN got[c] :
  /\ \A j \in DOMAIN got[c] : i < j => got[c][i] < got[c][j]
  /\ \A j \in DOMAIN posted : got[c][i] < posted[j]
  /\ \A k \in DOMAIN sendq : \A j \in DOMAIN sendq[k].todo :
       IsBroadcast(sendq[k]) /\ sendq[k].todo[j].to = c => got[c][i] < sendq[k].todo[j].what

StreamInv == StreamTypes /\ NumberInv /\ TaskInv /\ MissInv /\ OrderInv /\ TurnInv /\ GotInv
=============================================================================
