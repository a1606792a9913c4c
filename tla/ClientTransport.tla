--------------------------- MODULE ClientTransport ---------------------------
(***************************************************************************)
(* client/transport.py: a transport shared by the threads that call        *)
(* start() and close(), the threads that call send_request() or cancel a   *)
(* future, and the worker thread with its event loop.  A worker that ends  *)
(* without close() may be replaced by another start(), so workers come in  *)
(* incarnations.  Each action is a stretch of code that no other thread    *)
(* can observe half done; every point where one thread reads what another  *)
(* may write meanwhile is a point between two actions.                     *)
(***************************************************************************)
EXTENDS Naturals, FiniteSets

CONSTANTS Requests,       \* calls of send_request (one thread each)
          Callers,        \* threads that call start() and close()
          MaxId,          \* the id mask, 0x7FFFFFFF in the code
          MaxIncarnation, \* bound: workers started in one behaviour
          MaxCrashes,     \* bound: workers that end without close()
          MaxCancels,     \* bound: cancelled futures above which no owner cancels
          StableIdentity, \* client_id holds '#': the routing id survives a restart
          NoOne           \* Python's None

ASSUME TransportAssumption ==
  /\ MaxId \in Nat \ {0}
  /\ MaxIncarnation \in Nat \ {0}
  /\ MaxCrashes \in Nat /\ MaxCancels \in Nat
  /\ StableIdentity \in BOOLEAN
  /\ NoOne \notin Requests /\ NoOne \notin Callers /\ NoOne \notin Nat
  /\ NoOne \notin [entry : Requests, about : Requests]

Ids == 1..MaxId
Incarnations == 1..MaxIncarnation

VARIABLES
  closed, started, running, \* _closed, _started, _running
  loop,       \* the incarnation _loop and _send_queue belong to, or NoOne
  startup,    \* state of _startup_future
  current,    \* number of the incarnation in _thread, 0 before the first
  lock,       \* the caller that holds _start_lock
  at,         \* at[c]: where caller c is in start() or close()
  stage,      \* stage[w]: where worker w is in _worker / _async_worker
  sendUp, recvUp, \* _send_loop and _recv_loop of the serving worker still turn
  posted,     \* workers with a _cancel_tasks callback posted to their loop
  crashes,
  pending,    \* requests with an entry in _tracker._pending
  nextId,     \* _tracker._next_id
  id,         \* id[r]: the id allocate() gave r, 0 before
  step,       \* step[r]: where the call send_request of r is
  fut,        \* fut[r]: the future of r
  msg,        \* msg[r]: where the message of r, or the reply to it, is
  via,        \* via[r]: the incarnation whose queue holds the message of r, or 0
  hand,       \* the entry _recv_loop popped and has yet to settle
  dropping,   \* cancelled requests whose on_done has yet to call _cancel_request
  drained,    \* close() has run _tracker.close()
  answer,     \* answer[r]: the request the server answered when r was settled
  contested   \* requests that ever had their id together with another one

callerVars  == <<lock, at>>
flagVars    == <<closed, started, running, loop, startup, current, drained>>
workerVars  == <<stage, sendUp, recvUp, posted, crashes>>
trackerVars == <<pending, nextId, id, contested>>
requestVars == <<step, fut, answer, dropping>>
wireVars    == <<msg, via>>
vars == <<callerVars, flagVars, workerVars, trackerVars, requestVars, wireVars, hand>>

Stages == {"unborn", "boot", "connect", "check", "arm", "announce", "serve",
           "cleanup", "unwind", "stop", "clear", "dead"}
Labels == {"idle", "await", "connected", "shut", "reject", "post", "join"}
Steps == {"idle", "checked", "allocated", "sending", "returned", "raised"}
Outcomes == {"none", "open", "answered", "failed", "cancelled"}
MessageStates == {"none", "queued", "sent"}
LoopOpen    == {"connect", "check", "arm", "announce", "serve", "cleanup", "unwind"}
HoldsSocket == {"check", "arm", "announce", "serve", "cleanup"}

Init ==
  /\ closed = FALSE /\ started = FALSE /\ running = FALSE
  /\ loop = NoOne /\ startup = "none" /\ current = 0 /\ drained = FALSE
  /\ lock = NoOne /\ at = [c \in Callers |-> "idle"]
  /\ stage = [w \in Incarnations |-> "unborn"]
  /\ sendUp = FALSE /\ recvUp = FALSE /\ posted = {} /\ crashes = 0
  /\ pending = {} /\ nextId = 1 /\ id = [r \in Requests |-> 0] /\ contested = {}
  /\ step = [r \in Requests |-> "idle"]
  /\ fut = [r \in Requests |-> "none"]
  /\ answer = [r \in Requests |-> NoOne] /\ dropping = {}
  /\ msg = [r \in Requests |-> "none"] /\ via = [r \in Requests |-> 0]
  /\ hand = NoOne
-----------------------------------------------------------------------------
(* RequestTracker *)

\* Fault: a modulus in place of the mask, and no "or 1".
SuccModulo(i) == (i + 1) % MaxId

\* ((i + 1) & 0x7FFFFFFF) or 1
Succ(i) == IF i = MaxId THEN 1 ELSE i + 1

\* How many steps of the search lead from i to j.
Hops(i, j) == IF i <= j THEN j - i ELSE (MaxId - i) + j

UsedIds == {id[r] : r \in pending}

\* What _pending.pop(i) takes out: whichever request holds the id by now.
Holders(i) == {p \in pending : id[p] = i}

\* Fault: allocate() does not look at the ids in use.
FirstUnchecked(i) == i = nextId

\* The id the loop of allocate() stops at; with every id in use it never does.
FirstFree(i) == /\ i \in Ids \ UsedIds
                /\ \A j \in Ids : Hops(nextId, j) < Hops(nextId, i) => j \in UsedIds

\* PendingEntry.reject and try_set_exception leave a future that is done alone.
Failed(S) == [r \in Requests |-> IF r \in S /\ fut[r] = "open" THEN "failed" ELSE fut[r]]

\* RequestTracker.close, one step under the tracker's lock.
TrackerClose == /\ fut' = Failed(pending)
                /\ pending' = {}

\* Nothing of r is under way any more: neither its call, nor its callback, nor
\* its message.  The next owner of its id has nothing to fear from it.
Over(r) == /\ step[r] \in {"returned", "raised"} /\ fut[r] # "open"
           /\ r \notin dropping /\ msg[r] = "none"

\* The requests that still use the id i when it is given to r, though the tracker
\* does not know of them any more.  Those it knows are for allocate() to avoid.
Rivals(r, i) == {s \in Requests \ (pending \cup {r}) : id[s] = i /\ ~Over(s)}
-----------------------------------------------------------------------------
(* send_request and cancellation, one thread per request *)

Ready == ~closed /\ started /\ running

\* The three checks at the top of send_request.
Check(r) ==
  /\ step[r] = "idle"
  /\ IF Ready
       THEN step' = [step EXCEPT ![r] = "checked"] /\ UNCHANGED fut
       ELSE /\ step' = [step EXCEPT ![r] = "returned"]
            /\ fut' = [fut EXCEPT ![r] = "failed"]
  /\ UNCHANGED <<callerVars, flagVars, workerVars, trackerVars, answer, dropping, wireVars, hand>>

\* _tracker.allocate and add_done_callback; on_done of a future that was
\* cancelled between the two is a CancelRequest of its own in either order.
Allocate(r) ==
  /\ step[r] = "checked"
  /\ \E i \in Ids :
       /\ FirstFree(i)
       /\ id' = [id EXCEPT ![r] = i]
       /\ nextId' = Succ(i)
       /\ contested' = IF Rivals(r, i) = {} THEN contested
                       ELSE contested \cup Rivals(r, i) \cup {r}
  /\ pending' = pending \cup {r}
  /\ fut' = [fut EXCEPT ![r] = "open"]
  /\ step' = [step EXCEPT ![r] = "allocated"]
  /\ UNCHANGED <<callerVars, flagVars, workerVars, answer, dropping, wireVars, hand>>

\* Fault: the entry is popped and the future forgotten.
SendFailsSilently(r) == /\ pending' = pending \ Holders(id[r])
                        /\ step' = [step EXCEPT ![r] = "returned"]
                        /\ UNCHANGED <<fut, nextId, id, contested, answer, dropping>>

\* A TransportError of _send_message: whatever entry has the id is popped, and
\* the future of this call rejected.
SendFails(r) == /\ pending' = pending \ Holders(id[r])
                /\ fut' = Failed({r})
                /\ step' = [step EXCEPT ![r] = "returned"]
                /\ UNCHANGED <<nextId, id, contested, answer, dropping>>

\* Fault: _send_message relies on the checks of send_request.
RecheckLoopOnly(r) ==
  /\ step[r] = "allocated"
  /\ IF loop # NoOne
       THEN /\ step' = [step EXCEPT ![r] = "sending"]
            /\ UNCHANGED <<trackerVars, fut, answer, dropping>>
       ELSE SendFails(r)
  /\ UNCHANGED <<callerVars, flagVars, workerVars, wireVars, hand>>

\* The checks of _send_message.
Recheck(r) ==
  /\ step[r] = "allocated"
  /\ IF Ready /\ loop # NoOne
       THEN /\ step' = [step EXCEPT ![r] = "sending"]
            /\ UNCHANGED <<trackerVars, fut, answer, dropping>>
       ELSE SendFails(r)
  /\ UNCHANGED <<callerVars, flagVars, workerVars, wireVars, hand>>

\* call_soon_threadsafe on whatever _loop is by now: a closed loop raises the
\* RuntimeError the code expects, None an AttributeError it does not.
HandOver(r) ==
  /\ step[r] = "sending"
  /\ \/ /\ loop = NoOne
        /\ step' = [step EXCEPT ![r] = "raised"]
        /\ UNCHANGED <<trackerVars, fut, answer, dropping, wireVars>>
     \/ /\ loop # NoOne /\ stage[loop] \notin LoopOpen
        /\ SendFails(r)
        /\ UNCHANGED wireVars
     \/ /\ loop # NoOne /\ stage[loop] \in LoopOpen
        /\ msg' = [msg EXCEPT ![r] = "queued"]
        /\ via' = [via EXCEPT ![r] = loop]
        /\ step' = [step EXCEPT ![r] = "returned"]
        /\ UNCHANGED <<trackerVars, fut, answer, dropping>>
  /\ UNCHANGED <<callerVars, flagVars, workerVars, hand>>

\* The owner of an open future cancels it; on_done goes on to _cancel_request.
CancelFuture(r) ==
  /\ step[r] = "returned" /\ fut[r] = "open"
  /\ Cardinality({p \in Requests : fut[p] = "cancelled"}) < MaxCancels
  /\ fut' = [fut EXCEPT ![r] = "cancelled"]
  /\ dropping' = dropping \cup {r}
  /\ UNCHANGED <<callerVars, flagVars, workerVars, trackerVars, step, answer, wireVars, hand>>

\* _cancel_request: the entry with this id is popped.  If the id has a new owner
\* it is that one's future which is cancelled, and its on_done has then a pop of
\* its own to do.  The CANCEL_REQUEST that is sent for the entry only stops the
\* server from answering, and any answer here may fail to come.
CancelRequest(r) ==
  /\ r \in dropping
  /\ LET held    == Holders(id[r])
         victims == {p \in held : fut[p] = "open"}
     IN /\ pending' = pending \ held
        /\ fut' = [p \in Requests |-> IF p \in victims THEN "cancelled" ELSE fut[p]]
        /\ dropping' = (dropping \ {r}) \cup victims
  /\ UNCHANGED <<callerVars, flagVars, workerVars, nextId, id, contested, step, answer,
                 wireVars, hand>>
-----------------------------------------------------------------------------
(* start() and close() *)

Release(c) == /\ lock' = NoOne
              /\ at' = [at EXCEPT ![c] = "idle"]

Goto(c, label) == at' = [at EXCEPT ![c] = label] /\ UNCHANGED lock

\* Fault: start() does not see that a worker is running.
StartAnother(c) ==
  /\ at[c] = "idle" /\ lock = NoOne /\ ~closed /\ current < MaxIncarnation
  /\ lock' = c /\ at' = [at EXCEPT ![c] = "await"]
  /\ current' = current + 1 /\ startup' = "pending"
  /\ stage' = [stage EXCEPT ![current + 1] = "boot"]
  /\ UNCHANGED <<closed, started, running, loop, drained, sendUp, recvUp, posted, crashes,
                 trackerVars, requestVars, wireVars, hand>>

\* start() of a transport that is neither closed nor running, and
\* _start_worker_thread up to the wait.
StartWorker(c) ==
  /\ at[c] = "idle" /\ lock = NoOne
  /\ ~closed /\ (~started \/ ~running)
  /\ current < MaxIncarnation
  /\ lock' = c /\ at' = [at EXCEPT ![c] = "await"]
  /\ current' = current + 1
  /\ startup' = "pending"
  /\ stage' = [stage EXCEPT ![current + 1] = "boot"]
  /\ UNCHANGED <<closed, started, running, loop, drained, sendUp, recvUp, posted, crashes,
                 trackerVars, requestVars, wireVars, hand>>

\* The startup future holds a result.
StartSucceeds(c) ==
  /\ at[c] = "await" /\ startup = "set"
  /\ started' = TRUE
  /\ Goto(c, "connected")
  /\ UNCHANGED <<closed, running, loop, startup, current, drained,
                 workerVars, trackerVars, requestVars, wireVars, hand>>

\* start() returns (its own subscribe request is one more of Requests).
StartReturns(c) ==
  /\ at[c] = "connected"
  /\ Release(c)
  /\ UNCHANGED <<flagVars, workerVars, trackerVars, requestVars, wireVars, hand>>

\* The wait timed out, or the worker failed: start() calls close() and raises.
StartFails(c) ==
  /\ at[c] = "await" /\ startup \in {"pending", "failed"}
  /\ Goto(c, "shut")
  /\ UNCHANGED <<flagVars, workerVars, trackerVars, requestVars, wireVars, hand>>

\* close() up to the flags; it ends here if nothing was ever started.
CloseEnter(c) ==
  /\ ~closed
  /\ \/ at[c] = "idle" /\ lock = NoOne
     \/ at[c] = "shut"
  /\ closed' = TRUE /\ running' = FALSE
  /\ IF ~started /\ current = 0
       THEN Release(c)
       ELSE lock' = c /\ at' = [at EXCEPT ![c] = "reject"]
  /\ UNCHANGED <<started, loop, startup, current, drained,
                 workerVars, trackerVars, requestVars, wireVars, hand>>

\* The startup future is cancelled and every pending request rejected.
CloseRejects(c) ==
  /\ at[c] = "reject"
  /\ startup' = IF startup = "pending" THEN "cancelled" ELSE startup
  /\ TrackerClose
  /\ drained' = TRUE
  /\ Goto(c, "post")
  /\ UNCHANGED <<closed, started, running, loop, current, workerVars,
                 nextId, id, contested, step, answer, dropping, wireVars, hand>>

\* _cancel_tasks is posted to the loop in _loop, if that loop runs.
ClosePosts(c) ==
  /\ at[c] = "post"
  /\ posted' = IF loop # NoOne /\ stage[loop] \in LoopOpen
                 THEN posted \cup {loop} ELSE posted
  /\ Goto(c, "join")
  /\ UNCHANGED <<flagVars, stage, sendUp, recvUp, crashes,
                 trackerVars, requestVars, wireVars, hand>>

\* The join ends with the thread or with its timeout.
CloseReturns(c) ==
  /\ at[c] = "join"
  /\ Release(c)
  /\ UNCHANGED <<flagVars, workerVars, trackerVars, requestVars, wireVars, hand>>
-----------------------------------------------------------------------------
(* The worker thread *)

Advance(w, from, to) == stage[w] = from /\ stage' = [stage EXCEPT ![w] = to]

\* try_set_exception on the startup future
StartupFails == startup' = IF startup = "pending" THEN "failed" ELSE startup

\* asyncio.run cannot set up an event loop: nothing of _async_worker runs.
BootFails(w) ==
  /\ Advance(w, "boot", "stop")
  /\ StartupFails
  /\ UNCHANGED <<callerVars, closed, started, running, loop, current, drained,
                 sendUp, recvUp, posted, crashes, trackerVars, requestVars, wireVars, hand>>

\* _loop and _send_queue are published.
EnterLoop(w) ==
  /\ Advance(w, "boot", "connect")
  /\ loop' = w
  /\ UNCHANGED <<callerVars, closed, started, running, startup, current, drained,
                 sendUp, recvUp, posted, crashes, trackerVars, requestVars, wireVars, hand>>

Connect(w) ==
  /\ Advance(w, "connect", "check")
  /\ UNCHANGED <<callerVars, flagVars, sendUp, recvUp, posted, crashes,
                 trackerVars, requestVars, wireVars, hand>>

ConnectFails(w) ==
  /\ Advance(w, "connect", "cleanup")
  /\ StartupFails
  /\ UNCHANGED <<callerVars, closed, started, running, loop, current, drained,
                 sendUp, recvUp, posted, crashes, trackerVars, requestVars, wireVars, hand>>

\* Fault: the worker does not look whether start() still waits for it.
ArmAnyway(w) ==
  /\ Advance(w, "check", "arm")
  /\ UNCHANGED <<callerVars, flagVars, sendUp, recvUp, posted, crashes,
                 trackerVars, requestVars, wireVars, hand>>

\* start() may have given up on this worker.
CheckStartup(w) ==
  /\ \/ startup = "pending" /\ Advance(w, "check", "arm")
     \/ startup # "pending" /\ Advance(w, "check", "cleanup")
  /\ UNCHANGED <<callerVars, flagVars, sendUp, recvUp, posted, crashes,
                 trackerVars, requestVars, wireVars, hand>>

SetRunning(w) ==
  /\ Advance(w, "arm", "announce")
  /\ running' = TRUE
  /\ UNCHANGED <<callerVars, closed, started, loop, startup, current, drained,
                 sendUp, recvUp, posted, crashes, trackerVars, requestVars, wireVars, hand>>

\* try_set_result on the startup future; the two loops are created.
Announce(w) ==
  /\ Advance(w, "announce", "serve")
  /\ startup' = IF startup = "pending" THEN "set" ELSE startup
  /\ sendUp' = TRUE /\ recvUp' = TRUE
  /\ UNCHANGED <<callerVars, closed, started, running, loop, current, drained,
                 posted, crashes, trackerVars, requestVars, wireVars, hand>>

\* One turn of _send_loop: what it takes once _running is gone is dropped.
SendLoop(w, r) ==
  /\ stage[w] = "serve" /\ sendUp
  /\ msg[r] = "queued" /\ via[r] = w
  /\ msg' = [msg EXCEPT ![r] = IF running THEN "sent" ELSE "none"]
  /\ via' = [via EXCEPT ![r] = 0]
  /\ sendUp' = running
  /\ UNCHANGED <<callerVars, flagVars, stage, recvUp, posted, crashes,
                 trackerVars, requestVars, hand>>

\* One turn of _recv_loop up to _pending.pop: a reply to q, which carries the
\* id of q.  Replies come in any order; a request or its reply may be lost.
Receive(w, q) ==
  /\ stage[w] = "serve" /\ recvUp /\ hand = NoOne
  /\ msg[q] = "sent"
  /\ recvUp' = running
  /\ msg' = [msg EXCEPT ![q] = "none"]
  /\ LET match == {p \in pending : id[p] = id[q]}
     IN IF running /\ match # {}
          THEN /\ \E p \in match : hand' = [entry |-> p, about |-> q]
               /\ pending' = pending \ match
          ELSE UNCHANGED <<hand, pending>>
  /\ UNCHANGED <<callerVars, flagVars, stage, sendUp, posted, crashes,
                 nextId, id, contested, requestVars, via>>

\* Fault: a future that is done already is settled again.
ResolveAnyway(w) ==
  /\ stage[w] = "serve" /\ hand # NoOne
  /\ fut' = [fut EXCEPT ![hand.entry] = "answered"]
  /\ answer' = [answer EXCEPT ![hand.entry] = hand.about]
  /\ hand' = NoOne
  /\ UNCHANGED <<callerVars, flagVars, workerVars, trackerVars, step, dropping, wireVars>>

\* PendingEntry.resolve, outside the tracker's lock; a reply that cannot be
\* parsed rejects the future.
Resolve(w) ==
  /\ stage[w] = "serve" /\ hand # NoOne
  /\ LET p == hand.entry
     IN IF fut[p] = "open"
          THEN \/ /\ fut' = [fut EXCEPT ![p] = "answered"]
                  /\ answer' = [answer EXCEPT ![p] = hand.about]
               \/ /\ fut' = [fut EXCEPT ![p] = "failed"]
                  /\ UNCHANGED answer
          ELSE UNCHANGED <<fut, answer>>
  /\ hand' = NoOne
  /\ UNCHANGED <<callerVars, flagVars, workerVars, trackerVars, step, dropping, wireVars>>

\* An error ends _recv_loop; the TaskGroup goes on waiting for _send_loop.
ReceiveBreaks(w) ==
  /\ stage[w] = "serve" /\ recvUp /\ hand = NoOne
  /\ recvUp' = FALSE
  /\ UNCHANGED <<callerVars, flagVars, stage, sendUp, posted, crashes,
                 trackerVars, requestVars, wireVars, hand>>

\* The TaskGroup ends: cancelled by _cancel_tasks, or both loops have ended.
ServeEnds(w) ==
  /\ hand = NoOne
  /\ w \in posted \/ (~sendUp /\ ~recvUp)
  /\ Advance(w, "serve", "cleanup")
  /\ UNCHANGED <<callerVars, flagVars, sendUp, recvUp, posted, crashes,
                 trackerVars, requestVars, wireVars, hand>>

\* The worker ends though nobody closed the transport.
Crash(w) ==
  /\ hand = NoOne /\ crashes < MaxCrashes
  /\ Advance(w, "serve", "cleanup")
  /\ crashes' = crashes + 1
  /\ UNCHANGED <<callerVars, flagVars, sendUp, recvUp, posted,
                 trackerVars, requestVars, wireVars, hand>>

\* _cleanup_resources: pending requests are rejected; with the socket go the
\* messages of this connection, unless the next one has the same identity.
Cleanup(w) ==
  /\ Advance(w, "cleanup", "unwind")
  /\ TrackerClose
  /\ sendUp' = FALSE /\ recvUp' = FALSE
  /\ msg' = [r \in Requests |->
               IF msg[r] = "sent" /\ ~StableIdentity THEN "none" ELSE msg[r]]
  /\ UNCHANGED <<callerVars, flagVars, posted, crashes, nextId, id, contested,
                 step, answer, dropping, via, hand>>

\* asyncio.run closes the loop; what its queue still holds is never sent.
Unwind(w) ==
  /\ Advance(w, "unwind", "stop")
  /\ msg' = [r \in Requests |->
               IF msg[r] = "queued" /\ via[r] = w THEN "none" ELSE msg[r]]
  /\ via' = [r \in Requests |-> IF via[r] = w THEN 0 ELSE via[r]]
  /\ UNCHANGED <<callerVars, flagVars, sendUp, recvUp, posted, crashes,
                 trackerVars, requestVars, hand>>

\* The finally block of _worker, first line ...
StopRunning(w) ==
  /\ Advance(w, "stop", "clear")
  /\ running' = FALSE
  /\ UNCHANGED <<callerVars, closed, started, loop, startup, current, drained,
                 sendUp, recvUp, posted, crashes, trackerVars, requestVars, wireVars, hand>>

\* ... and the other two, whatever _loop refers to by now.
ClearLoop(w) ==
  /\ Advance(w, "clear", "dead")
  /\ loop' = NoOne
  /\ UNCHANGED <<callerVars, closed, started, running, startup, current, drained,
                 sendUp, recvUp, posted, crashes, trackerVars, requestVars, wireVars, hand>>
-----------------------------------------------------------------------------
CallerStep(c) == \/ StartWorker(c) \/ StartSucceeds(c) \/ StartReturns(c) \/ StartFails(c)
                 \/ CloseEnter(c) \/ CloseRejects(c) \/ ClosePosts(c) \/ CloseReturns(c)

RequestStep(r) == \/ Check(r) \/ Allocate(r) \/ Recheck(r) \/ HandOver(r)
                  \/ CancelFuture(r) \/ CancelRequest(r)

WorkerStep(w) == \/ BootFails(w) \/ EnterLoop(w) \/ Connect(w) \/ ConnectFails(w)
                 \/ CheckStartup(w) \/ SetRunning(w) \/ Announce(w)
                 \/ \E r \in Requests : SendLoop(w, r) \/ Receive(w, r)
                 \/ Resolve(w) \/ ReceiveBreaks(w) \/ ServeEnds(w) \/ Crash(w)
                 \/ Cleanup(w) \/ Unwind(w) \/ StopRunning(w) \/ ClearLoop(w)

Next == \/ \E c \in Callers : CallerStep(c)
        \/ \E r \in Requests : RequestStep(r)
        \/ \E w \in Incarnations : WorkerStep(w)

\* A thread that is inside a call or an event loop turn goes on; nobody is
\* obliged to make a call, to cancel, to answer or to crash.
Fairness ==
  /\ \A c \in Callers : WF_vars(\/ StartSucceeds(c) \/ StartReturns(c) \/ StartFails(c)
                                \/ at[c] = "shut" /\ CloseEnter(c)
                                \/ CloseRejects(c) \/ ClosePosts(c) \/ CloseReturns(c))
  /\ \A r \in Requests : WF_vars(Allocate(r) \/ Recheck(r) \/ HandOver(r) \/ CancelRequest(r))
  /\ \A w \in Incarnations :
       WF_vars(\/ BootFails(w) \/ EnterLoop(w) \/ Connect(w) \/ ConnectFails(w)
               \/ CheckStartup(w) \/ SetRunning(w) \/ Announce(w) \/ Resolve(w)
               \/ ServeEnds(w) \/ Cleanup(w) \/ Unwind(w) \/ StopRunning(w) \/ ClearLoop(w))

Spec == Init /\ [][Next]_vars /\ Fairness
-----------------------------------------------------------------------------
FlagTypes == /\ closed \in BOOLEAN /\ started \in BOOLEAN /\ running \in BOOLEAN
             /\ loop \in Incarnations \cup {NoOne} /\ current \in 0..MaxIncarnation
             /\ startup \in {"none", "pending", "set", "failed", "cancelled"}
             /\ drained \in BOOLEAN
CallerTypes == lock \in Callers \cup {NoOne} /\ at \in [Callers -> Labels]
WorkerTypes == /\ stage \in [Incarnations -> Stages]
               /\ sendUp \in BOOLEAN /\ recvUp \in BOOLEAN
               /\ posted \in SUBSET Incarnations /\ crashes \in 0..MaxCrashes
TrackerTypes == /\ pending \in SUBSET Requests /\ nextId \in Ids
                /\ id \in [Requests -> 0..MaxId] /\ contested \in SUBSET Requests
RequestTypes == /\ step \in [Requests -> Steps] /\ fut \in [Requests -> Outcomes]
                /\ answer \in [Requests -> Requests \cup {NoOne}]
                /\ dropping \in SUBSET Requests
WireTypes == /\ msg \in [Requests -> MessageStates]
             /\ via \in [Requests -> 0..MaxIncarnation]
HandType == hand \in [entry : Requests, about : Requests] \cup {NoOne}

TypeOK == /\ FlagTypes /\ CallerTypes /\ WorkerTypes /\ TrackerTypes
          /\ RequestTypes /\ WireTypes /\ HandType

InHand(r) == hand # NoOne /\ hand.entry = r

\* Every future a caller waits on has an entry in the tracker (or is just being
\* resolved): otherwise neither a reply nor close() could ever settle it.  Ids
\* may be used again and again: lost are only requests whose id was given out
\* while they still used it, as a pop by id may take out the wrong one of them.
OpenIsTracked == \A r \in Requests \ contested :
                   fut[r] = "open" => r \in pending \/ InHand(r)

\* A reply settles the request it is the reply to, in spite of cancelled
\* requests, late replies, restarts and ids that are used again, as long as the
\* former owner of its id was done with it.
RightAnswer == \A r \in Requests \ contested : answer[r] \in {NoOne, r}

\* Once close() has rejected the pending requests, every request that is still
\* open belongs to a send_request that will see the transport closed before it
\* returns, or is being resolved: no caller is left waiting, unless its id was
\* contested.
DrainedSettles == drained => \A r \in Requests \ contested :
                    fut[r] = "open" => step[r] = "allocated" \/ InHand(r)

\* Entries are told apart by their ids, and two requests that have the same id
\* are contested, unless one of them was over when the other got it.
EntriesApart == \A p, q \in pending : id[p] = id[q] => p = q
PendingInUse == \A p \in pending : fut[p] = "open" \/ p \in dropping
OneUser == \A r \in Requests \ contested, s \in Requests :
             r # s /\ id[r] = id[s] /\ id[r] # 0 => Over(r) \/ Over(s)

\* What a request without an id and one that is not sent cannot have yet.
NotYet == \A r \in Requests :
            /\ step[r] \in {"idle", "checked"} => id[r] = 0 /\ fut[r] = "none"
            /\ step[r] \in {"allocated", "sending"} => id[r] # 0 /\ msg[r] = "none"
            /\ fut[r] = "none" => id[r] = 0
            /\ id[r] = 0 => /\ r \notin pending /\ r \notin dropping
                            /\ fut[r] # "open" /\ msg[r] = "none"

\* The reply in hand is for its entry, which nobody else can find any more.
HandInv == hand # NoOne => /\ hand.entry \notin pending /\ id[hand.entry] # 0
                           /\ hand.about = hand.entry \/ hand.entry \in contested

\* The inductive invariant behind OpenIsTracked, RightAnswer and DrainedSettles:
\* a pop by the id of one request leaves the entries of all others alone, and
\* what is closed stays closed.
SettleInv == /\ EntriesApart /\ PendingInUse /\ OneUser /\ NotYet /\ HandInv
             /\ \A c \in Callers : at[c] = "reject" => closed
             /\ drained => closed
             /\ OpenIsTracked /\ RightAnswer /\ DrainedSettles

\* A restart never runs next to a worker that still has its socket: _ctx,
\* _socket and the flags are shared by all incarnations.
OneConnection == \A v, w \in Incarnations :
                   stage[v] \in HoldsSocket /\ stage[w] \in HoldsSocket => v = w

\* The one behind OneConnection: only the incarnation in _thread is alive, and
\* as long as nobody closes, _running says whether it is worth a restart.
Resolved == {"serve", "cleanup", "unwind", "stop"}
LockDiscipline == /\ \A c \in Callers : at[c] # "idle" => lock = c
                  /\ \A c \in Callers : at[c] \in {"reject", "post", "join"} => closed
                  /\ \A c \in Callers : at[c] = "connected" => startup = "set" /\ started
                  /\ ~closed /\ lock = NoOne /\ current > 0 => startup = "set" /\ started
OneWorker == /\ \A w \in Incarnations : w > current => stage[w] = "unborn"
             /\ \A w \in Incarnations : w < current => stage[w] \in {"clear", "dead"}
RunningTellsTruth ==
  ~closed /\ current > 0 =>
     /\ stage[current] = "announce" => running
     /\ startup = "set" => IF running THEN stage[current] \in Resolved
                                      ELSE stage[current] \in {"clear", "dead"}
ConnectInv == LockDiscipline /\ OneWorker /\ RunningTellsTruth

\* What the refinement needs besides SettleInv and ConnectInv: the pending
\* requests are rejected by one close().
LifecycleInv == \A c \in Callers : at[c] = "reject" => ~drained

\* close() gets rid of the worker, also of one that start() gave up on while
\* it was connecting.
CloseStopsWorker == drained ~> \A w \in Incarnations : stage[w] \in {"unborn", "dead"}

Lifecycle == INSTANCE RequestLifecycle WITH outcome <- fut, shut <- drained

\* The futures behave as RequestLifecycle promises.
ImplementsLifecycle == Lifecycle!LifecycleSpec
-----------------------------------------------------------------------------
(* What documentation and tests say, and the code does not always do *)

\* "Unexpected worker thread termination causes TransportNotConnectedError": a
\* worker that ends unexpectedly leaves no request of a returned call open.
WorkerExitFailsRequests ==
  (\A w \in Incarnations : stage[w] \in {"unborn", "dead"}) =>
     \A r \in Requests : step[r] = "returned" => fut[r] # "open"
=============================================================================
