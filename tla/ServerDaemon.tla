---------------------------- MODULE ServerDaemon ----------------------------
(***************************************************************************)
(* server/daemon.py and the serve command: one event loop that runs a task *)
(* per received message, the executor threads that compress planes, a      *)
(* graceful stop() and the code that waits for start() to return.  A task  *)
(* gives way only where it awaits, so a state of task[m] is an await.      *)
(*                                                                         *)
(* Once _socket is None no task is left (StoppedIsQuiet below), so the     *)
(* tests for a missing socket in the handlers have no action.  Commands    *)
(* run on the executor and streamed events have modules of their own.      *)
(***************************************************************************)
EXTENDS Naturals, FiniteSets

CONSTANTS
  Quick,      \* messages answered with one reply: PING, GET_STATS, ...
  Frame,      \* GET_FRAME messages
  Cancel,     \* CANCEL_REQUEST messages
  Suspect,    \* messages that may be malformed or unauthorized
  Client,     \* Client[m]: the identity that sent m
  ReqId,      \* ReqId[m]: the id in m
  Target,     \* Target[m]: the id a CANCEL_REQUEST names
  MaxWorkers, \* threads of the executor
  NoOne       \* Python's None

Messages == Quick \cup Frame \cup Cancel
Clients  == {Client[m] : m \in Messages}
Key(m)   == <<Client[m], ReqId[m]>>
Keys     == {Key(m) : m \in Messages} \cup {<<Client[m], Target[m]>> : m \in Cancel}

ASSUME DaemonAssumption ==
  /\ Quick \cap (Frame \cup Cancel) = {} /\ Frame \cap Cancel = {}
  /\ Suspect \subseteq Messages
  /\ MaxWorkers \in Nat \ {0}
  /\ NoOne \notin Messages

VARIABLES
  socket,     \* _socket is there
  running, stopping, \* _running, _stopping
  main,       \* where start() and the code that awaits it are
  stopAt,     \* where stop() is
  stopBy,     \* who runs it: the task that watches for a shutdown, or start()
  gathered,   \* the tasks stop() waits for
  task,       \* task[m]: where the task of m is
  doomed,     \* tasks with a CancelledError on its way to them
  inflight,   \* _inflight_tasks
  lock,       \* the task that holds _send_lock
  outgoing,   \* outgoing[m]: the reply the task of m is to send
  replies,    \* replies[m]: how many replies m got
  job,        \* job[m]: the compression job of m in the executor
  open,       \* rendered frames that have not been closed
  sessions,   \* clients that have a session in the metrics
  activeRequests, \* active_requests of each session
  completed, cancelled \* frame tasks each counter has counted

taskVars    == <<task, doomed, inflight, lock, outgoing, replies>>
stopVars    == <<socket, running, stopping, main, stopAt, stopBy, gathered>>
sessionVars == <<sessions, activeRequests>>
metricsVars == <<sessionVars, completed, cancelled>>
vars == <<taskVars, stopVars, metricsVars, job, open>>

Init ==
  /\ socket = TRUE /\ running = TRUE /\ stopping = FALSE
  /\ main = "receiving" /\ stopAt = "idle" /\ stopBy = "none" /\ gathered = {}
  /\ task = [m \in Messages |-> "absent"] /\ doomed = {}
  /\ inflight = [k \in Keys |-> NoOne] /\ lock = NoOne
  /\ outgoing = [m \in Messages |-> "none"] /\ replies = [m \in Messages |-> 0]
  /\ job = [m \in Frame |-> "none"] /\ open = {}
  /\ sessions = {} /\ activeRequests = [c \in Clients |-> 0]
  /\ completed = {} /\ cancelled = {}

Active == {m \in Messages : task[m] \notin {"absent", "done"}}

\* The event loop is stuck inside executor.shutdown(wait=True).
LoopBlocked == stopAt = "drain"

\* The task of m is the next to run, and nothing is to be raised into it.
Resumes(m, place) == task[m] = place /\ m \notin doomed /\ ~LoopBlocked

Refused(m) == outgoing[m] = "refusal"
Registered(m) == ~Refused(m) /\ task[m] \in {"render", "compress", "wait", "send"}
-----------------------------------------------------------------------------
(* _handle_request, _dispatch_request *)

\* The session of a client, if there still is one, loses a request, but never
\* falls below none.
RequestEnds(c) ==
  /\ activeRequests' = [activeRequests EXCEPT ![c] = IF c \notin sessions \/ @ = 0 THEN @ ELSE @ - 1]
  /\ UNCHANGED sessions

\* Fault: the finally block is there for refused messages, too.
FinishUnregistered(m) ==
  /\ task' = [task EXCEPT ![m] = "done"]
  /\ inflight' = [inflight EXCEPT ![Key(m)] = NoOne]
  /\ activeRequests' = [activeRequests EXCEPT ![Client[m]] = @ - 1]
  /\ UNCHANGED sessions

\* Fault: the task stays in _inflight_tasks.
FinishKeepsTask(m) ==
  /\ task' = [task EXCEPT ![m] = "done"]
  /\ UNCHANGED inflight
  /\ IF Refused(m) THEN UNCHANGED sessionVars ELSE RequestEnds(Client[m])

\* The finally block: the session loses a request and the key its task,
\* whichever task it stands for by now.  A refused message has no such block.
Finish(m) ==
  /\ task' = [task EXCEPT ![m] = "done"]
  /\ IF Refused(m)
       THEN UNCHANGED <<inflight, sessionVars>>
       ELSE inflight' = [inflight EXCEPT ![Key(m)] = NoOne] /\ RequestEnds(Client[m])

\* A session is made for a client that has none; its count then starts at 0.
Count(c) == IF c \in sessions THEN activeRequests[c] ELSE 0
RequestBegins(c) == activeRequests' = [activeRequests EXCEPT ![c] = Count(c) + 1]

Register(m) == /\ inflight' = [inflight EXCEPT ![Key(m)] = m]
               /\ sessions' = sessions \cup {Client[m]}
               /\ RequestBegins(Client[m])

\* Fault: active_requests is not looked at.
IdleByTime(c) == TRUE

\* What snapshot() calls stale, but for the hour that must have passed.
Idle(c) == activeRequests[c] = 0

\* The task goes to wait for the send lock.
Reply(m, what) == /\ task' = [task EXCEPT ![m] = "wait"]
                  /\ outgoing' = [outgoing EXCEPT ![m] = what]

\* A malformed or unauthorized message is answered without being registered;
\* one that has no id is dropped.
StartRefused(m) ==
  /\ m \in Suspect /\ Resumes(m, "new")
  /\ \/ Reply(m, "refusal")
     \/ task' = [task EXCEPT ![m] = "done"] /\ outgoing' = [outgoing EXCEPT ![m] = "dropped"]
  /\ UNCHANGED <<doomed, inflight, lock, replies, stopVars, metricsVars, job, open>>

StartQuick(m) ==
  /\ m \in Quick /\ Resumes(m, "new")
  /\ Register(m) /\ Reply(m, "ok")
  /\ UNCHANGED <<doomed, lock, replies, stopVars, completed, cancelled, job, open>>

\* GET_STATS: snapshot() drops sessions that have been idle for an hour, other
\* than the one that asks.  Without an environment nothing is dropped and an
\* error is sent, as in StartQuick; an environment that is disposed of meanwhile
\* raises, and there is no reply.
StartStats(m) ==
  /\ m \in Quick /\ Resumes(m, "new")
  /\ \/ /\ \E stale \in SUBSET {c \in sessions \ {Client[m]} : Idle(c)} :
             sessions' = (sessions \cup {Client[m]}) \ stale
        /\ inflight' = [inflight EXCEPT ![Key(m)] = m]
        /\ RequestBegins(Client[m]) /\ Reply(m, "ok")
     \/ /\ task' = [task EXCEPT ![m] = "done"] /\ outgoing' = [outgoing EXCEPT ![m] = "dropped"]
        /\ inflight' = [inflight EXCEPT ![Key(m)] = NoOne]
        /\ sessions' = sessions \cup {Client[m]}
        /\ activeRequests' = [activeRequests EXCEPT ![Client[m]] = Count(Client[m])]
  /\ UNCHANGED <<doomed, lock, replies, stopVars, completed, cancelled, job, open>>

\* Fault: the task to cancel is popped.
StartCancelPops(m) ==
  /\ m \in Cancel /\ Resumes(m, "new")
  /\ LET victim == inflight[<<Client[m], Target[m]>>]
     IN doomed' = IF victim = NoOne THEN doomed ELSE doomed \cup {victim}
  /\ inflight' = [inflight EXCEPT ![<<Client[m], Target[m]>>] = NoOne]
  /\ task' = [task EXCEPT ![m] = "done"]
  /\ UNCHANGED <<lock, outgoing, replies, stopVars, metricsVars, job, open>>

\* CANCEL_REQUEST: the whole handler runs without an await.  It takes its own
\* key and gives it back.
StartCancel(m) ==
  /\ m \in Cancel /\ Resumes(m, "new")
  /\ LET registry == [inflight EXCEPT ![Key(m)] = m]
         victim   == registry[<<Client[m], Target[m]>>]
     IN /\ doomed' = IF victim \in {NoOne, m} THEN doomed ELSE doomed \cup {victim}
        /\ inflight' = [registry EXCEPT ![Key(m)] = NoOne]
  /\ task' = [task EXCEPT ![m] = "done"]
  /\ sessions' = sessions \cup {Client[m]}
  /\ activeRequests' = [activeRequests EXCEPT ![Client[m]] = Count(Client[m])]
  /\ UNCHANGED <<lock, outgoing, replies, stopVars, completed, cancelled, job, open>>

\* GET_FRAME up to the first await: a bad payload, a missing output and a failure
\* to ask for the frame are answered at once.  The counters of frame requests and
\* of failures only grow and are left out.
StartFrame(m) ==
  /\ m \in Frame /\ Resumes(m, "new")
  /\ Register(m)
  /\ \/ Reply(m, "error")
     \/ task' = [task EXCEPT ![m] = "render"] /\ UNCHANGED outgoing
  /\ UNCHANGED <<doomed, lock, replies, stopVars, completed, cancelled, job, open>>

\* The frame is there: it stays open until the "with" block is left.
Rendered(m) ==
  /\ m \in Frame /\ Resumes(m, "render")
  /\ task' = [task EXCEPT ![m] = "compress"]
  /\ open' = open \cup {m}
  /\ job' = [job EXCEPT ![m] = "queued"]
  /\ UNCHANGED <<doomed, inflight, lock, outgoing, replies, stopVars, metricsVars>>

\* Rendering, or later the compression, raises: an error header is sent.
FrameFails(m) ==
  /\ m \in Frame /\ m \notin doomed /\ ~LoopBlocked
  /\ \/ task[m] = "render"
     \/ task[m] = "compress" /\ job[m] = "finished"
  /\ Reply(m, "error")
  /\ open' = open \ {m}
  /\ UNCHANGED <<doomed, inflight, lock, replies, stopVars, sessionVars, completed, cancelled, job>>

\* Fault: the planes are handed to the executor, not awaited.
CompressedUnawaited(m) ==
  /\ m \in Frame /\ Resumes(m, "compress")
  /\ Reply(m, "ok")
  /\ completed' = completed \cup {m}
  /\ UNCHANGED <<doomed, inflight, lock, replies, stopVars, sessionVars, cancelled, job, open>>

\* The frame is counted as completed before its reply is sent.
Compressed(m) ==
  /\ m \in Frame /\ Resumes(m, "compress") /\ job[m] = "finished"
  /\ Reply(m, "ok")
  /\ completed' = completed \cup {m}
  /\ UNCHANGED <<doomed, inflight, lock, replies, stopVars, sessionVars, cancelled, job, open>>

\* async with self._send_lock
AcquireLock(m) ==
  /\ Resumes(m, "wait") /\ lock = NoOne
  /\ lock' = m
  /\ task' = [task EXCEPT ![m] = "send"]
  /\ UNCHANGED <<doomed, inflight, outgoing, replies, stopVars, metricsVars, job, open>>

\* Fault: after NOT_FOUND has been sent the handler goes on.
SentGoesOn(m) ==
  /\ Resumes(m, "send")
  /\ replies' = [replies EXCEPT ![m] = @ + 1]
  /\ lock' = NoOne
  /\ IF m \in Frame /\ outgoing[m] = "error" /\ replies[m] = 0
       THEN task' = [task EXCEPT ![m] = "render"] /\ UNCHANGED <<open, inflight, sessionVars>>
       ELSE open' = open \ {m} /\ Finish(m)
  /\ UNCHANGED <<doomed, outgoing, stopVars, completed, cancelled, job>>

\* send_multipart is done; lock, frame and registration are given back.
Sent(m) ==
  /\ Resumes(m, "send")
  /\ replies' = [replies EXCEPT ![m] = @ + 1]
  /\ lock' = NoOne
  /\ open' = open \ {m}
  /\ Finish(m)
  /\ UNCHANGED <<doomed, outgoing, stopVars, completed, cancelled, job>>

\* Fault: acquire() and release() without a finally.
CancelledKeepsLock(m) ==
  /\ m \in doomed /\ m \in Active /\ ~LoopBlocked
  /\ doomed' = doomed \ {m} /\ open' = open \ {m}
  /\ IF task[m] = "new"
       THEN task' = [task EXCEPT ![m] = "done"] /\ UNCHANGED <<inflight, sessionVars>>
       ELSE Finish(m)
  /\ UNCHANGED <<lock, outgoing, replies, stopVars, job, completed,
                 cancelled>>

\* CancelledError is raised at the await of the task.  A task that never ran
\* leaves no trace; a frame task counts the cancellation, unless it is sending
\* an error; a send may already have got through.
Cancelled(m) ==
  /\ m \in doomed /\ m \in Active /\ ~LoopBlocked
  /\ doomed' = doomed \ {m}
  /\ IF task[m] = "new"
       THEN task' = [task EXCEPT ![m] = "done"] /\ UNCHANGED <<inflight, sessionVars>>
       ELSE Finish(m)
  /\ cancelled' = IF m \in Frame /\ task[m] # "new" /\ outgoing[m] \notin {"error", "refusal"}
                    THEN cancelled \cup {m} ELSE cancelled
  /\ open' = open \ {m}
  /\ job' = IF m \in Frame /\ job[m] = "queued" THEN [job EXCEPT ![m] = "dropped"] ELSE job
  /\ lock' = IF lock = m THEN NoOne ELSE lock
  /\ \/ UNCHANGED replies
     \/ task[m] = "send" /\ replies' = [replies EXCEPT ![m] = @ + 1]
  /\ UNCHANGED <<outgoing, stopVars, completed>>
-----------------------------------------------------------------------------
(* The executor *)

JobStarts(m) ==
  /\ job[m] = "queued"
  /\ Cardinality({f \in Frame : job[f] = "running"}) < MaxWorkers
  /\ job' = [job EXCEPT ![m] = "running"]
  /\ UNCHANGED <<taskVars, stopVars, metricsVars, open>>

JobEnds(m) ==
  /\ job[m] = "running"
  /\ job' = [job EXCEPT ![m] = "finished"]
  /\ UNCHANGED <<taskVars, stopVars, metricsVars, open>>
-----------------------------------------------------------------------------
(* start(), stop() and the serve command *)

DropQueued == job' = [m \in Frame |-> IF job[m] = "queued" THEN "dropped" ELSE job[m]]

\* start() is left while somebody else runs stop(): its own call returns at
\* once, and serve cancels the watcher, in the middle of stop() if that is
\* where it is.  There is no await in between.
LeaveStart == /\ main' = "unwinding"
              /\ stopAt' = IF stopAt = "gather" THEN "aborted" ELSE stopAt

\* The main loop takes a message, starts its task and only then looks at
\* _running again.
Receive(m) ==
  /\ main = "receiving" /\ socket /\ ~LoopBlocked
  /\ task[m] = "absent"
  /\ task' = [task EXCEPT ![m] = "new"]
  /\ IF running THEN UNCHANGED <<main, stopAt>> ELSE LeaveStart
  /\ UNCHANGED <<doomed, inflight, lock, outgoing, replies, socket, running, stopping,
                 stopBy, gathered, metricsVars, job, open>>

\* stop() up to its first await; with no task there is none, and the socket is
\* closed at once.
BeginStop(who) ==
  /\ ~stopping
  /\ stopping' = TRUE /\ running' = FALSE /\ stopBy' = who
  /\ doomed' = doomed \cup Active
  /\ gathered' = Active
  /\ IF Active = {} THEN stopAt' = "drain" /\ socket' = FALSE /\ DropQueued
                    ELSE stopAt' = "gather" /\ UNCHANGED <<socket, job>>
  /\ UNCHANGED <<task, inflight, lock, outgoing, replies, metricsVars, open>>

\* A signal or the stop event: watch_shutdown calls stop().
Shutdown == main = "receiving" /\ BeginStop("watcher") /\ UNCHANGED main

\* recv_multipart fails, in any case once the socket is closed.
ReceiveFails ==
  /\ main = "receiving" /\ ~LoopBlocked
  /\ \/ BeginStop("start") /\ main' = "leaving"
     \/ /\ stopping /\ LeaveStart
        /\ UNCHANGED <<taskVars, socket, running, stopping, stopBy, gathered,
                       metricsVars, job, open>>

\* Fault: the tasks are cancelled, not awaited.
CloseSocketAtOnce ==
  /\ stopAt = "gather"
  /\ stopAt' = "drain" /\ socket' = FALSE /\ DropQueued
  /\ UNCHANGED <<taskVars, running, stopping, main, stopBy, gathered, metricsVars, open>>

\* All gathered tasks have ended: socket and context go, and the loop blocks
\* until the jobs that run have ended.
CloseSocket ==
  /\ stopAt = "gather" /\ gathered \cap Active = {}
  /\ stopAt' = "drain" /\ socket' = FALSE /\ DropQueued
  /\ UNCHANGED <<taskVars, running, stopping, main, stopBy, gathered, metricsVars, open>>

\* executor.shutdown returns, the runner is closed.
StopReturns ==
  /\ stopAt = "drain" /\ \A m \in Frame : job[m] # "running"
  /\ stopAt' = "done"
  /\ main' = IF stopBy = "start" THEN "unwinding" ELSE main
  /\ UNCHANGED <<taskVars, socket, running, stopping, stopBy, gathered, metricsVars, job, open>>

\* serve awaits the watcher, whose gather() ends with its last task; then
\* asyncio.run cancels every task that is left.
RunEnds ==
  /\ main = "unwinding" /\ (stopAt = "aborted" => gathered \cap Active = {})
  /\ main' = "finished"
  /\ doomed' = doomed \cup Active
  /\ UNCHANGED <<task, inflight, lock, outgoing, replies, socket, running, stopping, stopAt,
                 stopBy, gathered, metricsVars, job, open>>
-----------------------------------------------------------------------------
TaskStep(m) == \/ StartRefused(m) \/ StartQuick(m) \/ StartStats(m)
               \/ StartCancel(m) \/ StartFrame(m)
               \/ Rendered(m) \/ FrameFails(m) \/ Compressed(m)
               \/ AcquireLock(m) \/ Sent(m) \/ Cancelled(m)

Next == \/ \E m \in Messages : TaskStep(m) \/ Receive(m)
        \/ \E m \in Frame : JobStarts(m) \/ JobEnds(m)
        \/ ReceiveFails \/ Shutdown \/ CloseSocket \/ StopReturns \/ RunEnds

\* The loop serves its ready tasks, rendering and compression end.  Nothing
\* runs for ever among finitely many messages, so no task needs a fairness of
\* its own, at the send lock neither.
Progress == \/ \E m \in Messages : TaskStep(m)
            \/ \E m \in Frame : JobStarts(m) \/ JobEnds(m)
            \/ ~socket /\ ReceiveFails
            \/ CloseSocket \/ StopReturns \/ RunEnds

Spec == Init /\ [][Next]_vars /\ WF_vars(Progress)
-----------------------------------------------------------------------------
TypeOK ==
  /\ socket \in BOOLEAN /\ running \in BOOLEAN /\ stopping \in BOOLEAN
  /\ main \in {"receiving", "leaving", "unwinding", "finished"}
  /\ stopAt \in {"idle", "gather", "drain", "done", "aborted"}
  /\ stopBy \in {"none", "watcher", "start"}
  /\ gathered \in SUBSET Messages /\ doomed \in SUBSET Messages
  /\ task \in [Messages -> {"absent", "new", "render", "compress", "wait", "send", "done"}]
  /\ inflight \in [Keys -> Messages \cup {NoOne}] /\ lock \in Messages \cup {NoOne}
  /\ outgoing \in [Messages -> {"none", "ok", "error", "refusal", "dropped"}]
  /\ replies \in [Messages -> Nat]
  /\ job \in [Frame -> {"none", "queued", "running", "finished", "dropped"}]
  /\ open \in SUBSET Frame
  /\ sessions \in SUBSET Clients /\ activeRequests \in [Clients -> Nat]
  /\ completed \in SUBSET Frame /\ cancelled \in SUBSET Frame

\* A request gets one reply and no second one, however cancellation, failure
\* and the send meet; only a request that was cancelled, by its client or by
\* stop(), and one whose handler raises are left without.
WasCancelled(m) == \/ stopping
                   \/ \E x \in Cancel : task[x] = "done" /\ Key(m) = <<Client[x], Target[x]>>
Answered ==
  \A m \in Messages :
    /\ replies[m] <= 1
    /\ task[m] = "done" /\ replies[m] = 0 =>
         m \in Cancel \/ outgoing[m] = "dropped" \/ WasCancelled(m)

\* The session counter of a client is the number of its requests in progress,
\* after any mix of replies, failures and cancellations, and no snapshot drops
\* a session that has some: it never drifts.
ServedFor(c) == {m \in Messages : Registered(m) /\ Client[m] = c}
InProgress(c) == Cardinality(ServedFor(c))
ActiveRequestsExact == \A c \in Clients : Count(c) = InProgress(c)

\* CANCEL_REQUEST finds the task of every request in progress whose key no
\* other message has had yet, as often as it is sent.
SharesKey(m) == \E l \in Messages \ {m} : Key(l) = Key(m) /\ task[l] # "absent"
CancelFindsTask ==
  \A m \in Messages : ~SharesKey(m) => (Registered(m) <=> inflight[Key(m)] = m)

FoundIsLive ==
  \A k \in Keys : inflight[k] # NoOne => Registered(inflight[k]) /\ Key(inflight[k]) = k
LockIsHeld == lock # NoOne => task[lock] = "send"

\* What refers to a task refers to one in progress.  Even if a client uses an id
\* again while it is in use, no entry of _inflight_tasks outlives its task and
\* no cancellation goes astray; nobody waits for a send lock that a cancelled
\* task has taken with it.
HeldByLiveTasks == FoundIsLive /\ LockIsHeld

\* After stop() has closed the socket there is no task left to use it, and
\* once it has returned no thread works for the daemon.
StoppedIsQuiet == /\ ~socket => Active = {} /\ lock = NoOne
                  /\ stopAt = "done" => \A m \in Frame : job[m] \notin {"queued", "running"}

\* A frame stays open while a thread reads its planes, but for a request that
\* is cancelled meanwhile: run_in_executor does not wait for the thread then.
OpenWhileCompressed ==
  \A m \in Frame : job[m] = "running" => m \in open \cup cancelled

\* The inductive invariants behind these.  A reply is chosen when the handler
\* comes to it, and sent by the step that ends the task ...
ReplyInv == /\ \A m \in Messages :
                 /\ task[m] \in {"absent", "new", "render", "compress"} => outgoing[m] = "none"
                 /\ task[m] # "done" => replies[m] = 0
            /\ Answered

\* ... a CancelledError is only raised into tasks that somebody cancelled ...
DoomedForCause == \A m \in doomed : WasCancelled(m)

\* ... stop() waits for every task there is: one that starts behind its back
\* also takes it away from where it would close the socket ...
StopInv == /\ running = ~stopping
           /\ ~stopping => stopAt = "idle" /\ main = "receiving"
           /\ socket <=> stopAt \in {"idle", "gather", "aborted"}
           /\ stopAt = "gather" => Active \subseteq gathered
           /\ ~socket => Active = {} /\ \A m \in Frame : job[m] # "queued"
           /\ stopAt = "done" => \A m \in Frame : job[m] # "running"

\* ... a job that has not ended has its task awaiting it, or a cancelled one ...
JobInv == \A m \in Frame : job[m] \in {"queued", "running"} =>
            m \in cancelled \/ (task[m] = "compress" /\ m \in open)

\* ... and a client never has more than finitely many requests in progress.
SessionInv == \A c \in Clients : IsFiniteSet(ServedFor(c)) /\ Count(c) = InProgress(c)

\* Whatever is in progress, all of it ends: nobody waits for ever for the send
\* lock, a thread or a task that was cancelled.
TasksEnd == Active # {} ~> Active = {}
-----------------------------------------------------------------------------
(* What documentation and tests say, and the code does not always do *)

\* "Stop server and clean up active connections and resources": when the
\* server is gone, stop() has run to its end.
ShutdownIsComplete == main = "finished" => stopAt = "done"
=============================================================================
