# Formal models of vs-remote

vs-remote serves the outputs of a VapourSynth script over ZeroMQ: a server runs
scripts and renders frames, a client shows them as local nodes or pipes them to
an encoder. This directory holds TLA+ models of the parts where threads, event
loops and messages meet, configurations that check them with TLC, and theorems
checked by TLAPS. Source paths below are relative to `src/src/vsremote/`.

## 1. Inventory

| Part | State | Operations | What is hard | What makes it right |
|---|---|---|---|---|
| **Client transport** `client/transport.py` | flags `_closed`, `_started`, `_running`; `_loop` and `_send_queue` of the worker; `_start_lock`, `_startup_future`; tracker: pending entries, next id | `start`, `close`, `send_request`, cancelling a future, the worker thread with its send and receive loops, event dispatcher thread | any thread calls any operation; a worker that dies clears fields its successor already uses; late replies; ids that wrap, and pops that go by the id | no future is lost, every reply reaches its request, `close()` leaves nobody waiting and no worker behind |
| **Server daemon** `server/daemon.py`, `serve` in `cli.py` | `_socket`, `_running`, `_stopping`, `_inflight_tasks`, `_send_lock`, executor, counters | one task per message, cancellation, compression on threads, `stop()` | a cancellation reaches a task at any `await`; tasks share keys and a lock; `stop()` waits while messages still come in | counters, registry and lock are given back whatever happens; one reply per message; after `stop()` nothing runs |
| **Script runner** `server/runner.py`, `_dispatch_executor` | `_clips`, `_environment`, `_script`, `_script_path` under an RLock | load code, load script, reload, teardown, reads by handlers | each call locks for itself, so a failed load and its teardown, or two reads, are two steps | outputs never outlive their environment; a failed load leaves nothing; a refused one changes nothing; loads end |
| **Remote node** `create_remote_vnode` in `client/client.py` | `inflight`: prefetched futures, a lock | `fetch_frame` from several threads | pruning for one thread meets futures of another; timeouts; the server loads another script | the next frames are always under way, one owner per request, frames of an earlier script run out |
| **pipe** `pipe` in `cli.py` | `inflight`, position | one loop | position computed from the size of `inflight`; end of clip | every frame once and in order |
| **Stream redirection** `server/redirect.py` | `sys.stdout`, `_target` of each redirector, hook count | `install`, `uninstall`, `write` | threads install and uninstall in any order | text arrives, subscribers and history both get it, the hook goes with its last user |
| **Stream events** `daemon.py`, `runner.py`, `transport.py` | `_subscribers`, `_startup_events`, calls posted to the loop | emit, broadcast, subscribe, replay | a broadcast task per event, a fair lock between messages, history under another lock, threads that write when the load is over, clients that are gone | nothing missed, order kept |
| **Metrics** `server/metrics.py` | counters, sessions, rolling windows | start/end of request and frame, snapshot | a snapshot drops sessions; wall clock | counters never drift |
| **Facade and wire protocol** `RemoteClient` in `client/client.py`, `protocol/messages.py`, `constants.py` | a transport | one method per command, `get_outputs` | a status meets a client that expects another kind of answer; a load between two requests of one call | every call ends, in one of the ways it documents |
| **Codec, keys, exceptions, output API, TUI, command line** | none, or data | pure functions, I/O | – | – |

How they interact. A client thread calls `send_request`, which puts a message
into the queue of the worker's event loop; the worker sends it and resolves the
future when a reply with its id arrives. The server starts a task per message.
Frame tasks render, compress on an executor thread and reply under the send
lock. Load commands run the script on the same executor with the runner's lock
held. While a script runs, redirectors of the daemon and of the load catch
what it prints; the daemon's posts it to the event loop, which broadcasts it,
the load's keeps it for later subscribers. Remote node and pipe only use
`request_frame`.

The hazards this code is exposed to are listed, each at its line and with the
properties that cover it, under `hazards` in `PROJECT.json`.

## 2. Modules and the code they stand for

| Module | Part | Actions |
|---|---|---|
| `RequestLifecycle` | abstract: what `send_request` promises of a future | `Issue`, `Share`, `Refuse`, `Answer`, `Cancel`, `Fail`, `Shut` |
| `ClientTransport` | client transport | callers: `StartWorker` … `CloseReturns`; requests: `Check`, `Allocate`, `Recheck`, `HandOver`, `CancelFuture`, `CancelRequest`; worker: `EnterLoop` … `ClearLoop`, `Receive`, `Resolve`, `Crash` |
| `ServerDaemon` | daemon, `serve`, sessions of the metrics | one action per stretch between two awaits of a task, `StartStats` with the snapshot; executor jobs; `Receive`, `Shutdown`, `CloseSocket`, `StopReturns`, `RunEnds` |
| `ScriptRunner` | runner and load commands | steps of the command's task, of the executor thread, of a frame request, of `stop()` |
| `RemoteCalls` | extends it by the client's methods, the wire protocol and all other handlers that read the runner | client: `Send`, `Receive`, `TimesOut`, `CancelCall`, `TransportFails`; server: `LoadRefusedAtOnce`, `LoadAccepted`, `Cancels`, `QueryHandled`, `FrameHandled`, `FrameAnswered`, `LoadStep` |
| `EventStream` | subscriptions, broadcasts, history | threads: `BeginLoad`, `Emit`, `NoteOwn`, `Note`, `EndLoad`, `Teardown`; loop: `Broadcast`, `Subscribe`, `Unsubscribe`, `Send`, `ReadHistory`; clients: `Leave`, `Return` |
| `StreamRedirect` | redirectors and logging hook | `Look`, `Put`, `Hook`, `Restore`, `Unhook`, one per line |
| `FrameProxy` | remote node | `Fetch`, `FetchRaises`, `Settle`, `Returns`, `TimesOut` |
| `RemoteSession` | extends it by the loads of the server it plays from | `LoadEnds`, `Fetches` |
| `FramePipe` | pipe | `Fill`, `Take`, `Write`, `Abort`, `End`, `Settle` |
| `MCClientTransport`, `MCServerDaemon`, `MCRemoteSession` | symmetry sets and message tables for TLC | |
| `ClientTransportProofs`, `ServerDaemonProofs`, `ScriptRunnerProofs`, `RemoteCallsProofs`, `EventStreamProofs`, `StreamRedirectProofs`, `RemoteSessionProofs`, `FramePipeProofs` | the theorems about these modules and their proofs; `RemoteSessionProofs` covers `FrameProxy` too | |

Granularity. For threads an action is a stretch of code that no other thread
can observe half done: a critical section, or the code between two accesses of
a field another thread writes. For an event loop it is the code between two
awaits. A thread waiting for a lock is a disabled action.

`map` in `PROJECT.json` names the lines of each definition. Definitions marked
"Fault:" are mutations, unused in the specifications: each replaces one
definition by a plausible mistake, and a property is worth keeping only if TLC
finds one of them violating it.

### The transport

`stage[w]` follows worker `w` through `_worker` and `_async_worker`: event loop
set up, socket connected, startup future checked and set, serving, cleanup, and
then the assignments `_running = False`, `_loop = None` one by one, because
other threads test them one by one. `step[r]` does the same for a call of
`send_request`: checked the flags, allocated an entry, tested the flags again,
handed over. `fut`, `pending` and `id` are the future, the tracker and the id.
Messages are lost, delayed and answered in any order; a reply may come after
its request was cancelled and, with a `client_id` that holds `#`, after a
restart, because the server still routes it to the same identity.

A send that fails and a cancellation pop *by id*: `Holders(i)` is whichever
request has the entry by now, and a cancellation of it cancels that request,
whose own `on_done` then pops as well (`dropping`). The ghost `contested` holds
the requests whose id was ever given to another one, or who were given one, when
the tracker had lost the entry (drained, or answered) but the former request was
not yet `Over`: call returned, future settled, callback done and no message or reply on
its way. An id that is still in the tracker is no excuse: `allocate_request_id` skips
it, and a search that gave it out would break `RightAnswer`. Only contested requests can lose an entry, a future or an
answer to each other, and the properties exclude them and nobody else.

`RequestLifecycle` forgets all of this but the outcome of each future and which
requests had to share an id (`Share`), and the transport implements it with
`outcome <- fut, shut <- drained`. After `Shut` it promises an end to every
future that is not contested.

### The daemon

`task[m]` is the await the task of message `m` is at. `doomed` holds tasks
with a `CancelledError` on its way; `Cancelled` raises it at the await,
wherever that is, with everything the `finally` and `with` blocks do. Executor
threads have `job[m]`. `main`, `stopAt` and `stopBy` are the code that awaits
`start()`, the progress of `stop()` and who runs it: the shutdown watcher of
`serve`, which `serve` cancels once `start()` has returned, or `start()` itself.
A client has a session in the metrics (`sessions`, `activeRequests`), which GET_STATS
of another client may drop; the hour it must have been idle for may have passed
or not. One message may ask for statistics or for anything else that is answered
at once.

### The runner

Outputs (`clips`), environment (`env`) and script are known by the load they
come from. `holder` is the load that has the lock while its script runs; all
other critical sections are single actions, which only need the lock to be
free. A frame request reads the clip and then the environment on the event
loop's own thread, so between the two no other handler runs (`LoopFree`), yet
an executor thread may. A failed load is torn down by a second job, as in
`_dispatch_executor`. A refused command (no such file, nothing to reload) is
torn down in the same way, so it empties a runner it never touched; that is
what the code does, and nothing in the documentation says otherwise.

### Calls from end to end

`RemoteCalls` extends the runner on both sides. `kind[g]` is the method a caller
uses, `call[c]` where the call is on the client and `answer[c]` what the server
made of it; a load has its task and job instead. Between the two a call is
refused, rejected while it waits, delivered, or ended by the `AttributeError` that
leaves `send_request`: what `ClientTransport` shows of a future is not repeated.
`shown[g]` are the outputs that `get_outputs` was told of before it asks for each
of them. A status is turned into a result or an exception as
`raise_for_status`, the wrappers with `.catch` and `parse_frame_response` do it.
`Documented(c)` is the list of outcomes in the docstring of the method, and
`Undocumented(c)` the three that are in none, each with what must have happened:
`AttributeError` (the worker ended during the send, and the server has nothing of the
call), `RemoteNotFoundError` of `get_outputs` (a load has replaced what was listed,
`Outdated`) and `ValidationError` (a refused frame). `OutcomesExplained` says that
client, server, executor and the loads of other clients bring about no other end.
`OutcomeTellsWhetherRun` asks what a caller may conclude: after `NOT_FOUND`,
`PERMISSION_DENIED`, `UNAUTHORIZED` or `AttributeError` the script has not been run,
even if it raised `FileNotFoundError` itself, and will not be.

### Events

A thread that emits first posts the event to the loop (`Post`) and then, if a load
captures, notes it in the history, which keeps the last `MaxHistory` events. Which
thread it is matters. The thread of the script does one thing after the other, so
its event (`own`) is noted before the load ends. Any other thread, one the script has
started for example, may write to the stream of a load at any time and be held up
between the two (`noting`): the load waits for nobody, and an event may be noted when the lock
has been released and the history read. The ghost `late` holds the events that
are not noted during the load in which they were posted. A subscriber can miss
those; `NothingMissed` is about all the others.
`sendq` is the queue of the send lock: asyncio hands it on first come, first
served, and a task that has more to send queues again after each message. A
client that closes sends nothing, so its identity stays in `_subscribers`; one
that comes back under it (a `client_id` with `#`) is sent events before it has
subscribed again, and loses none of those it has asked for. What it had received
before it left goes with it. `Recipients` is the set
`_subscribers` in the order in which iterating it yields it, the same for every
broadcast as long as the set does not change.

### Redirection

Each redirector has the `target` it found in `sys.stdout`. `Dispatches`, those that a
text written to `sys.stdout` passes, is the least set that holds `sys.stdout` and is
closed under `target`, and `TextArrives` says that no set of redirectors hands the
text round in a circle; neither needs recursion.

### Remote node and pipe

Both are about *which* requests are made: `inflight` maps frames to futures in
`FrameProxy` and is a set of frames in `FramePipe`. The node's ghost `given`
holds futures that a timeout, or a request that raised, has left to nobody,
`sought` says that somebody has asked out of order. `RemoteSession` gives each
request the script it meets on the server: the daemon takes requests up in the
order in which they were sent, so a load divides them into earlier and later
ones (`served`).

## 3. Runs

| Run | Instance | What it shows |
|---|---|---|
| `MCTransportSafety` | 3 requests, 2 callers, ids 1..2, 2 workers, 1 crash, 1 cancellation by an owner, stable identity | no future dropped, no wrong reply, nobody left waiting by `close()`, one connection |
| `MCTransportLifecycle` | 2 requests, 2 callers, one id, 1 worker, 1 crash, any cancellations | the transport implements `RequestLifecycle` with its liveness; `close()` ends the worker |
| `MCTransportOrphan` | violation | see findings |
| `MCDaemonTasks` | 2 frames of two clients, 1 cancellation, 1 quick request that uses the key of a frame again and may be malformed, 1 thread | replies, counters, registry, lock, frames and shutdown; every task ends |
| `MCDaemonShutdown` | violation | see findings |
| `MCCalls` | one load of code, a reload, one call of `ping`, `get_stats`, `get_outputs` or `request_frame`, 2 threads | what loads leave behind; how calls end, that they end, and what their outcome says |
| `MCCallsUnauthorized` | violation | see findings |
| `MCRunnerLateTeardown` | violation | see findings |
| `MCEvents` | 2 events, 1 load, 2 clients, one with replay that may leave and return, history of 1 | nothing missed but late events, order, delivery |
| `MCRedirect` | 2 daemons, 3 loads | text arrives, both dispatch, hook follows use |
| `MCRemoteSession` | 2 threads, 4 frames, prefetch 2, backlog 2, 3 fetches, 1 load | window, ownership, playback, frames of the earlier script |
| `MCPipe` | 6 frames, prefetch 2, backlog 3 | order, no double request, completion |

Why the bounds are enough. Three requests with two ids are the least in which an id
is used again while another request has an id of its own: the third allocation
finds the former owner of its id over, or under way and no longer in the tracker, which contests
both. Two callers make a start that overlaps a close. Two workers are one restart, with every interleaving between
the old worker's last assignments and the new one's first; a third would meet a
second that behaves like the first, since `OneConnection` shows that all but
the last are past their cleanup. With a single id, in `MCTransportLifecycle`, the second
allocation uses the id again, and a send that fails or a late cancellation
then pops the other request's entry; the run shows that what is promised to
requests that are not contested holds nevertheless, and that the others follow the
lifecycle but for that end. A request that finds no free id waits in the model, while
the code would search for ever, with 2^31 requests pending. In the daemon a frame, another one that competes
for executor thread and send lock, and a cancellation that may hit either a waiting or a
running task are the smallest set in which each await can be interrupted while
somebody else waits for the same thing; the quick request meets the frame of
its own client under the same key, and a snapshot meets the session of the
other. Two loads are a failing one with its teardown and one in between; a load
of a script differs from a reload in its path only, and both may be refused.
The four methods of `MCCalls` are one that suppresses errors, one that enters the
environment, one that asks twice and one with an answer of its own kind;
`list_outputs` and `get_clip_info` are the two halves of `get_outputs`. Two daemons one
after the other and three loads, of which the first may outlive the first
daemon, reach every order of uninstalling that the locks allow. A clip of four
or more frames with a window of two has a beginning, a middle where the window
is full and pruned on both sides, and an end where it shrinks. A second load
would divide the requests of three fetches once more, and frames of two earlier
scripts count alike. A history of one among two events overflows, and two events
are two broadcast tasks that can overtake each other, and one event of the script next
to one of another thread.

Bounds that end a behaviour: `MaxIncarnation`, `MaxCrashes`, `MaxCancels` (transport),
`MaxFetches` (proxy), `MaxLoads` (session), `MaxEvents`, `MaxLoads` (events), and the finite sets of
messages, requests, loads and redirectors. Deadlock is not checked where the
system may stop: when a transport is closed, when a server has ended, when all
requests of an instance have been made. `FramePipe` checks it, with a step
`Stopped` for the ended program.

Fairness. The transport's is weak fairness of every thread that is inside a
call or a turn of its event loop, which is what an operating system gives;
nobody is obliged to call, cancel, answer or crash. The daemon's, the calls'
and the events' is one weak fairness each, of everything the program does by
itself (`Progress`): as long as the event loop has a ready task, an executor
thread a job or a client an answer to read, one of them goes on. This is weaker
than fairness of each task. It is enough because an instance has finitely many
messages and events and no handler goes round in circles, so nobody can be
overtaken for ever, at the send lock neither. That a thread other than that of the script notes what it has posted is not
assumed, and nothing rests on it. That rendering, compression and
scripts end, and that a call in `RemoteCalls` is delivered or rejected, are
assumptions about them. The pipe's is weak fairness of its thread; the wait has
a timeout, so replies need no fairness. `FrameProxy`, `RemoteSession`,
`ScriptRunner` and `StreamRedirect` have none.

`MCTransportLifecycle` starts one worker only, since `CloseStopsWorker` does not
survive a crash with a restart: in the gap described in section 5 `close()`
finds `_loop` cleared and cannot stop the new worker.

## 4. Proofs

Every invariant that a passing run checks is also a theorem, for all values of
the constants: any sets of requests, callers, messages, clients, loads and
redirectors, any id mask, window, clip length, history and number of executor
threads, crashes and restarts. Apart from the type invariants hardly any is
inductive by itself. What it takes is stated in the module of the component,
next to the properties, and was checked by TLC on the instance of its run before
it was proved. The theorems about invariants have the same shape: `Init => Inv`,
`Inv /\ [Next]_vars => Inv'` with one lemma or step per action, and
`Inv => Property`.

The only hypotheses are the named assumptions on the constants, which TLC evaluates
in the runs: sizes are numbers, or positive where the code needs one (an id mask, a
thread, a clip with a frame), sets that name different things are disjoint, and
`NoOne` is none of the others.

**Transport** (`ClientTransportProofs`).

- `TypeCorrect` (`TypeOK`), by one lemma per kind of thread.
- `NoFutureIsDropped`, `RepliesReachTheirRequest` and `CloseSettlesEveryRequest`
  (`OpenIsTracked`, `RightAnswer`, `DrainedSettles`) from `SettleInv`, for any id mask, so
  also when ids are used again. Entries are unique by id (`EntriesApart`), and of two
  requests with one id of which one is not contested, one is over (`OneUser`).
  Hence what a failing send or a cancellation pops by id is its own entry, or that of a
  contested request, and a reply finds the request it is for, or none. That nothing enters the
  tracker unseen after `close()` needs "drained implies closed" and the position of
  callers between setting `_closed` and rejecting. What the theorems do not say is that
  no request is ever contested, because in the code one can be (section 5).
- `OneConnectionAtATime` (`OneConnection`) from `ConnectInv`: what the start lock
  protects, that only the latest incarnation is alive, and that `_running`
  tells whether it is past its cleanup.
- `FuturesFollowLifecycle` is the refinement, `Spec => Lifecycle!LifecycleSafety`. Under
  `outcome <- fut, shut <- drained` the initial state maps to the initial state,
  `Allocate` to `Issue`, or to `Share` if its id is still in use, a `Check` that finds the
  transport closed to `Refuse`, `Resolve` to `Answer`, `CancelFuture`, and a
  `CancelRequest` that finds another request under its id, to `Cancel`, a send that fails and the cleanup of a
  dying worker to `Fail`, `CloseRejects` to `Shut`, and every other step, or one that
  finds nothing to settle, to a stutter. `LifecycleInv` adds what the mapping needs besides: only one call of `close()`
  rejects. `MCTransportLifecycle` checks the refinement with its liveness.
- `SettledForGood`, an action property, follows from it: a settled future never changes
  again, and nothing reopens what `close()` has shut.

**Daemon** (`ServerDaemonProofs`), from the conjunction `DaemonInv`:

- `RequestsAnsweredOnce` (`Answered`): `ReplyInv`, the reply is chosen once and sent by
  the step that ends the task, and `DoomedForCause`, a `CancelledError` is only on
  its way into tasks that somebody cancelled.
- `CancelReachesTask`, `NothingHeldByDeadTasks` (`CancelFindsTask`, `HeldByLiveTasks`):
  inductive together. The `finally` of a task pops whatever entry stands under its key, also
  that of a successor with the same id: a task may lose its entry to another that shares
  its key, while an entry always leads to a task in progress.
- `StopLeavesNothing` (`StoppedIsQuiet`): `StopInv`, the gather of `stop()` covers every task
  there is; a message that slips in takes `stop()` away from where it would close
  the socket. So `StoppedIsQuiet` holds although `ShutdownIsComplete` does not.
- `FramesStayOpen` (`OpenWhileCompressed`): `JobInv`, a job that has not ended is awaited by a task
  that keeps its frame open, or was cancelled.
- `SessionCountersExact` (`ActiveRequestsExact`): `SessionInv`. A snapshot drops only sessions
  whose counter is 0, and counters are cardinalities of finite sets.

**Runner and calls** (`ScriptRunnerProofs`, `RemoteCallsProofs`).

- `RunnerIsConsistent`, `RunnerIsClosed` (`OutputsHaveEnvironment`, `FailedLoadsLeaveNothing`,
  `ClosedIsEmpty`) from `RunnerInv`: who holds the lock (`LockInv`), where the job of
  a task is (`TaskInv`), that what a load has left is complete or has its
  teardown before it (`EnvInv`), and that `stop()` lets no job begin (`DrainInv`).
- `RunnerHoldsInCalls`: the same invariants in the composition with clients and handlers. The
  steps of `RemoteCalls` are steps of the runner or leave it alone, so the lemmas
  about the runner are used, not repeated.
- `OutcomesAreExplained`, `OutcomesTellTheTruth`, `RefusalsChangeNothing` (`OutcomesExplained`,
  `OutcomeTellsWhetherRun`, `RefusedHasNoEffect`) from `CallsInv`: which statuses each
  handler can answer with (`StatusInv`), that job and status tell whether a
  script was run, now and later (`RanInv`, `HandledInv`), and that outputs which were
  replaced do not come back, so that what `get_outputs` was told of stays outdated (`ShownInv`).

**Events** (`EventStreamProofs`), from `StreamInv`.

- `HistoryIsComplete` (`NothingMissed`): what a subscriber lacks of the history is posted, in
  a task of the send queue, or in the history its task has yet to read, unless it is late
  (`MissInv`, with `TaskInv` for the shape of tasks). The lock of the history is what makes the
  case of an event between `Emit` and `NoteOwn` go through, and that of another thread's event
  that is noted while the load goes on: whoever reads later, reads it. That every event in `noting`
  is late when no load runs (`StreamTypes`) is what `EndLoad` brings about, not what it waits for.
- `EventsInOrder` (`LiveInOrder`): broadcasts begin in the order of their events (`OrderInv`), have the
  same recipients, and two that take turns in the queue never pass each other: the earlier has no
  more recipients left, and fewer if it is behind the later one (`TurnInv`). The bounds
  of what clients have got follow (`GotInv`). The property says `<` and not `<=`: it is
  this argument that shows that no event is delivered twice.

**Redirection** (`StreamRedirectProofs`), from `RedirectInv`: nobody hands on to a redirector that
has not looked yet, so installing closes no circle (`CircleInv`, for
`TextGetsThrough`); a load finds the redirector of the daemon, unless that has been
restored (`ChainInv`, for `HistoryAndSubscribers`); the count is the number of users
(`HookInv`, for `HookIsCounted`).

**Remote node and pipe** (`RemoteSessionProofs`, `FramePipeProofs`).

- `NextFramesUnderWay`, `ThreadsGetTheirFrames`, `RequestsHaveOneOwner`, `PlaybackRequestsOnce`
  (`WindowReady`, `WaitersAreSafe`, `OneOwner`, `PlaybackAsksOnce`) from `ProxyInv`. The proof of a
  fetch rests on lemmas about what it takes, prunes and requests (`TakeEffect`,
  `TakeOwners`) and on general ones about numbering a finite set of numbers
  (`Ranks`, `RanksDiffer`, `RanksOnto`).
- `ScriptsAdvance`, `StaleFramesAreBounded` (`PlayedForward`, `StaleFramesRunOut`) from `SessionInv`: stale
  frames shown and those still held together never exceed what was prefetched.
- `FramesWrittenInOrder`, `WindowUnbroken` (`WrittenInOrder`, `Unbroken`) from `PipeInv`, and
  `WholeClipWritten`, the safety half of `Completes`.

Only model-checked:

- `TasksEnd`, `CallsEnd`, `EventsArrive`, `CloseStopsWorker`, the termination in `Completes` and the
  liveness of `RequestLifecycle`: fairness and `ENABLED` are beyond the prover;
- the four runs that show a violation, which are counterexamples and not theorems.

## 5. Findings

Four runs exhibit behaviour that contradicts a docstring or a test; their
lines are quoted under `findings` in `PROJECT.json`.

- `MCTransportOrphan`: a worker that dies rejects what is pending while
  `_running` is still true; a request sent before it clears the flag is accepted
  and never settled. `close()` would settle it, as `DrainedSettles` shows.
- `MCDaemonShutdown`: `stop()` awaits the tasks it has cancelled. A message
  arriving meanwhile takes the receive loop out of `start()`, and `serve` cancels
  the watcher in the middle of `stop()`.
- `MCRunnerLateTeardown`: the teardown of a failed load runs after a later load
  and destroys outputs that have been announced as loaded.
- `MCCallsUnauthorized`: the refusal of a frame request is decoded as a
  `FrameHeader`; a caller without the token gets msgspec's `ValidationError`, which is
  no `VSRemoteError`. `OutcomesExplained` shows that these methods have
  two other undocumented outcomes, the `AttributeError` and the
  `RemoteNotFoundError` of `get_outputs` described below, and no more.

Seen while modelling, present in the behaviour of the models and not kept as
runs:

- `transport.py:543-545`: a restart between `_running = False` and `_loop = None`
  of the dying worker returns with `_loop` cleared while its own worker serves.
- `transport.py:690-698`: `_loop` is tested, cleared by the ending worker, and
  used: `AttributeError` leaves `send_request` (step `raised`, and `SendRaises` in
  `RemoteCalls`), also of methods that return `False` for every other failure. If
  its entry was made after the cleanup, it stays in the tracker until the next one, or
  `close()`.
- `transport.py:283`, `703`: entries are popped by id, whichever request has it by
  now. A request is allocated, the cleanup of a dying worker empties the
  tracker, its id comes round and is given to a second request, which hands its
  message over; when the send of the first fails, the entry of the second goes, and nothing
  settles it, `close()` neither. A cancellation that pops late cancels the second
  in the same way. It takes some 2^31 allocations in between, so it is the
  instances with one and two ids that get there; the properties exclude such requests as
  `contested`.
- `redirect.py:168-170`: a thread that a script has started posts its event to
  the daemon first and notes it second, and nothing at the end of `capture_streams` waits
  for it. A client that subscribes in between misses the event although the
  history gets it (`late`).
- `daemon.py:557`: a frame cancelled while its reply is sent counts as completed
  and as cancelled.
- `daemon.py:548`: a cancelled request closes its frame while an executor thread
  still reads the planes. `OpenWhileCompressed` shows that nothing but a
  cancellation does.
- `daemon.py:522` and `538`: clip and environment of a frame request may belong to
  different loads.
- `daemon.py:395`: GET_STATS reads the environment, and a load may dispose of it
  before `env.use()`: the handler raises and the client gets no answer.
  `CallsEnd` and `Answered` name it as the one such request.
- `client.py:365`: between listing the outputs and asking for their info a load may
  replace them; `get_outputs` then raises `RemoteNotFoundError`, which it does not
  document.
- `client.py:604` and `664`: a node keeps the format, size and length of the script
  it was made for, while its frames come from whatever is loaded later.
- `client.py:644`: when a request ahead raises, the future of the frame that was
  asked for is in nobody's hands (`given`): it is neither shown nor cancelled.
- `transport.py:780`: `RequestTracker.close` rejects futures with its lock held. A
  callback of the caller that sends a request then waits for a lock its own
  thread holds. The callbacks of the library itself do nothing for a rejected
  future.
- `daemon.py:438`: a client that comes back under its identity, and is still in
  `_subscribers`, gets live events before and besides its replay.
- `redirect.py:191`: a daemon that stops during a load leaves its dead redirector
  in `sys.stdout`; text still arrives (`TextArrives`).
- `daemon.py:236`: when a client leaves during a broadcast, the tasks of two events
  take different numbers of turns and a later event may overtake an earlier
  one. `LiveInOrder` holds as long as that does not happen.

## 6. Not modelled

- Contents: frames, scripts, planes, texts, payloads, statistics. The codec,
  message types and keys are pure encodings.
- ZAP and CURVE: exchanges with libzmq that decide whether a peer may connect;
  a message without the token is one of `Suspect`, or refused in `RemoteCalls`.
- ZeroMQ's high-water marks and failing sends: the server's `send_multipart` on a
  ROUTER socket is taken to succeed. After `stop()` was aborted (see above) the
  commands that still arrive are only followed to their reply.
- Callbacks of callers, which run in the thread that settles a future, some with
  the tracker's lock held. The event dispatcher thread of the client is only the
  queue it empties.
- Metrics: sessions, their counters and their removal are in `ServerDaemon`; rolling
  windows and rates depend on the wall clock and are only displayed.
- What `RemoteClient` does with received events, `source()`, the TUI and the rest of
  the command line: wrappers and I/O.
- `INVALID_PAYLOAD` and `INVALID_COMMAND`: the client only sends what the server decodes.

## 7. Plan

Done so far: the transport with its abstract specification,
the daemon with the sessions of the metrics, runner, redirection, events with
clients that come back, remote node and pipe, and two compositions: a remote
node with the loads of its server, and calls from the client's method to the
runner and back.

Next, models: callbacks of callers in `ClientTransport` (which settlements run
under the tracker's lock, and what a callback that sends or cancels does then),
and the event dispatcher thread across `close()` and restart. Both multiply the
states of the transport and want an instance of their own.

Proofs: every invariant of the passing runs, and the safety part of the refinement, are
theorems. Next: the safety part of what TLC shows with fairness (where a task that
has not ended can still be), and which loads and teardowns can take away the outputs of a
load that was answered OK.
