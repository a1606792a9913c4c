------------------------- MODULE ServerDaemonProofs -------------------------
(***************************************************************************)
(* What ServerDaemon guarantees for any set of messages, clients and ids,  *)
(* any mix of cancellations and any number of executor threads.            *)
(***************************************************************************)
EXTENDS ServerDaemon, FiniteSetTheorems, TLAPS

\* The places of a task, the replies and the states of a job.
Places   == {"absent", "new", "render", "compress", "wait", "send", "done"}
Outgoing == {"none", "ok", "error", "refusal", "dropped"}
Jobs     == {"none", "queued", "running", "finished", "dropped"}

\* Every message has a key among Keys, and a client among Clients.
LEMMA KeyTypes ==
  /\ \A m \in Messages : Key(m) \in Keys /\ Client[m] \in Clients
  /\ \A m \in Cancel : <<Client[m], Target[m]>> \in Keys
BY DEF Key, Keys, Clients, Messages

\* The session counter stays a natural number when a request begins ...
LEMMA RequestBeginsType ==
  ASSUME TypeOK, NEW c \in Clients
  PROVE  /\ Count(c) \in Nat
         /\ RequestBegins(c) => activeRequests' \in [Clients -> Nat]
BY DEF TypeOK, Count, RequestBegins

\* ... and when it ends.
LEMMA FinishTypes ==
  ASSUME TypeOK, NEW m \in Messages, Finish(m)
  PROVE  /\ task' \in [Messages -> Places]
         /\ inflight' \in [Keys -> Messages \cup {NoOne}]
         /\ sessions' \in SUBSET Clients
         /\ activeRequests' \in [Clients -> Nat]
<1>1. CASE Refused(m)
  BY <1>1 DEF Finish, TypeOK, Places, sessionVars
<1>2. CASE ~Refused(m)
  <2>1. \A i \in Nat : i # 0 => i - 1 \in Nat
    OBVIOUS
  <2>2. RequestEnds(Client[m]) /\ Client[m] \in Clients
    BY <1>2, KeyTypes DEF Finish
  <2>3. activeRequests' \in [Clients -> Nat] /\ sessions' = sessions
    BY <2>1, <2>2 DEF RequestEnds, TypeOK
  <2> QED BY <1>2, <2>3, KeyTypes DEF Finish, TypeOK, Places
<1> QED BY <1>1, <1>2

\* The steps of a task keep the types.
LEMMA TaskStepTypes ==
  ASSUME TypeOK, NEW m \in Messages, TaskStep(m)
  PROVE  TypeOK'
<1> USE KeyTypes, RequestBeginsType DEF TypeOK, stopVars, metricsVars, sessionVars, Reply, Resumes, Places
<1>1. CASE StartRefused(m) BY <1>1 DEF StartRefused
<1>2. CASE StartQuick(m) BY <1>2 DEF StartQuick, Register
<1>3. CASE StartStats(m)
  <2>1. activeRequests' \in [Clients -> Nat]
    BY <1>3 DEF StartStats
  <2>2. sessions' \in SUBSET Clients
    BY <1>3 DEF StartStats
  <2> QED BY <1>3, <2>1, <2>2 DEF StartStats
<1>4. CASE StartCancel(m)
  <2>1. doomed' \in SUBSET Messages
    BY <1>4 DEF StartCancel
  <2>2. inflight' \in [Keys -> Messages \cup {NoOne}]
    BY <1>4 DEF StartCancel
  <2>3. activeRequests' \in [Clients -> Nat] /\ sessions' \in SUBSET Clients
    BY <1>4 DEF StartCancel
  <2> QED BY <1>4, <2>1, <2>2, <2>3 DEF StartCancel
<1>5. CASE StartFrame(m) BY <1>5 DEF StartFrame, Register
<1>6. CASE Rendered(m) BY <1>6 DEF Rendered
<1>7. CASE FrameFails(m) BY <1>7 DEF FrameFails
<1>8. CASE Compressed(m) BY <1>8 DEF Compressed
<1>9. CASE AcquireLock(m) BY <1>9 DEF AcquireLock
<1>10. CASE Sent(m) BY <1>10, FinishTypes DEF Sent
<1>11. CASE Cancelled(m)
  <2> USE <1>11 DEF Cancelled
  <2>1. /\ task' \in [Messages -> Places] /\ inflight' \in [Keys -> Messages \cup {NoOne}]
        /\ sessions' \in SUBSET Clients /\ activeRequests' \in [Clients -> Nat]
    BY FinishTypes
  <2>2. /\ doomed' \in SUBSET Messages /\ cancelled' \in SUBSET Frame /\ open' \in SUBSET Frame
        /\ lock' \in Messages \cup {NoOne}
    OBVIOUS
  <2>3. job' \in [Frame -> Jobs]
    BY DEF Jobs
  <2>4. replies' \in [Messages -> Nat]
    OBVIOUS
  <2> QED BY <2>1, <2>2, <2>3, <2>4 DEF Jobs
<1> QED BY <1>1, <1>2, <1>3, <1>4, <1>5, <1>6, <1>7, <1>8, <1>9, <1>10, <1>11 DEF TaskStep

\* stop() leaves the executor with the jobs that have begun.
LEMMA DropQueuedType ==
  ASSUME TypeOK, DropQueued
  PROVE  job' \in [Frame -> Jobs]
BY DEF TypeOK, DropQueued, Jobs

\* The steps of the executor and of start() and stop() keep the types.
LEMMA OtherStepTypes ==
  ASSUME TypeOK,
         \/ \E m \in Messages : Receive(m)
         \/ \E m \in Frame : JobStarts(m) \/ JobEnds(m)
         \/ ReceiveFails \/ Shutdown \/ CloseSocket \/ StopReturns \/ RunEnds
  PROVE  TypeOK'
<1> USE DEF TypeOK, taskVars, stopVars, metricsVars, sessionVars, Active
<1>1. ASSUME NEW m \in Messages, Receive(m) PROVE TypeOK'
  BY <1>1 DEF Receive, LeaveStart
<1>2. ASSUME NEW m \in Frame, JobStarts(m) \/ JobEnds(m) PROVE TypeOK'
  BY <1>2 DEF JobStarts, JobEnds
<1>3. ASSUME NEW who \in {"watcher", "start"}, BeginStop(who),
             main' \in {"receiving", "leaving"}
      PROVE  TypeOK'
  BY <1>3, DropQueuedType DEF BeginStop, Jobs
<1>4. CASE ReceiveFails BY <1>3, <1>4 DEF ReceiveFails, LeaveStart
<1>5. CASE Shutdown BY <1>3, <1>5 DEF Shutdown
<1>6. CASE CloseSocket BY <1>6, DropQueuedType DEF CloseSocket, Jobs
<1>7. CASE StopReturns BY <1>7 DEF StopReturns
<1>8. CASE RunEnds BY <1>8 DEF RunEnds
<1> QED BY <1>1, <1>2, <1>4, <1>5, <1>6, <1>7, <1>8

\* Every variable of the daemon keeps its type.
THEOREM TypeCorrect == Spec => []TypeOK
<1>1. Init => TypeOK
  <2> SUFFICES ASSUME Init PROVE TypeOK
    OBVIOUS
  <2> USE DEF Init
  <2>1. /\ task \in [Messages -> Places] /\ outgoing \in [Messages -> Outgoing]
        /\ job \in [Frame -> Jobs]
    BY DEF Places, Outgoing, Jobs
  <2>2. /\ inflight \in [Keys -> Messages \cup {NoOne}] /\ lock \in Messages \cup {NoOne}
        /\ replies \in [Messages -> Nat] /\ activeRequests \in [Clients -> Nat]
    OBVIOUS
  <2>3. /\ gathered \in SUBSET Messages /\ doomed \in SUBSET Messages /\ open \in SUBSET Frame
        /\ sessions \in SUBSET Clients /\ completed \in SUBSET Frame /\ cancelled \in SUBSET Frame
    OBVIOUS
  <2>4. /\ socket \in BOOLEAN /\ running \in BOOLEAN /\ stopping \in BOOLEAN
        /\ main \in {"receiving", "leaving", "unwinding", "finished"}
        /\ stopAt \in {"idle", "gather", "drain", "done", "aborted"}
        /\ stopBy \in {"none", "watcher", "start"}
    OBVIOUS
  <2> QED BY <2>1, <2>2, <2>3, <2>4 DEF TypeOK, Places, Outgoing, Jobs
<1>2. TypeOK /\ [Next]_vars => TypeOK'
  <2> SUFFICES ASSUME TypeOK, [Next]_vars PROVE TypeOK'
    OBVIOUS
  <2>1. CASE UNCHANGED vars
    BY <2>1 DEF vars, taskVars, stopVars, metricsVars, sessionVars, TypeOK
  <2> QED BY <2>1, TaskStepTypes, OtherStepTypes DEF Next
<1> QED BY <1>1, <1>2, PTL DEF Spec
-----------------------------------------------------------------------------
\* Whatever the handlers leave alone: a step of other tasks, of the executor or
\* of stop() does not touch the registry of tasks in progress.
LEMMA RegistryUntouched ==
  ASSUME TypeOK, HeldByLiveTasks, CancelFindsTask,
         UNCHANGED <<inflight, lock>>,
         \A m \in Messages : Registered(m)' <=> Registered(m),
         \A m \in Messages : task'[m] = "absent" => task[m] = "absent",
         lock # NoOne => task'[lock] = task[lock]
  PROVE  HeldByLiveTasks' /\ CancelFindsTask'
BY DEF HeldByLiveTasks, FoundIsLive, LockIsHeld, CancelFindsTask, SharesKey, TypeOK

\* A message that takes its key is registered, and the one that had the key,
\* if any, now shares it.
LEMMA RegistryTaken ==
  ASSUME TypeOK, HeldByLiveTasks, CancelFindsTask, NEW m \in Messages,
         inflight' = [inflight EXCEPT ![Key(m)] = m], UNCHANGED lock,
         task[m] = "new", Registered(m)',
         \A l \in Messages \ {m} : task'[l] = task[l] /\ outgoing'[l] = outgoing[l]
  PROVE  HeldByLiveTasks' /\ CancelFindsTask'
<1> USE KeyTypes DEF TypeOK
<1>1. \A l \in Messages \ {m} : Registered(l)' <=> Registered(l)
  BY DEF Registered, Refused
<1>2. FoundIsLive'
  BY <1>1 DEF HeldByLiveTasks, FoundIsLive
<1>3. LockIsHeld'
  BY DEF HeldByLiveTasks, LockIsHeld
<1>4. task'[m] # "absent"
  BY DEF Registered
<1>5. \A l \in Messages : ~SharesKey(l)' => ~SharesKey(l)
  BY <1>4 DEF SharesKey
<1>6. \A l \in Messages \ {m} : ~SharesKey(l)' => Key(l) # Key(m)
  BY <1>4 DEF SharesKey
<1>7. CancelFindsTask'
  BY <1>1, <1>5, <1>6 DEF CancelFindsTask
<1> QED BY <1>2, <1>3, <1>7 DEF HeldByLiveTasks

\* A message that ends gives its key back, whoever has it by now, and the send
\* lock if it has it.
LEMMA RegistryGivenBack ==
  ASSUME TypeOK, HeldByLiveTasks, CancelFindsTask, NEW m \in Messages,
         inflight' = [inflight EXCEPT ![Key(m)] = NoOne],
         lock' \in {lock, NoOne}, lock = m => lock' = NoOne,
         task' = [task EXCEPT ![m] = "done"],
         \A l \in Messages \ {m} : outgoing'[l] = outgoing[l]
  PROVE  HeldByLiveTasks' /\ CancelFindsTask'
<1> USE KeyTypes DEF TypeOK
<1>1. \A l \in Messages \ {m} : Registered(l)' <=> Registered(l)
  BY DEF Registered, Refused
<1>2. ~Registered(m)'
  BY DEF Registered
<1>3. FoundIsLive'
  BY <1>1 DEF HeldByLiveTasks, FoundIsLive
<1>4. LockIsHeld'
  BY DEF HeldByLiveTasks, LockIsHeld
<1>5. \A l \in Messages : ~SharesKey(l)' => ~SharesKey(l)
  BY DEF SharesKey
<1>6. \A l \in Messages \ {m} : ~SharesKey(l)' => Key(l) # Key(m)
  BY DEF SharesKey
<1>7. ASSUME NoOne \notin Messages PROVE CancelFindsTask'
  BY <1>1, <1>2, <1>5, <1>6, <1>7 DEF CancelFindsTask
<1> QED BY <1>3, <1>4, <1>7, DaemonAssumption DEF HeldByLiveTasks, DaemonAssumption

\* A message that ends without having been registered leaves the registry alone.
LEMMA RegistryPassed ==
  ASSUME TypeOK, HeldByLiveTasks, CancelFindsTask, NEW m \in Messages,
         ~Registered(m), ~Registered(m)', task'[m] # "absent",
         UNCHANGED inflight, lock' \in {lock, NoOne}, lock = m => lock' = NoOne,
         \A l \in Messages \ {m} : task'[l] = task[l] /\ outgoing'[l] = outgoing[l]
  PROVE  HeldByLiveTasks' /\ CancelFindsTask'
<1>1. \A l \in Messages : Registered(l)' <=> Registered(l)
  BY DEF Registered, Refused
<1>2. \A l \in Messages : ~SharesKey(l)' => ~SharesKey(l)
  BY DEF SharesKey
<1> QED BY <1>1, <1>2 DEF HeldByLiveTasks, FoundIsLive, LockIsHeld, CancelFindsTask, TypeOK

\* The steps of a task keep the registry.
LEMMA RegistryTaskStep ==
  ASSUME TypeOK, ReplyInv, HeldByLiveTasks, CancelFindsTask, NEW m \in Messages, TaskStep(m)
  PROVE  HeldByLiveTasks' /\ CancelFindsTask'
<1> USE DEF TypeOK, Resumes, Reply
<1>0. task[m] = "new" => lock # m
  BY DaemonAssumption DEF DaemonAssumption, HeldByLiveTasks, LockIsHeld
<1>1. CASE StartRefused(m)
  BY <1>0, <1>1, RegistryPassed DEF StartRefused, Registered, Refused
<1>2. CASE StartQuick(m)
  BY <1>2, RegistryTaken DEF StartQuick, Register, Registered, Refused
<1>3. CASE StartStats(m)
  <2> USE <1>3 DEF StartStats
  <2>1. CASE inflight' = [inflight EXCEPT ![Key(m)] = m] /\ Reply(m, "ok")
    BY <2>1, RegistryTaken DEF Registered, Refused
  <2>2. CASE inflight' = [inflight EXCEPT ![Key(m)] = NoOne] /\ task' = [task EXCEPT ![m] = "done"]
               /\ outgoing' = [outgoing EXCEPT ![m] = "dropped"]
    BY <1>0, <2>2, RegistryGivenBack
  <2> QED BY <2>1, <2>2
<1>4. CASE StartCancel(m)
  <2>1. inflight' = [inflight EXCEPT ![Key(m)] = NoOne]
    BY <1>4, KeyTypes DEF StartCancel
  <2> QED BY <1>0, <1>4, <2>1, RegistryGivenBack DEF StartCancel
<1>5. CASE StartFrame(m)
  BY <1>5, RegistryTaken, ZenonT(30) DEF StartFrame, Register, Registered, Refused, ReplyInv
<1>6. CASE Rendered(m)
  BY <1>6, RegistryUntouched DEF Rendered, Registered, Refused, HeldByLiveTasks, LockIsHeld
<1>7. CASE FrameFails(m)
  BY <1>7, RegistryUntouched DEF FrameFails, Registered, Refused, ReplyInv, HeldByLiveTasks, LockIsHeld
<1>8. CASE Compressed(m)
  BY <1>8, RegistryUntouched DEF Compressed, Registered, Refused, ReplyInv, HeldByLiveTasks, LockIsHeld
<1>9. CASE AcquireLock(m)
  <2>1. \A l \in Messages : Registered(l)' <=> Registered(l)
    BY <1>9 DEF AcquireLock, Registered, Refused
  <2> QED BY <1>9, <2>1 DEF AcquireLock, HeldByLiveTasks, FoundIsLive, LockIsHeld, CancelFindsTask, SharesKey
<1>10. CASE Sent(m)
  <2> USE <1>10 DEF Sent, Finish
  <2>1. CASE Refused(m) BY <2>1, RegistryPassed DEF Registered, Refused
  <2>2. CASE ~Refused(m) BY <2>2, RegistryGivenBack
  <2> QED BY <2>1, <2>2
<1>11. CASE Cancelled(m)
  <2> USE <1>11 DEF Cancelled, Finish
  <2>1. CASE Refused(m) \/ task[m] = "new" BY <2>1, RegistryPassed DEF Registered, Refused
  <2>2. CASE ~(Refused(m) \/ task[m] = "new") BY <2>2, RegistryGivenBack
  <2> QED BY <2>1, <2>2
<1> QED BY <1>1, <1>2, <1>3, <1>4, <1>5, <1>6, <1>7, <1>8, <1>9, <1>10, <1>11 DEF TaskStep

\* New messages and the executor do not touch the registry, nor does stop().
LEMMA RegistryOtherStep ==
  ASSUME TypeOK, ReplyInv, HeldByLiveTasks, CancelFindsTask,
         \/ \E m \in Messages : Receive(m)
         \/ \E m \in Frame : JobStarts(m) \/ JobEnds(m)
         \/ ReceiveFails \/ Shutdown \/ CloseSocket \/ StopReturns \/ RunEnds
  PROVE  HeldByLiveTasks' /\ CancelFindsTask'
<1> USE DEF taskVars
<1>1. ASSUME NEW m \in Messages, Receive(m) PROVE HeldByLiveTasks' /\ CancelFindsTask'
  <2>1. \A l \in Messages : Registered(l)' <=> Registered(l)
    BY <1>1 DEF Receive, Registered, Refused, TypeOK
  <2>2. lock # m
    BY <1>1, DaemonAssumption DEF DaemonAssumption, Receive, HeldByLiveTasks, LockIsHeld
  <2> QED BY <1>1, <2>1, <2>2, RegistryUntouched DEF Receive, TypeOK
<1>2. ASSUME UNCHANGED <<task, inflight, lock, outgoing>>
      PROVE  HeldByLiveTasks' /\ CancelFindsTask'
  BY <1>2, RegistryUntouched DEF Registered, Refused
<1>3. ASSUME NEW m \in Frame, JobStarts(m) \/ JobEnds(m)
      PROVE  HeldByLiveTasks' /\ CancelFindsTask'
  BY <1>2, <1>3 DEF JobStarts, JobEnds
<1>4. CASE ReceiveFails \/ Shutdown
  BY <1>2, <1>4 DEF ReceiveFails, Shutdown, BeginStop
<1>5. CASE CloseSocket \/ StopReturns \/ RunEnds
  BY <1>2, <1>5 DEF CloseSocket, StopReturns, RunEnds
<1> QED BY <1>1, <1>3, <1>4, <1>5
-----------------------------------------------------------------------------
\* A cause for a cancellation does not go away.
LEMMA CausesStay ==
  ASSUME stopping => stopping', NEW m \in Messages, WasCancelled(m),
         \A x \in Cancel : task[x] = "done" => task'[x] = "done"
  PROVE  WasCancelled(m)'
BY DEF WasCancelled

\* A step that sends nothing and ends no task keeps ReplyInv.
LEMMA ReplyUntouched ==
  ASSUME ReplyInv, UNCHANGED replies, stopping => stopping',
         \A m \in Messages : /\ task'[m] \in {"absent", "new", "render", "compress"} =>
                                  /\ task[m] \in {"absent", "new", "render", "compress"}
                                  /\ outgoing'[m] = outgoing[m]
                             /\ task[m] = "done" <=> task'[m] = "done"
                             /\ task[m] = "done" => outgoing'[m] = outgoing[m]
  PROVE  ReplyInv'
<1>1. \A x \in Cancel : task[x] = "done" => task'[x] = "done"
  BY DEF Messages
<1> QED BY <1>1, CausesStay DEF ReplyInv, Answered

\* A task that ends has sent its one reply, or has a reason to send none.
LEMMA ReplyAtEnd ==
  ASSUME TypeOK, ReplyInv, NEW m \in Messages, task[m] # "done",
         task' = [task EXCEPT ![m] = "done"], UNCHANGED stopping,
         \A l \in Messages \ {m} : outgoing'[l] = outgoing[l],
         \/ UNCHANGED replies /\ (m \in Cancel \/ outgoing'[m] = "dropped" \/ WasCancelled(m))
         \/ replies' = [replies EXCEPT ![m] = @ + 1]
  PROVE  ReplyInv'
<1> USE DEF TypeOK
<1>1. \A x \in Cancel : task[x] = "done" => task'[x] = "done"
  BY DEF Messages
<1>2. replies[m] = 0
  BY DEF ReplyInv
<1>3. \A l \in Messages : WasCancelled(l) => WasCancelled(l)'
  BY <1>1, CausesStay
<1> QED BY <1>2, <1>3 DEF ReplyInv, Answered

\* Requests are answered once, and cancelled for a cause, by every step of a task.
LEMMA ReplyTaskStep ==
  ASSUME TypeOK, ReplyInv, DoomedForCause, HeldByLiveTasks, NEW m \in Messages, TaskStep(m)
  PROVE  ReplyInv' /\ DoomedForCause'
<1> USE DEF TypeOK, Resumes, Reply, stopVars
<1>0. \A x \in Cancel : task[x] = "done" => task'[x] = "done"
  <2>1. task[m] # "done" /\ \A l \in Messages \ {m} : task'[l] = task[l]
    BY DEF TaskStep, StartRefused, StartQuick, StartStats, StartCancel, StartFrame, Rendered,
           FrameFails, Compressed, AcquireLock, Sent, Cancelled, Finish, Active
  <2> QED BY <2>1 DEF Messages
<1>1. CASE StartRefused(m)
  <2>1. DoomedForCause' BY <1>0, <1>1, CausesStay DEF StartRefused, DoomedForCause
  <2>2. CASE Reply(m, "refusal") BY <1>1, <2>1, <2>2, ReplyUntouched DEF StartRefused
  <2>3. CASE task' = [task EXCEPT ![m] = "done"] /\ outgoing' = [outgoing EXCEPT ![m] = "dropped"]
    BY <1>1, <2>1, <2>3, ReplyAtEnd DEF StartRefused
  <2> QED BY <1>1, <2>2, <2>3 DEF StartRefused
<1>2. CASE StartQuick(m)
  <2>1. DoomedForCause' BY <1>0, <1>2, CausesStay DEF StartQuick, DoomedForCause
  <2> QED BY <1>2, <2>1, ReplyUntouched DEF StartQuick
<1>3. CASE StartStats(m)
  <2>1. DoomedForCause' BY <1>0, <1>3, CausesStay DEF StartStats, DoomedForCause
  <2>2. CASE Reply(m, "ok") BY <1>3, <2>1, <2>2, ReplyUntouched DEF StartStats
  <2>3. CASE task' = [task EXCEPT ![m] = "done"] /\ outgoing' = [outgoing EXCEPT ![m] = "dropped"]
    BY <1>3, <2>1, <2>3, ReplyAtEnd DEF StartStats
  <2> QED BY <1>3, <2>2, <2>3 DEF StartStats
<1>4. CASE StartCancel(m)
  <2> USE <1>4 DEF StartCancel
  <2>1. ReplyInv' BY ReplyAtEnd
  <2>2. \A l \in doomed : WasCancelled(l)'
    BY <1>0, CausesStay DEF DoomedForCause
  <2>3. \A l \in doomed' \ doomed : Key(l) = <<Client[m], Target[m]>>
    BY DaemonAssumption, KeyTypes DEF HeldByLiveTasks, FoundIsLive
  <2>4. task'[m] = "done" /\ m \in Cancel
    OBVIOUS
  <2> QED BY <2>1, <2>2, <2>3, <2>4 DEF DoomedForCause, WasCancelled
<1>5. CASE StartFrame(m)
  <2>1. DoomedForCause' BY <1>0, <1>5, CausesStay DEF StartFrame, DoomedForCause
  <2> QED BY <1>5, <2>1, ReplyUntouched DEF StartFrame
<1>6. CASE Rendered(m)
  <2>1. DoomedForCause' BY <1>0, <1>6, CausesStay DEF Rendered, DoomedForCause
  <2> QED BY <1>6, <2>1, ReplyUntouched DEF Rendered
<1>7. CASE FrameFails(m)
  <2>1. DoomedForCause' BY <1>0, <1>7, CausesStay DEF FrameFails, DoomedForCause
  <2> QED BY <1>7, <2>1, ReplyUntouched DEF FrameFails
<1>8. CASE Compressed(m)
  <2>1. DoomedForCause' BY <1>0, <1>8, CausesStay DEF Compressed, DoomedForCause
  <2> QED BY <1>8, <2>1, ReplyUntouched DEF Compressed
<1>9. CASE AcquireLock(m)
  <2>1. DoomedForCause' BY <1>0, <1>9, CausesStay DEF AcquireLock, DoomedForCause
  <2> QED BY <1>9, <2>1, ReplyUntouched DEF AcquireLock
<1>10. CASE Sent(m)
  <2>1. DoomedForCause' BY <1>0, <1>10, CausesStay DEF Sent, DoomedForCause
  <2> QED BY <1>10, <2>1, ReplyAtEnd DEF Sent, Finish
<1>11. CASE Cancelled(m)
  <2> USE <1>11 DEF Cancelled
  <2>1. DoomedForCause' BY <1>0, CausesStay DEF DoomedForCause
  <2>2. WasCancelled(m) /\ task[m] # "done" BY DEF DoomedForCause, Active
  <2>3. task' = [task EXCEPT ![m] = "done"] BY DEF Finish
  <2> QED BY <2>1, <2>2, <2>3, ReplyAtEnd
<1> QED BY <1>1, <1>2, <1>3, <1>4, <1>5, <1>6, <1>7, <1>8, <1>9, <1>10, <1>11 DEF TaskStep

\* stop() is a cause for every cancellation it brings about.
LEMMA ReplyOtherStep ==
  ASSUME TypeOK, ReplyInv, DoomedForCause, StopInv,
         \/ \E m \in Messages : Receive(m)
         \/ \E m \in Frame : JobStarts(m) \/ JobEnds(m)
         \/ ReceiveFails \/ Shutdown \/ CloseSocket \/ StopReturns \/ RunEnds
  PROVE  ReplyInv' /\ DoomedForCause'
<1> USE DEF taskVars, stopVars
<1>1. ASSUME NEW m \in Messages, Receive(m) PROVE ReplyInv' /\ DoomedForCause'
  <2> USE <1>1 DEF Receive, TypeOK
  <2>1. \A x \in Cancel : task[x] = "done" => task'[x] = "done"
    BY DEF Messages
  <2>2. DoomedForCause' BY <2>1, CausesStay DEF DoomedForCause
  <2> QED BY <2>2, ReplyUntouched
<1>2. ASSUME UNCHANGED <<task, outgoing, replies>>, stopping => stopping',
             doomed' # doomed => stopping'
      PROVE  ReplyInv' /\ DoomedForCause'
  BY <1>2, ReplyUntouched DEF DoomedForCause, WasCancelled
<1>3. ASSUME NEW m \in Frame, JobStarts(m) \/ JobEnds(m) PROVE ReplyInv' /\ DoomedForCause'
  BY <1>2, <1>3 DEF JobStarts, JobEnds
<1>4. CASE ReceiveFails \/ Shutdown
  BY <1>2, <1>4 DEF ReceiveFails, Shutdown, BeginStop
<1>5. CASE CloseSocket \/ StopReturns
  BY <1>2, <1>5 DEF CloseSocket, StopReturns
<1>6. CASE RunEnds
  BY <1>2, <1>6 DEF RunEnds, StopInv
<1> QED BY <1>1, <1>3, <1>4, <1>5, <1>6
-----------------------------------------------------------------------------
\* A step of a task can only end a task that stop() waits for, and none is left
\* to take a step once the socket is closed.
LEMMA StopTaskStep ==
  ASSUME TypeOK, StopInv, NEW m \in Messages, TaskStep(m)
  PROVE  StopInv'
<1>1. m \in Active /\ socket
  BY DEF TaskStep, StartRefused, StartQuick, StartStats, StartCancel, StartFrame, Rendered, FrameFails,
         Compressed, AcquireLock, Sent, Cancelled, Resumes, Active, StopInv
<1>2. UNCHANGED stopVars
  BY DEF TaskStep, StartRefused, StartQuick, StartStats, StartCancel, StartFrame, Rendered, FrameFails,
         Compressed, AcquireLock, Sent, Cancelled
<1>3. \A l \in Messages \ {m} : task'[l] = task[l]
  BY DEF TaskStep, StartRefused, StartQuick, StartStats, StartCancel, StartFrame, Rendered, FrameFails,
         Compressed, AcquireLock, Sent, Cancelled, Finish, Reply, TypeOK
<1>4. Active' \subseteq Active
  BY <1>1, <1>3 DEF Active
<1> QED BY <1>1, <1>2, <1>4 DEF StopInv, stopVars

\* The event loop and the executor, seen from stop(): what starts behind its
\* back takes it out of the way.
LEMMA StopOtherStep ==
  ASSUME TypeOK, StopInv,
         \/ \E m \in Messages : Receive(m)
         \/ \E m \in Frame : JobStarts(m) \/ JobEnds(m)
         \/ ReceiveFails \/ Shutdown \/ CloseSocket \/ StopReturns \/ RunEnds
  PROVE  StopInv'
<1> USE DEF StopInv, stopVars
<1>1. ASSUME NEW m \in Messages, Receive(m) PROVE StopInv'
  BY <1>1 DEF Receive, LeaveStart
<1>2. ASSUME NEW m \in Frame, JobStarts(m) \/ JobEnds(m) PROVE StopInv'
  <2>1. UNCHANGED <<task, socket, running, stopping, main, stopAt, gathered>>
    BY <1>2 DEF JobStarts, JobEnds, taskVars
  <2>2. Active' = Active
    BY <2>1 DEF Active
  <2>3. \A f \in Frame : job'[f] # "queued" \/ job[f] = "queued"
    BY <1>2 DEF JobStarts, JobEnds, TypeOK
  <2>4. stopAt = "done" => \A f \in Frame : job'[f] # "running"
    BY <1>2 DEF JobStarts, JobEnds, TypeOK
  <2> QED BY <2>1, <2>2, <2>3, <2>4
<1>3. ASSUME NEW who, BeginStop(who) PROVE StopInv'
  <2>1. Active' = Active
    BY <1>3 DEF BeginStop, Active
  <2> QED BY <1>3, <2>1 DEF BeginStop, DropQueued
<1>4. CASE ReceiveFails
  BY <1>3, <1>4 DEF ReceiveFails, LeaveStart, taskVars, Active
<1>5. CASE Shutdown
  BY <1>3, <1>5 DEF Shutdown
<1>6. CASE CloseSocket
  BY <1>6 DEF CloseSocket, DropQueued, taskVars, Active
<1>7. CASE StopReturns
  BY <1>7 DEF StopReturns, taskVars, Active
<1>8. CASE RunEnds
  BY <1>8 DEF RunEnds, Active
<1> QED BY <1>1, <1>2, <1>4, <1>5, <1>6, <1>7, <1>8
-----------------------------------------------------------------------------
\* A frame is closed and its job forgotten by the task that awaits it, at once
\* only if the task is cancelled.
LEMMA JobTaskStep ==
  ASSUME TypeOK, ReplyInv, JobInv, NEW m \in Messages, TaskStep(m)
  PROVE  JobInv'
<1> USE DEF TypeOK, Resumes, Reply, metricsVars
<1>1. ASSUME UNCHANGED <<job, open>>, cancelled \subseteq cancelled',
             task[m] # "compress", \A l \in Messages \ {m} : task'[l] = task[l]
      PROVE  JobInv'
  BY <1>1 DEF JobInv, Messages
<1>2. CASE StartRefused(m) \/ StartQuick(m) \/ StartStats(m) \/ StartCancel(m) \/ StartFrame(m)
  BY <1>1, <1>2 DEF StartRefused, StartQuick, StartStats, StartCancel, StartFrame
<1>3. CASE Rendered(m)
  BY <1>3 DEF Rendered, JobInv, Messages
<1>4. CASE FrameFails(m)
  BY <1>4 DEF FrameFails, JobInv, Messages
<1>5. CASE Compressed(m)
  BY <1>5 DEF Compressed, JobInv, Messages
<1>6. CASE AcquireLock(m)
  BY <1>1, <1>6 DEF AcquireLock
<1>7. CASE Sent(m)
  BY <1>7 DEF Sent, Finish, JobInv, Messages
<1>8. CASE Cancelled(m)
  <2> USE <1>8 DEF Cancelled
  <2>1. \A f \in Frame \ {m} : (f \in open' <=> f \in open) /\ task'[f] = task[f] /\ job'[f] = job[f]
    BY DEF Finish, Messages
  <2>2. m \in Frame /\ task[m] = "compress" => m \in cancelled'
    BY DEF ReplyInv
  <2>3. m \in Frame /\ job'[m] \in {"queued", "running"} => job[m] \in {"queued", "running"}
    OBVIOUS
  <2>4. cancelled \subseteq cancelled'
    OBVIOUS
  <2> QED BY <2>1, <2>2, <2>3, <2>4 DEF JobInv
<1> QED BY <1>2, <1>3, <1>4, <1>5, <1>6, <1>7, <1>8 DEF TaskStep

\* Everybody else only moves jobs on.
LEMMA JobOtherStep ==
  ASSUME TypeOK, JobInv,
         \/ \E m \in Messages : Receive(m)
         \/ \E m \in Frame : JobStarts(m) \/ JobEnds(m)
         \/ ReceiveFails \/ Shutdown \/ CloseSocket \/ StopReturns \/ RunEnds
  PROVE  JobInv'
<1> USE DEF TypeOK, taskVars, metricsVars
<1>1. ASSUME UNCHANGED <<open, cancelled>>,
             \A f \in Frame : task[f] = "compress" => task'[f] = "compress",
             \A f \in Frame : job'[f] \in {"queued", "running"} => job[f] \in {"queued", "running"}
      PROVE  JobInv'
  BY <1>1 DEF JobInv
<1>2. ASSUME NEW m \in Messages, Receive(m) PROVE JobInv'
  BY <1>1, <1>2 DEF Receive, Messages
<1>3. ASSUME NEW m \in Frame, JobStarts(m) \/ JobEnds(m) PROVE JobInv'
  BY <1>1, <1>3 DEF JobStarts, JobEnds
<1>4. CASE ReceiveFails \/ Shutdown
  BY <1>1, <1>4 DEF ReceiveFails, Shutdown, BeginStop, DropQueued
<1>5. CASE CloseSocket \/ StopReturns \/ RunEnds
  BY <1>1, <1>5 DEF CloseSocket, StopReturns, RunEnds, DropQueued
<1> QED BY <1>2, <1>3, <1>4, <1>5
-----------------------------------------------------------------------------
\* The requests in progress and the counters stay what they are.
LEMMA SessionUntouched ==
  ASSUME SessionInv,
         \A l \in Messages : Registered(l)' <=> Registered(l),
         \A c \in Clients : Count(c)' = Count(c)
  PROVE  SessionInv'
<1>1. \A c \in Clients : ServedFor(c)' = ServedFor(c)
  BY DEF ServedFor
<1> QED BY <1>1 DEF SessionInv, InProgress

\* A request begins for one client: its counter and its requests grow by one.
LEMMA SessionBegins ==
  ASSUME TypeOK, SessionInv, NEW m \in Messages, ~Registered(m), Registered(m)',
         \A l \in Messages \ {m} : Registered(l)' <=> Registered(l),
         Count(Client[m])' = Count(Client[m]) + 1,
         \A c \in Clients \ {Client[m]} : Count(c)' = Count(c)
  PROVE  SessionInv'
<1>1. /\ ServedFor(Client[m])' = ServedFor(Client[m]) \cup {m} /\ m \notin ServedFor(Client[m])
      /\ \A c \in Clients \ {Client[m]} : ServedFor(c)' = ServedFor(c)
  BY DEF ServedFor
<1>2. /\ IsFiniteSet(ServedFor(Client[m]))
      /\ Count(Client[m]) = Cardinality(ServedFor(Client[m]))
  BY KeyTypes DEF SessionInv, InProgress
<1>3. /\ IsFiniteSet(ServedFor(Client[m])')
      /\ Cardinality(ServedFor(Client[m])') = Cardinality(ServedFor(Client[m])) + 1
  BY <1>1, <1>2, FS_AddElement
<1> QED BY <1>1, <1>2, <1>3 DEF SessionInv, InProgress

\* A request ends: as it was in progress its client has a session, whose
\* counter is above zero.
LEMMA SessionEnds ==
  ASSUME TypeOK, SessionInv, NEW m \in Messages, Registered(m), ~Registered(m)',
         \A l \in Messages \ {m} : Registered(l)' <=> Registered(l),
         RequestEnds(Client[m])
  PROVE  SessionInv'
<1> DEFINE c == Client[m]
<1>1. /\ ServedFor(c)' = ServedFor(c) \ {m} /\ m \in ServedFor(c)
      /\ \A d \in Clients \ {c} : ServedFor(d)' = ServedFor(d)
  BY DEF ServedFor
<1>2. c \in Clients /\ IsFiniteSet(ServedFor(c)) /\ Count(c) = Cardinality(ServedFor(c))
  BY KeyTypes DEF SessionInv, InProgress
<1>3. /\ IsFiniteSet(ServedFor(c)')
      /\ Cardinality(ServedFor(c)') = Cardinality(ServedFor(c)) - 1
  BY <1>1, <1>2, FS_RemoveElement
<1>4. Count(c) # 0
  BY <1>1, <1>2, FS_EmptySet
<1>5. Count(c)' = Count(c) - 1 /\ \A d \in Clients \ {c} : Count(d)' = Count(d)
  BY <1>2, <1>4 DEF RequestEnds, Count, TypeOK
<1> QED BY <1>1, <1>2, <1>3, <1>5 DEF SessionInv, InProgress

\* Every step of a task keeps the books.
LEMMA SessionTaskStep ==
  ASSUME TypeOK, ReplyInv, SessionInv, NEW m \in Messages, TaskStep(m)
  PROVE  SessionInv'
<1> USE DEF TypeOK, Resumes, Reply, metricsVars, sessionVars
<1>1. CASE StartQuick(m) \/ StartFrame(m)
  <2>1. ~Registered(m) /\ Registered(m)' /\ \A l \in Messages \ {m} : Registered(l)' <=> Registered(l)
    BY <1>1 DEF StartQuick, StartFrame, Registered, Refused, ReplyInv
  <2>2. Register(m)
    BY <1>1 DEF StartQuick, StartFrame
  <2>3. /\ Count(Client[m])' = Count(Client[m]) + 1
        /\ \A c \in Clients \ {Client[m]} : Count(c)' = Count(c)
    BY <2>2, KeyTypes DEF Register, RequestBegins, Count
  <2> QED BY <2>1, <2>3, SessionBegins
<1>2. CASE StartStats(m)
  <2> USE <1>2 DEF StartStats
  <2>1. ASSUME NEW stale \in SUBSET {c \in sessions \ {Client[m]} : Idle(c)},
               sessions' = (sessions \cup {Client[m]}) \ stale,
               RequestBegins(Client[m]), Reply(m, "ok")
        PROVE  SessionInv'
    <3>1. ~Registered(m) /\ Registered(m)' /\ \A l \in Messages \ {m} : Registered(l)' <=> Registered(l)
      BY <2>1 DEF Registered, Refused
    <3>2. /\ Count(Client[m])' = Count(Client[m]) + 1
          /\ \A c \in Clients \ {Client[m]} : Count(c)' = Count(c)
      BY <2>1, KeyTypes DEF RequestBegins, Count, Idle
    <3> QED BY <3>1, <3>2, SessionBegins
  <2>2. ASSUME task' = [task EXCEPT ![m] = "done"], outgoing' = [outgoing EXCEPT ![m] = "dropped"],
               sessions' = sessions \cup {Client[m]},
               activeRequests' = [activeRequests EXCEPT ![Client[m]] = Count(Client[m])]
        PROVE  SessionInv'
    <3>1. \A l \in Messages : Registered(l)' <=> Registered(l)
      BY <2>2 DEF Registered, Refused
    <3>2. \A c \in Clients : Count(c)' = Count(c)
      BY <2>2, KeyTypes DEF Count
    <3> QED BY <3>1, <3>2, SessionUntouched
  <2> QED BY <2>1, <2>2
<1>3. CASE StartCancel(m)
  <2>1. \A l \in Messages : Registered(l)' <=> Registered(l)
    BY <1>3 DEF StartCancel, Registered, Refused
  <2>2. \A c \in Clients : Count(c)' = Count(c)
    BY <1>3, KeyTypes DEF StartCancel, Count
  <2> QED BY <2>1, <2>2, SessionUntouched
<1>4. CASE StartRefused(m) \/ Rendered(m) \/ FrameFails(m) \/ Compressed(m) \/ AcquireLock(m)
  <2>1. \A l \in Messages : Registered(l)' <=> Registered(l)
    BY <1>4 DEF StartRefused, Rendered, FrameFails, Compressed, AcquireLock, Registered, Refused, ReplyInv
  <2>2. UNCHANGED <<sessions, activeRequests>>
    BY <1>4 DEF StartRefused, Rendered, FrameFails, Compressed, AcquireLock
  <2>3. \A c \in Clients : Count(c)' = Count(c)
    BY <2>2 DEF Count
  <2> QED BY <2>1, <2>3, SessionUntouched
<1>5. ASSUME Finish(m), task[m] # "new", task[m] \notin {"absent", "done"}, UNCHANGED outgoing
      PROVE  SessionInv'
  <2>1. \A l \in Messages \ {m} : Registered(l)' <=> Registered(l)
    BY <1>5 DEF Finish, Registered, Refused
  <2>2. ~Registered(m)' /\ (Registered(m) <=> ~Refused(m))
    BY <1>5 DEF Finish, Registered
  <2>3. CASE Refused(m)
    <3>1. \A c \in Clients : Count(c)' = Count(c)
      BY <1>5, <2>3 DEF Finish, Count
    <3> QED BY <2>1, <2>2, <2>3, <3>1, SessionUntouched
  <2>4. CASE ~Refused(m)
    BY <1>5, <2>1, <2>2, <2>4, SessionEnds DEF Finish
  <2> QED BY <2>3, <2>4
<1>6. CASE Sent(m) BY <1>5, <1>6 DEF Sent
<1>7. CASE Cancelled(m)
  <2> USE <1>7 DEF Cancelled
  <2>1. CASE task[m] = "new"
    <3>1. \A l \in Messages : Registered(l)' <=> Registered(l)
      BY <2>1 DEF Registered, Refused
    <3>2. \A c \in Clients : Count(c)' = Count(c)
      BY <2>1 DEF Count
    <3> QED BY <3>1, <3>2, SessionUntouched
  <2>2. CASE task[m] # "new" BY <1>5, <2>2 DEF Active
  <2> QED BY <2>1, <2>2
<1> QED BY <1>1, <1>2, <1>3, <1>4, <1>6, <1>7 DEF TaskStep

\* Nobody else touches the books.
LEMMA SessionOtherStep ==
  ASSUME TypeOK, SessionInv,
         \/ \E m \in Messages : Receive(m)
         \/ \E m \in Frame : JobStarts(m) \/ JobEnds(m)
         \/ ReceiveFails \/ Shutdown \/ CloseSocket \/ StopReturns \/ RunEnds
  PROVE  SessionInv'
<1> USE DEF taskVars, metricsVars, sessionVars
<1>1. UNCHANGED <<sessions, activeRequests>>
  BY DEF Receive, JobStarts, JobEnds, ReceiveFails, Shutdown, BeginStop, CloseSocket, StopReturns, RunEnds
<1>2. \A c \in Clients : Count(c)' = Count(c)
  BY <1>1 DEF Count
<1>3. \A l \in Messages : Registered(l)' <=> Registered(l)
  <2>1. ASSUME NEW m \in Messages, Receive(m) PROVE \A l \in Messages : Registered(l)' <=> Registered(l)
    BY <2>1 DEF Receive, Registered, Refused, TypeOK
  <2>2. CASE UNCHANGED <<task, outgoing>>
    BY <2>2 DEF Registered, Refused
  <2>3. CASE ReceiveFails \/ Shutdown BY <2>2, <2>3 DEF ReceiveFails, Shutdown, BeginStop
  <2>4. CASE CloseSocket \/ StopReturns \/ RunEnds BY <2>2, <2>4 DEF CloseSocket, StopReturns, RunEnds
  <2>5. ASSUME NEW m \in Frame, JobStarts(m) \/ JobEnds(m) PROVE UNCHANGED <<task, outgoing>>
    BY <2>5 DEF JobStarts, JobEnds
  <2> QED BY <2>1, <2>2, <2>3, <2>4, <2>5
<1> QED BY <1>2, <1>3, SessionUntouched
-----------------------------------------------------------------------------
\* What the daemon keeps true in every state; each part is preserved with the
\* help of the others.
DaemonInv == /\ ReplyInv /\ DoomedForCause /\ HeldByLiveTasks /\ CancelFindsTask
             /\ StopInv /\ JobInv /\ SessionInv

\* At the start nothing is in progress.
LEMMA DaemonInvInit == Init => DaemonInv
<1> SUFFICES ASSUME Init PROVE DaemonInv
  OBVIOUS
<1> USE DEF Init
<1>1. \A m \in Messages : task[m] = "absent" /\ ~Registered(m)
  BY DEF Registered
<1>2. ReplyInv /\ DoomedForCause
  BY DEF ReplyInv, Answered, DoomedForCause
<1>8. StopInv
  BY DEF StopInv
<1>3. HeldByLiveTasks
  BY DEF HeldByLiveTasks, FoundIsLive, LockIsHeld
<1>4. CancelFindsTask
  BY <1>1, KeyTypes, DaemonAssumption DEF CancelFindsTask, DaemonAssumption
<1>5. JobInv
  BY DEF JobInv
<1>6. \A c \in Clients : ServedFor(c) = {} /\ Count(c) = 0
  BY <1>1 DEF ServedFor, Count
<1>7. SessionInv
  BY <1>6, FS_EmptySet DEF SessionInv, InProgress
<1> QED BY <1>2, <1>3, <1>4, <1>5, <1>7, <1>8 DEF DaemonInv

\* DaemonInv is an invariant of the daemon.
LEMMA DaemonInvariant == Spec => []DaemonInv
<1>1. TypeOK /\ DaemonInv /\ [Next]_vars => DaemonInv'
  <2> SUFFICES ASSUME TypeOK, DaemonInv, [Next]_vars PROVE DaemonInv'
    OBVIOUS
  <2> USE DEF DaemonInv
  <2>1. CASE UNCHANGED vars
    <3> USE <2>1 DEF vars, taskVars, stopVars, metricsVars, sessionVars
    <3>1. UNCHANGED <<ReplyInv, DoomedForCause>>
      BY DEF ReplyInv, Answered, DoomedForCause, WasCancelled
    <3>2. UNCHANGED <<HeldByLiveTasks, CancelFindsTask>>
      BY DEF HeldByLiveTasks, FoundIsLive, LockIsHeld, CancelFindsTask, SharesKey, Registered, Refused
    <3>3. UNCHANGED <<StopInv, JobInv>>
      BY DEF StopInv, JobInv, Active
    <3>4. SessionInv'
      BY SessionUntouched DEF Registered, Refused, Count
    <3> QED BY <3>1, <3>2, <3>3, <3>4
  <2>2. ASSUME NEW m \in Messages, TaskStep(m) PROVE DaemonInv'
    BY <2>2, ReplyTaskStep, RegistryTaskStep, StopTaskStep, JobTaskStep, SessionTaskStep
  <2>3. CASE \/ \E m \in Messages : Receive(m)
             \/ \E m \in Frame : JobStarts(m) \/ JobEnds(m)
             \/ ReceiveFails \/ Shutdown \/ CloseSocket \/ StopReturns \/ RunEnds
    BY <2>3, ReplyOtherStep, RegistryOtherStep, StopOtherStep, JobOtherStep, SessionOtherStep
  <2> QED BY <2>1, <2>2, <2>3 DEF Next
<1> QED BY <1>1, DaemonInvInit, TypeCorrect, PTL DEF Spec

\* A request gets one reply and no second one; only requests that were
\* cancelled, and those whose handler raises, end without.
THEOREM RequestsAnsweredOnce == Spec => []Answered
<1>1. DaemonInv => Answered
  BY DEF DaemonInv, ReplyInv
<1> QED BY <1>1, DaemonInvariant, PTL

\* CANCEL_REQUEST finds the task of a request in progress whose key is its own.
THEOREM CancelReachesTask == Spec => []CancelFindsTask
<1>1. DaemonInv => CancelFindsTask
  BY DEF DaemonInv
<1> QED BY <1>1, DaemonInvariant, PTL

\* Registry and send lock refer to tasks in progress only, even if clients use
\* ids twice and cancellations hit the send itself.
THEOREM NothingHeldByDeadTasks == Spec => []HeldByLiveTasks
<1>1. DaemonInv => HeldByLiveTasks
  BY DEF DaemonInv
<1> QED BY <1>1, DaemonInvariant, PTL

\* The socket is closed when no task is left to use it, and stop() returns when
\* no thread works for the daemon any more.
THEOREM StopLeavesNothing == Spec => []StoppedIsQuiet
<1>1. TypeOK /\ DaemonInv => StoppedIsQuiet
  <2> SUFFICES ASSUME TypeOK, DaemonInv PROVE StoppedIsQuiet
    OBVIOUS
  <2> USE DEF DaemonInv, StopInv
  <2>1. ~socket => Active = {} /\ lock = NoOne
    BY DEF HeldByLiveTasks, LockIsHeld, Active, TypeOK
  <2>2. stopAt = "done" => \A m \in Frame : job[m] \notin {"queued", "running"}
    OBVIOUS
  <2> QED BY <2>1, <2>2 DEF StoppedIsQuiet
<1> QED BY <1>1, DaemonInvariant, TypeCorrect, PTL

\* No thread compresses a frame that has been closed, but for requests that
\* were cancelled meanwhile.
THEOREM FramesStayOpen == Spec => []OpenWhileCompressed
<1>1. DaemonInv => OpenWhileCompressed
  BY DEF DaemonInv, JobInv, OpenWhileCompressed
<1> QED BY <1>1, DaemonInvariant, PTL

\* The counter of every session is the number of requests in progress for its
\* client, for any number of clients and messages.
THEOREM SessionCountersExact == Spec => []ActiveRequestsExact
<1>1. DaemonInv => ActiveRequestsExact
  BY DEF DaemonInv, SessionInv, ActiveRequestsExact
<1> QED BY <1>1, DaemonInvariant, PTL
=============================================================================
