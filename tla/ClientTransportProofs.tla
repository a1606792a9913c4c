------------------------ MODULE ClientTransportProofs ------------------------
(***************************************************************************)
(* What ClientTransport guarantees for any number of requests, callers,    *)
(* restarts and ids.                                                       *)
(***************************************************************************)
EXTENDS ClientTransport, TLAPS

\* A group of variables that a step leaves alone keeps its type.
LEMMA Untouched ==
  ASSUME TypeOK
  PROVE  /\ UNCHANGED flagVars => FlagTypes'
         /\ UNCHANGED callerVars => CallerTypes'
         /\ UNCHANGED workerVars => WorkerTypes'
         /\ UNCHANGED trackerVars => TrackerTypes'
         /\ UNCHANGED requestVars => RequestTypes'
         /\ UNCHANGED wireVars => WireTypes'
         /\ UNCHANGED hand => HandType'
<1> USE DEF TypeOK
<1>1. UNCHANGED flagVars => FlagTypes'
  BY DEF FlagTypes, flagVars
<1>2. UNCHANGED callerVars => CallerTypes'
  BY DEF CallerTypes, callerVars
<1>3. UNCHANGED workerVars => WorkerTypes'
  BY DEF WorkerTypes, workerVars
<1>4. UNCHANGED trackerVars => TrackerTypes'
  BY DEF TrackerTypes, trackerVars
<1>5. UNCHANGED requestVars => RequestTypes'
  BY DEF RequestTypes, requestVars
<1>6. UNCHANGED wireVars => WireTypes'
  BY DEF WireTypes, wireVars
<1>7. UNCHANGED hand => HandType'
  BY DEF HandType
<1> QED BY <1>1, <1>2, <1>3, <1>4, <1>5, <1>6, <1>7

\* Steps of a thread inside start() or close().
LEMMA CallerStepTypes ==
  ASSUME TypeOK, NEW c \in Callers, CallerStep(c)
  PROVE  TypeOK'
<1> USE TransportAssumption, Untouched
        DEF TypeOK, CallerTypes, Goto, Release, Labels
<1>1. CASE StartWorker(c)
  <2>1. WorkerTypes' BY <1>1 DEF StartWorker, WorkerTypes, FlagTypes, Incarnations, Stages
  <2>2. FlagTypes' BY <1>1 DEF StartWorker, FlagTypes, Incarnations
  <2> QED BY <1>1, <2>1, <2>2 DEF StartWorker
<1>2. CASE StartSucceeds(c) BY <1>2 DEF StartSucceeds, FlagTypes
<1>3. CASE StartReturns(c) BY <1>3 DEF StartReturns
<1>4. CASE StartFails(c) BY <1>4 DEF StartFails
<1>5. CASE CloseEnter(c) BY <1>5 DEF CloseEnter, FlagTypes
<1>6. CASE CloseRejects(c)
  <2>1. FlagTypes' BY <1>6 DEF CloseRejects, FlagTypes
  <2>2. RequestTypes' /\ TrackerTypes'
    BY <1>6 DEF CloseRejects, TrackerClose, Failed, RequestTypes, TrackerTypes, Outcomes
  <2> QED BY <1>6, <2>1, <2>2 DEF CloseRejects
<1>7. CASE ClosePosts(c) BY <1>7 DEF ClosePosts, FlagTypes, WorkerTypes
<1>8. CASE CloseReturns(c) BY <1>8 DEF CloseReturns
<1> QED BY <1>1, <1>2, <1>3, <1>4, <1>5, <1>6, <1>7, <1>8 DEF CallerStep

\* Steps of a thread inside send_request or a cancellation.
LEMMA RequestStepTypes ==
  ASSUME TypeOK, NEW r \in Requests, RequestStep(r)
  PROVE  TypeOK'
<1> USE TransportAssumption, Untouched DEF TypeOK, RequestTypes, Steps, Outcomes, SendFails, Failed
<1>1. CASE Check(r) BY <1>1 DEF Check
<1>2. CASE Allocate(r)
  <2>1. TrackerTypes' BY <1>2 DEF Allocate, FirstFree, Succ, Ids, TrackerTypes, Rivals
  <2> QED BY <1>2, <2>1 DEF Allocate
<1>3. CASE Recheck(r) BY <1>3 DEF Recheck, TrackerTypes
<1>4. CASE HandOver(r)
  <2>1. TrackerTypes' /\ RequestTypes' BY <1>4 DEF HandOver, TrackerTypes
  <2>2. WireTypes'
    BY <1>4 DEF HandOver, WireTypes, MessageStates, FlagTypes, Incarnations
  <2> QED BY <1>4, <2>1, <2>2 DEF HandOver
<1>5. CASE CancelFuture(r) BY <1>5 DEF CancelFuture
<1>6. CASE CancelRequest(r)
  <2>1. TrackerTypes' BY <1>6 DEF CancelRequest, TrackerTypes
  <2>2. RequestTypes' BY <1>6 DEF CancelRequest, Holders, TrackerTypes
  <2> QED BY <1>6, <2>1, <2>2 DEF CancelRequest
<1> QED BY <1>1, <1>2, <1>3, <1>4, <1>5, <1>6 DEF RequestStep

\* Steps of a worker thread.
LEMMA WorkerStepTypes ==
  ASSUME TypeOK, NEW w \in Incarnations, WorkerStep(w)
  PROVE  TypeOK'
<1> USE TransportAssumption, Untouched DEF TypeOK
<1>0. \A from, to \in Stages : Advance(w, from, to) => stage' \in [Incarnations -> Stages]
  BY DEF Advance, WorkerTypes
<1> USE <1>0 DEF StartupFails
<1>1. CASE BootFails(w)
  <2>1. WorkerTypes' BY <1>1 DEF BootFails, WorkerTypes, Stages
  <2>2. FlagTypes' BY <1>1 DEF BootFails, FlagTypes
  <2> QED BY <1>1, <2>1, <2>2 DEF BootFails
<1>2. CASE EnterLoop(w)
  <2>1. WorkerTypes' BY <1>2 DEF EnterLoop, WorkerTypes, Stages
  <2>2. FlagTypes' BY <1>2 DEF EnterLoop, FlagTypes
  <2> QED BY <1>2, <2>1, <2>2 DEF EnterLoop
<1>3. CASE Connect(w)
  <2>1. WorkerTypes' BY <1>3 DEF Connect, WorkerTypes, Stages
  <2> QED BY <1>3, <2>1 DEF Connect
<1>4. CASE ConnectFails(w)
  <2>1. WorkerTypes' BY <1>4 DEF ConnectFails, WorkerTypes, Stages
  <2>2. FlagTypes' BY <1>4 DEF ConnectFails, FlagTypes
  <2> QED BY <1>4, <2>1, <2>2 DEF ConnectFails
<1>5. CASE CheckStartup(w)
  <2>1. WorkerTypes' BY <1>5 DEF CheckStartup, WorkerTypes, Stages
  <2> QED BY <1>5, <2>1 DEF CheckStartup
<1>6. CASE SetRunning(w)
  <2>1. WorkerTypes' BY <1>6 DEF SetRunning, WorkerTypes, Stages
  <2>2. FlagTypes' BY <1>6 DEF SetRunning, FlagTypes
  <2> QED BY <1>6, <2>1, <2>2 DEF SetRunning
<1>7. CASE Announce(w)
  <2>1. WorkerTypes' BY <1>7 DEF Announce, WorkerTypes, Stages
  <2>2. FlagTypes' BY <1>7 DEF Announce, FlagTypes
  <2> QED BY <1>7, <2>1, <2>2 DEF Announce
<1>8. ASSUME NEW r \in Requests, SendLoop(w, r) PROVE TypeOK'
  <2>1. WorkerTypes' BY <1>8 DEF SendLoop, WorkerTypes, FlagTypes
  <2>2. WireTypes' BY <1>8 DEF SendLoop, WireTypes, MessageStates
  <2> QED BY <1>8, <2>1, <2>2 DEF SendLoop
<1>9. ASSUME NEW r \in Requests, Receive(w, r) PROVE TypeOK'
  <2> USE <1>9 DEF Receive
  <2>1. WorkerTypes' BY DEF WorkerTypes, FlagTypes
  <2>2. WireTypes' BY DEF WireTypes, MessageStates
  <2>3. HandType' /\ TrackerTypes' BY DEF HandType, TrackerTypes
  <2> QED BY <2>1, <2>2, <2>3
<1>10. CASE Resolve(w)
  <2>1. RequestTypes' BY <1>10 DEF Resolve, RequestTypes, HandType, Outcomes
  <2>2. HandType' BY <1>10 DEF Resolve, HandType
  <2> QED BY <1>10, <2>1, <2>2 DEF Resolve
<1>11. CASE ReceiveBreaks(w)
  <2>1. WorkerTypes' BY <1>11 DEF ReceiveBreaks, WorkerTypes, Stages
  <2> QED BY <1>11, <2>1 DEF ReceiveBreaks
<1>12. CASE ServeEnds(w)
  <2>1. WorkerTypes' BY <1>12 DEF ServeEnds, WorkerTypes, Stages
  <2> QED BY <1>12, <2>1 DEF ServeEnds
<1>13. CASE Crash(w)
  <2>1. WorkerTypes' BY <1>13 DEF Crash, WorkerTypes, Stages
  <2> QED BY <1>13, <2>1 DEF Crash
<1>14. CASE Cleanup(w)
  <2> USE <1>14 DEF Cleanup
  <2>1. WorkerTypes' BY DEF WorkerTypes, Stages
  <2>2. WireTypes' BY DEF WireTypes, MessageStates
  <2>3. RequestTypes' BY DEF RequestTypes, TrackerClose, Failed, Outcomes
  <2>4. TrackerTypes' BY DEF TrackerTypes, TrackerClose
  <2> QED BY <2>1, <2>2, <2>3, <2>4
<1>15. CASE Unwind(w)
  <2> USE <1>15 DEF Unwind
  <2>1. WorkerTypes' BY DEF WorkerTypes, Stages
  <2>2. WireTypes' BY DEF WireTypes, MessageStates
  <2> QED BY <2>1, <2>2
<1>16. CASE StopRunning(w)
  <2>1. WorkerTypes' BY <1>16 DEF StopRunning, WorkerTypes, Stages
  <2>2. FlagTypes' BY <1>16 DEF StopRunning, FlagTypes
  <2> QED BY <1>16, <2>1, <2>2 DEF StopRunning
<1>17. CASE ClearLoop(w)
  <2>1. WorkerTypes' BY <1>17 DEF ClearLoop, WorkerTypes, Stages
  <2>2. FlagTypes' BY <1>17 DEF ClearLoop, FlagTypes
  <2> QED BY <1>17, <2>1, <2>2 DEF ClearLoop
<1> QED BY <1>1, <1>2, <1>3, <1>4, <1>5, <1>6, <1>7, <1>8, <1>9, <1>10, <1>11,
           <1>12, <1>13, <1>14, <1>15, <1>16, <1>17 DEF WorkerStep

\* Every variable of the transport keeps its type, for any number of threads,
\* requests, ids and restarts.
THEOREM TypeCorrect == Spec => []TypeOK
<1>1. Init => TypeOK
  <2> SUFFICES ASSUME Init PROVE TypeOK
    OBVIOUS
  <2> USE TransportAssumption DEF TransportAssumption, Init
  <2>1. FlagTypes
    <3>1. closed \in BOOLEAN /\ started \in BOOLEAN /\ running \in BOOLEAN /\ drained \in BOOLEAN
      OBVIOUS
    <3>2. current \in 0..MaxIncarnation
      OBVIOUS
    <3> QED BY <3>1, <3>2 DEF FlagTypes
  <2>2. CallerTypes BY DEF CallerTypes, Labels
  <2>3. WorkerTypes
    <3>1. crashes \in 0..MaxCrashes
      OBVIOUS
    <3>2. stage \in [Incarnations -> Stages]
      BY DEF Stages
    <3> QED BY <3>1, <3>2 DEF WorkerTypes
  <2>4. TrackerTypes
    <3>1. nextId \in Ids
      BY DEF Ids
    <3>2. id \in [Requests -> 0..MaxId]
      OBVIOUS
    <3> QED BY <3>1, <3>2 DEF TrackerTypes
  <2>5. RequestTypes BY DEF RequestTypes, Steps, Outcomes
  <2>6. WireTypes BY DEF WireTypes, MessageStates
  <2>7. HandType BY DEF HandType
  <2> QED BY <2>1, <2>2, <2>3, <2>4, <2>5, <2>6, <2>7 DEF TypeOK
<1>2. TypeOK /\ [Next]_vars => TypeOK'
  <2> SUFFICES ASSUME TypeOK, [Next]_vars PROVE TypeOK'
    OBVIOUS
  <2>1. CASE UNCHANGED vars
    BY <2>1, Untouched DEF vars, TypeOK
  <2> QED BY <2>1, CallerStepTypes, RequestStepTypes, WorkerStepTypes DEF Next
<1> QED BY <1>1, <1>2, PTL DEF Spec
-----------------------------------------------------------------------------
\* A request that is over stays over: its id is never used on its behalf again.
LEMMA OverStays ==
  ASSUME TypeOK, [Next]_vars
  PROVE  \A r \in Requests : Over(r) => Over(r)'
<1> SUFFICES ASSUME NEW s \in Requests, Over(s) PROVE Over(s)'
  OBVIOUS
<1> USE DEF TypeOK, RequestTypes, WireTypes, callerVars, flagVars, workerVars, trackerVars,
            requestVars, wireVars
<1>1. CASE UNCHANGED <<requestVars, wireVars>>
  BY <1>1 DEF Over
<1>2. ASSUME NEW c \in Callers, CallerStep(c) PROVE Over(s)'
  <2>1. CASE StartWorker(c) \/ StartSucceeds(c) \/ StartReturns(c) \/ StartFails(c)
    BY <1>1, <2>1 DEF StartWorker, StartSucceeds, StartReturns, StartFails
  <2>2. CASE CloseEnter(c) \/ ClosePosts(c) \/ CloseReturns(c)
    BY <1>1, <2>2 DEF CloseEnter, ClosePosts, CloseReturns
  <2>3. CASE CloseRejects(c)
    BY <2>3 DEF CloseRejects, TrackerClose, Failed, Over
  <2> QED BY <1>2, <2>1, <2>2, <2>3 DEF CallerStep
<1>3. ASSUME NEW r \in Requests, RequestStep(r) PROVE Over(s)'
  <2>1. CASE Check(r) BY <2>1 DEF Check, Over
  <2>2. CASE Allocate(r) BY <2>2 DEF Allocate, Over
  <2>3. CASE Recheck(r) BY <2>3 DEF Recheck, SendFails, Failed, Over
  <2>4. CASE HandOver(r) BY <2>4 DEF HandOver, SendFails, Failed, Over
  <2>5. CASE CancelFuture(r) BY <2>5 DEF CancelFuture, Over
  <2>6. CASE CancelRequest(r) BY <2>6 DEF CancelRequest, Over
  <2> QED BY <1>3, <2>1, <2>2, <2>3, <2>4, <2>5, <2>6 DEF RequestStep
<1>4. ASSUME NEW w \in Incarnations, WorkerStep(w) PROVE Over(s)'
  <2>1. CASE BootFails(w) \/ EnterLoop(w) \/ Connect(w) \/ ConnectFails(w)
    BY <1>1, <2>1 DEF BootFails, EnterLoop, Connect, ConnectFails
  <2>2. CASE CheckStartup(w) \/ SetRunning(w) \/ Announce(w)
    BY <1>1, <2>2 DEF CheckStartup, SetRunning, Announce
  <2>3. CASE ReceiveBreaks(w) \/ ServeEnds(w) \/ Crash(w) \/ StopRunning(w) \/ ClearLoop(w)
    BY <1>1, <2>3 DEF ReceiveBreaks, ServeEnds, Crash, StopRunning, ClearLoop
  <2>4. ASSUME NEW q \in Requests, SendLoop(w, q) PROVE Over(s)'
    BY <2>4 DEF SendLoop, Over
  <2>5. ASSUME NEW q \in Requests, Receive(w, q) PROVE Over(s)'
    BY <2>5 DEF Receive, Over
  <2>6. CASE Resolve(w) BY <2>6 DEF Resolve, Over
  <2>7. CASE Cleanup(w) BY <2>7 DEF Cleanup, TrackerClose, Failed, Over
  <2>8. CASE Unwind(w) BY <2>8 DEF Unwind, Over
  <2> QED BY <1>4, <2>1, <2>2, <2>3, <2>4, <2>5, <2>6, <2>7, <2>8 DEF WorkerStep
<1>5. CASE UNCHANGED vars
  BY <1>1, <1>5 DEF vars
<1> QED BY <1>2, <1>3, <1>4, <1>5 DEF Next

\* What SettleInv talks about, left alone by most steps.
settleVars == <<trackerVars, requestVars, hand, closed, drained>>

\* A step that leaves these alone and sends nothing preserves SettleInv.
LEMMA SettleUntouched ==
  ASSUME SettleInv, UNCHANGED settleVars, [Next]_vars, TypeOK,
         \A c \in Callers : at'[c] = "reject" => closed,
         \A r \in Requests : msg[r] = "none" => msg'[r] = "none"
  PROVE  SettleInv'
<1> USE DEF SettleInv, settleVars, trackerVars, requestVars
<1>1. OneUser'
  BY OverStays DEF OneUser
<1>2. EntriesApart' /\ PendingInUse' /\ NotYet' /\ HandInv'
  BY DEF EntriesApart, PendingInUse, NotYet, HandInv
<1>3. OpenIsTracked' /\ RightAnswer' /\ DrainedSettles'
  BY DEF OpenIsTracked, RightAnswer, DrainedSettles, InHand
<1> QED BY <1>1, <1>2, <1>3

\* The requests between which a pop by id cannot mistake one for the other.
LEMMA OneHolder ==
  ASSUME TypeOK, SettleInv, NEW p \in pending, p \notin contested,
         NEW r \in Requests, id[p] = id[r], ~Over(r)
  PROVE  p = r
<1>1. p \in Requests /\ id[p] # 0 /\ ~Over(p)
  BY DEF TypeOK, TrackerTypes, SettleInv, NotYet, PendingInUse, Over
<1> QED BY <1>1 DEF SettleInv, OneUser

\* Closing rejects what is pending and nothing reopens a closed transport.
LEMMA SettleCallerStep ==
  ASSUME TypeOK, SettleInv, NEW c \in Callers, CallerStep(c)
  PROVE  SettleInv'
<1> USE DEF TypeOK, CallerTypes, Goto, Release
<1>0. [Next]_vars
  BY DEF Next
<1>1. CASE UNCHANGED <<settleVars, wireVars>> /\ at' \in [Callers -> Labels]
          /\ \A d \in Callers : at'[d] = "reject" => at[d] = "reject"
  BY <1>0, <1>1, SettleUntouched DEF SettleInv, wireVars
<1>2. CASE CloseEnter(c)
  <2> USE <1>2 DEF CloseEnter, flagVars, trackerVars, requestVars, wireVars
  <2>1. closed' /\ ~drained'
    BY DEF SettleInv
  <2>2. OneUser'
    BY <1>0, OverStays DEF SettleInv, OneUser
  <2>3. EntriesApart' /\ PendingInUse' /\ NotYet' /\ HandInv'
    BY DEF SettleInv, EntriesApart, PendingInUse, NotYet, HandInv
  <2>4. OpenIsTracked' /\ RightAnswer' /\ DrainedSettles'
    BY <2>1 DEF SettleInv, OpenIsTracked, RightAnswer, DrainedSettles, InHand
  <2> QED BY <2>1, <2>2, <2>3, <2>4 DEF SettleInv
<1>3. CASE CloseRejects(c)
  <2> USE <1>3 DEF CloseRejects, wireVars
  <2>1. closed /\ closed' /\ pending' = {} /\ \A d \in Callers : at'[d] = "reject" => at[d] = "reject"
    BY DEF TrackerClose, SettleInv
  <2>2. \A r \in Requests : fut'[r] = "open" => fut[r] = "open" /\ r \notin pending
    BY DEF TrackerClose, Failed
  <2>3. \A r \in Requests \ contested : fut'[r] = "open" => InHand(r)'
    BY <2>2 DEF SettleInv, OpenIsTracked, InHand
  <2>4. OneUser'
    BY <1>0, OverStays DEF SettleInv, OneUser
  <2>5. NotYet'
    BY <2>1 DEF SettleInv, NotYet, TrackerClose, Failed
  <2>6. EntriesApart' /\ PendingInUse' /\ HandInv' /\ RightAnswer'
    BY <2>1 DEF SettleInv, EntriesApart, PendingInUse, HandInv, RightAnswer
  <2> QED BY <2>1, <2>3, <2>4, <2>5, <2>6 DEF SettleInv, OpenIsTracked, DrainedSettles
<1> QED
  <2> SUFFICES ASSUME ~CloseEnter(c), ~CloseRejects(c)
               PROVE  UNCHANGED <<settleVars, wireVars>> /\ at' \in [Callers -> Labels]
                      /\ \A d \in Callers : at'[d] = "reject" => at[d] = "reject"
    BY <1>1, <1>2, <1>3
  <2> USE DEF settleVars, flagVars, requestVars, Labels
  <2>1. CASE StartWorker(c) BY <2>1 DEF StartWorker
  <2>2. CASE StartSucceeds(c) BY <2>2 DEF StartSucceeds
  <2>3. CASE StartReturns(c) BY <2>3 DEF StartReturns
  <2>4. CASE StartFails(c) BY <2>4 DEF StartFails
  <2>5. CASE ClosePosts(c) BY <2>5 DEF ClosePosts
  <2>6. CASE CloseReturns(c) BY <2>6 DEF CloseReturns
  <2> QED BY <2>1, <2>2, <2>3, <2>4, <2>5, <2>6 DEF CallerStep

\* allocate() gives out an id no entry has, and contests it if some request
\* still uses it.
LEMMA SettleAllocate ==
  ASSUME TypeOK, SettleInv, NEW r \in Requests, Allocate(r)
  PROVE  SettleInv'
<1> USE DEF TypeOK, RequestTypes, TrackerTypes, HandType, callerVars, flagVars, wireVars, Allocate
<1>0. [Next]_vars
  BY DEF Next, RequestStep
<1>1. PICK i \in Ids : /\ FirstFree(i) /\ id' = [id EXCEPT ![r] = i]
                       /\ contested' = IF Rivals(r, i) = {} THEN contested
                                       ELSE contested \cup Rivals(r, i) \cup {r}
  OBVIOUS
<1>2. i # 0 /\ id[r] = 0 /\ fut[r] = "none" /\ r \notin pending /\ msg[r] = "none" /\ ~InHand(r)
  BY TransportAssumption DEF TransportAssumption, Ids, SettleInv, NotYet, HandInv, InHand
<1>3. \A s \in Requests : id'[s] = IF s = r THEN i ELSE id[s]
  BY <1>1
<1>4. contested \subseteq contested' /\ \A s \in Rivals(r, i) : s \in contested' /\ r \in contested'
  BY <1>1
<1>5. EntriesApart'
  BY <1>1, <1>3 DEF SettleInv, EntriesApart, FirstFree, UsedIds
<1>6. PendingInUse'
  BY DEF SettleInv, PendingInUse
<1>7. OneUser'
  <2> SUFFICES ASSUME NEW p \in Requests \ contested', NEW q \in Requests,
                      p # q, id'[p] = id'[q], id'[p] # 0
               PROVE  Over(p)' \/ Over(q)'
    BY DEF OneUser
  <2>1. CASE p # r /\ q # r
    BY <1>0, <1>3, <1>4, <2>1, OverStays DEF SettleInv, OneUser
  <2>2. CASE p = r
    <3>1. q \notin Rivals(r, i)
      BY <1>4, <2>2
    <3>2. Over(q)
      BY <1>1, <1>3, <2>2, <3>1 DEF Rivals, FirstFree, UsedIds
    <3> QED BY <1>0, <3>2, OverStays
  <2>3. CASE q = r
    <3>1. p \notin Rivals(r, i)
      BY <1>4
    <3>2. Over(p)
      BY <1>1, <1>3, <2>3, <3>1 DEF Rivals, FirstFree, UsedIds
    <3> QED BY <1>0, <3>2, OverStays
  <2> QED BY <2>1, <2>2, <2>3
<1>8. NotYet'
  BY <1>2, <1>3 DEF SettleInv, NotYet
<1>9. HandInv'
  BY <1>2, <1>3, <1>4 DEF SettleInv, HandInv, InHand
<1>10. OpenIsTracked' /\ RightAnswer' /\ DrainedSettles'
  BY <1>2, <1>4 DEF SettleInv, OpenIsTracked, RightAnswer, DrainedSettles, InHand
<1> QED BY <1>5, <1>6, <1>7, <1>8, <1>9, <1>10 DEF SettleInv

\* A send that fails pops the entry with its id, which is its own or that of a
\* contested request.
LEMMA SettleSendFails ==
  ASSUME TypeOK, SettleInv, NEW r \in Requests, RequestStep(r),
         step[r] \in {"allocated", "sending"}, SendFails(r),
         UNCHANGED <<callerVars, flagVars, wireVars, hand>>
  PROVE  SettleInv'
<1> USE DEF TypeOK, RequestTypes, TrackerTypes, HandType, callerVars, flagVars, wireVars, SendFails
<1>0. [Next]_vars /\ ~Over(r)
  BY DEF Next, Over
<1>1. pending' \subseteq pending /\ r \notin pending'
  BY DEF Holders
<1>2. \A p \in pending \ contested : p # r => p \in pending'
  BY <1>0, OneHolder DEF Holders
<1>3. fut'[r] # "open" /\ \A s \in Requests : s # r => fut'[s] = fut[s]
  BY DEF Failed
<1>4. EntriesApart' /\ HandInv' /\ RightAnswer'
  BY <1>1 DEF SettleInv, EntriesApart, HandInv, RightAnswer
<1>5. PendingInUse'
  BY <1>1, <1>3 DEF SettleInv, PendingInUse
<1>6. OneUser'
  BY <1>0, OverStays DEF SettleInv, OneUser
<1>7. NotYet'
  <2>1. fut'[r] # "none" /\ step'[r] = "returned"
    BY DEF SettleInv, NotYet, Failed
  <2>2. \A s \in Requests : s # r => step'[s] = step[s]
    OBVIOUS
  <2>3. UNCHANGED <<id, msg, dropping>>
    OBVIOUS
  <2>4. id[r] # 0 /\ NotYet
    BY DEF SettleInv, NotYet
  <2> HIDE DEF TypeOK, RequestTypes, TrackerTypes, HandType, callerVars, flagVars, wireVars, SendFails
  <2> QED BY <1>1, <1>3, <2>1, <2>2, <2>3, <2>4 DEF NotYet
<1>8. OpenIsTracked' /\ DrainedSettles'
  BY <1>2, <1>3 DEF SettleInv, OpenIsTracked, DrainedSettles, InHand
<1> QED BY <1>4, <1>5, <1>6, <1>7, <1>8 DEF SettleInv

\* The other steps of a request; a cancellation that hits the entry of another
\* request settles that one's future with it.
LEMMA SettleRequestStep ==
  ASSUME TypeOK, SettleInv, NEW r \in Requests, RequestStep(r)
  PROVE  SettleInv'
<1>0. [Next]_vars
  BY DEF Next
<1>1. OneUser' \/ Allocate(r)
  <2> SUFFICES ASSUME ~Allocate(r) PROVE UNCHANGED <<id, contested>>
    BY <1>0, OverStays DEF SettleInv, OneUser
  <2> QED BY DEF RequestStep, Check, Recheck, HandOver, CancelFuture, CancelRequest, SendFails,
                 trackerVars
<1> USE DEF TypeOK, RequestTypes, TrackerTypes, WireTypes, HandType, callerVars, flagVars, trackerVars
<1>2. CASE Check(r)
  <2> USE <1>2 DEF Check, wireVars
  <2>1. EntriesApart' /\ HandInv' /\ RightAnswer' /\ PendingInUse'
    BY DEF SettleInv, EntriesApart, HandInv, RightAnswer, PendingInUse, NotYet
  <2>2. NotYet' BY DEF SettleInv, NotYet
  <2>3. OpenIsTracked' /\ DrainedSettles'
    BY DEF SettleInv, OpenIsTracked, DrainedSettles, InHand, NotYet
  <2> QED BY <1>1, <2>1, <2>2, <2>3 DEF SettleInv, Allocate
<1>3. CASE Allocate(r) BY <1>3, SettleAllocate
<1>4. CASE Recheck(r) /\ ~SendFails(r)
  <2> USE <1>4 DEF Recheck, wireVars
  <2>1. ~drained BY DEF Ready, SettleInv
  <2>2. EntriesApart' /\ HandInv' /\ RightAnswer' /\ PendingInUse' /\ NotYet'
    BY DEF SettleInv, EntriesApart, HandInv, RightAnswer, PendingInUse, NotYet
  <2>3. OpenIsTracked' /\ DrainedSettles'
    BY <2>1 DEF SettleInv, OpenIsTracked, DrainedSettles, InHand
  <2> QED BY <1>1, <2>2, <2>3 DEF SettleInv, Allocate
<1>5. CASE HandOver(r) /\ UNCHANGED <<trackerVars, fut, dropping>>
  <2> USE <1>5 DEF HandOver, SendFails
  <2>1. EntriesApart' /\ HandInv' /\ RightAnswer' /\ PendingInUse'
    BY DEF SettleInv, EntriesApart, HandInv, RightAnswer, PendingInUse
  <2>2. NotYet'
    BY DEF SettleInv, NotYet, wireVars
  <2>3. OpenIsTracked' /\ DrainedSettles'
    BY DEF SettleInv, OpenIsTracked, DrainedSettles, InHand
  <2> QED BY <1>1, <2>1, <2>2, <2>3 DEF SettleInv, Allocate
<1>6. CASE (Recheck(r) \/ HandOver(r)) /\ SendFails(r) /\ UNCHANGED wireVars
  <2>1. step[r] \in {"allocated", "sending"} /\ UNCHANGED <<callerVars, flagVars, hand>>
    BY <1>6 DEF Recheck, HandOver
  <2> QED BY <1>6, <2>1, SettleSendFails
<1>7. CASE CancelFuture(r)
  <2> USE <1>7 DEF CancelFuture, wireVars
  <2>1. id[r] # 0
    BY DEF SettleInv, NotYet
  <2>2. EntriesApart' /\ HandInv' /\ RightAnswer' /\ PendingInUse'
    BY DEF SettleInv, EntriesApart, HandInv, RightAnswer, PendingInUse
  <2>3. NotYet' BY <2>1 DEF SettleInv, NotYet
  <2>4. OpenIsTracked' /\ DrainedSettles'
    BY DEF SettleInv, OpenIsTracked, DrainedSettles, InHand
  <2> QED BY <1>1, <2>2, <2>3, <2>4 DEF SettleInv, Allocate
<1>8. CASE CancelRequest(r)
  <2> USE <1>8 DEF CancelRequest, wireVars
  <2>1. pending' = pending \ Holders(id[r]) /\ \A s \in Requests : fut'[s] = "open" => fut[s] = "open"
    OBVIOUS
  <2>2. \A s \in pending : fut'[s] = "open" => s \in pending'
    BY DEF Holders
  <2>3. EntriesApart' /\ HandInv' /\ RightAnswer'
    BY <2>1 DEF SettleInv, EntriesApart, HandInv, RightAnswer
  <2>4. PendingInUse'
    BY DEF SettleInv, PendingInUse, Holders
  <2>5. NotYet'
    BY DEF SettleInv, NotYet, Holders
  <2>6. OpenIsTracked' /\ DrainedSettles'
    BY <2>1, <2>2 DEF SettleInv, OpenIsTracked, DrainedSettles, InHand
  <2> QED BY <1>1, <2>3, <2>4, <2>5, <2>6 DEF SettleInv, Allocate
<1>9. Recheck(r) => UNCHANGED wireVars
  BY DEF Recheck
<1>10. HandOver(r) => UNCHANGED <<trackerVars, fut, dropping>> \/ (SendFails(r) /\ UNCHANGED wireVars)
  BY DEF HandOver
<1> QED BY <1>2, <1>3, <1>4, <1>5, <1>6, <1>7, <1>8, <1>9, <1>10 DEF RequestStep

\* The worker settles what it takes out of the tracker, with the reply that
\* carries its id.
LEMMA SettleWorkerStep ==
  ASSUME TypeOK, SettleInv, NEW w \in Incarnations, WorkerStep(w)
  PROVE  SettleInv'
<1>0. [Next]_vars
  BY DEF Next
<1>1. ASSUME NEW q \in Requests, Receive(w, q) PROVE SettleInv'
  <2> USE <1>1 DEF Receive, callerVars, flagVars, requestVars
  <2>1. OneUser'
    BY <1>0, OverStays DEF SettleInv, OneUser
  <2>2. CASE UNCHANGED <<hand, pending>>
    <3>1. EntriesApart' /\ HandInv' /\ RightAnswer' /\ PendingInUse'
      BY <2>2 DEF SettleInv, EntriesApart, HandInv, RightAnswer, PendingInUse
    <3>2. NotYet'
      BY <2>2 DEF SettleInv, NotYet, TypeOK, WireTypes
    <3>3. OpenIsTracked' /\ DrainedSettles'
      BY <2>2 DEF SettleInv, OpenIsTracked, DrainedSettles, InHand
    <3> QED BY <2>1, <3>1, <3>2, <3>3 DEF SettleInv
  <2>3. ASSUME NEW p \in pending, id[p] = id[q], hand' = [entry |-> p, about |-> q],
               pending' = pending \ {s \in pending : id[s] = id[q]}
        PROVE  SettleInv'
    <3>1. pending' = pending \ {p} /\ p \in Requests
      BY <2>3 DEF TypeOK, TrackerTypes, SettleInv, EntriesApart
    <3>2. hand' # NoOne /\ hand'.entry = p /\ hand'.about = q
      BY <2>3, <3>1, TransportAssumption DEF TransportAssumption
    <3>3. hand = NoOne
      OBVIOUS
    <3>4. p = q \/ p \in contested
      BY <2>3, OneHolder DEF Over
    <3>5. HandInv'
      BY <3>1, <3>2, <3>4 DEF HandInv, SettleInv, NotYet
    <3>6. EntriesApart' /\ PendingInUse' /\ RightAnswer'
      BY <3>1 DEF SettleInv, EntriesApart, PendingInUse, RightAnswer
    <3>7. NotYet'
      BY <3>1 DEF SettleInv, NotYet, TypeOK, WireTypes
    <3>8. OpenIsTracked' /\ DrainedSettles'
      BY <3>1, <3>2, <3>3 DEF SettleInv, OpenIsTracked, DrainedSettles, InHand
    <3> QED BY <2>1, <3>5, <3>6, <3>7, <3>8 DEF SettleInv
  <2> QED BY <2>2, <2>3
<1>2. CASE Resolve(w)
  <2> USE <1>2 DEF Resolve, TypeOK, HandType, RequestTypes, callerVars, flagVars, trackerVars, wireVars
  <2>1. OneUser'
    BY <1>0, OverStays DEF SettleInv, OneUser
  <2>2. EntriesApart' /\ HandInv'
    BY DEF SettleInv, EntriesApart, HandInv
  <2>6. \A p \in pending : fut'[p] = fut[p]
    BY DEF SettleInv, HandInv, TrackerTypes
  <2>7. PendingInUse'
    BY <2>6 DEF SettleInv, PendingInUse
  <2>3. NotYet'
    BY DEF SettleInv, NotYet, HandInv
  <2>4. RightAnswer'
    BY DEF SettleInv, RightAnswer, HandInv
  <2>5. OpenIsTracked' /\ DrainedSettles'
    BY DEF SettleInv, OpenIsTracked, DrainedSettles, InHand
  <2> QED BY <2>1, <2>2, <2>3, <2>4, <2>5, <2>7 DEF SettleInv
<1>3. CASE Cleanup(w)
  <2> USE <1>3 DEF Cleanup, TrackerClose, Failed, TypeOK, RequestTypes, WireTypes, callerVars, flagVars
  <2>1. OneUser'
    BY <1>0, OverStays DEF SettleInv, OneUser
  <2>2. EntriesApart' /\ HandInv' /\ PendingInUse' /\ RightAnswer'
    BY DEF SettleInv, EntriesApart, HandInv, PendingInUse, RightAnswer
  <2>3. NotYet'
    BY DEF SettleInv, NotYet
  <2>4. OpenIsTracked' /\ DrainedSettles'
    BY DEF SettleInv, OpenIsTracked, DrainedSettles, InHand
  <2> QED BY <2>1, <2>2, <2>3, <2>4 DEF SettleInv
<1>4. ASSUME UNCHANGED <<settleVars, callerVars>>,
             \A r \in Requests : msg[r] = "none" => msg'[r] = "none"
      PROVE SettleInv'
  BY <1>0, <1>4, SettleUntouched DEF callerVars, SettleInv
<1> QED
  <2> SUFFICES ASSUME ~Resolve(w), ~Cleanup(w), \A q \in Requests : ~Receive(w, q)
               PROVE  /\ UNCHANGED <<settleVars, callerVars>>
                      /\ \A r \in Requests : msg[r] = "none" => msg'[r] = "none"
    BY <1>1, <1>2, <1>3, <1>4
  <2> USE DEF settleVars, flagVars, requestVars, wireVars
  <2>1. CASE BootFails(w) \/ EnterLoop(w) \/ Connect(w) \/ ConnectFails(w)
    BY <2>1 DEF BootFails, EnterLoop, Connect, ConnectFails
  <2>2. CASE CheckStartup(w) \/ SetRunning(w) \/ Announce(w)
    BY <2>2 DEF CheckStartup, SetRunning, Announce
  <2>3. ASSUME NEW q \in Requests, SendLoop(w, q)
        PROVE  /\ UNCHANGED <<settleVars, callerVars>>
               /\ \A r \in Requests : msg[r] = "none" => msg'[r] = "none"
    BY <2>3 DEF SendLoop, TypeOK, WireTypes
  <2>4. CASE ReceiveBreaks(w) \/ ServeEnds(w) \/ Crash(w)
    BY <2>4 DEF ReceiveBreaks, ServeEnds, Crash
  <2>5. CASE Unwind(w) \/ StopRunning(w) \/ ClearLoop(w)
    BY <2>5 DEF Unwind, StopRunning, ClearLoop
  <2> QED BY <2>1, <2>2, <2>3, <2>4, <2>5 DEF WorkerStep

\* SettleInv is an invariant: the futures of the tracker, of close() and of the
\* receive loop are accounted for.
LEMMA SettleInvariant == Spec => []SettleInv
<1>1. Init => SettleInv
  BY DEF Init, SettleInv, EntriesApart, PendingInUse, OneUser, NotYet, HandInv,
         OpenIsTracked, RightAnswer, DrainedSettles
<1>2. TypeOK /\ SettleInv /\ [Next]_vars => SettleInv'
  <2> SUFFICES ASSUME TypeOK, SettleInv, [Next]_vars PROVE SettleInv'
    OBVIOUS
  <2>1. CASE UNCHANGED vars
    BY <2>1, SettleUntouched DEF vars, settleVars, callerVars, flagVars, wireVars, SettleInv
  <2> QED BY <2>1, SettleCallerStep, SettleRequestStep, SettleWorkerStep DEF Next
<1> QED BY <1>1, <1>2, TypeCorrect, PTL DEF Spec

\* close() leaves no caller behind: once it has rejected what was pending, only
\* a send_request on its way to the last check, a reply being delivered, or a
\* request that got its id while another one used it, still owns an open future.
THEOREM CloseSettlesEveryRequest == Spec => []DrainedSettles
<1>1. SettleInv => DrainedSettles
  BY DEF SettleInv
<1> QED BY <1>1, SettleInvariant, PTL

\* No future is ever dropped by the tracker while somebody waits on it, however
\* often ids are used again, as long as no id is given out while it is in use.
THEOREM NoFutureIsDropped == Spec => []OpenIsTracked
<1>1. SettleInv => OpenIsTracked
  BY DEF SettleInv
<1> QED BY <1>1, SettleInvariant, PTL

\* Replies reach the request they answer, whatever is cancelled, late or
\* restarted, unless the id was given out again before its user was over.
THEOREM RepliesReachTheirRequest == Spec => []RightAnswer
<1>1. SettleInv => RightAnswer
  BY DEF SettleInv
<1> QED BY <1>1, SettleInvariant, PTL
-----------------------------------------------------------------------------
\* What ConnectInv talks about, left alone by most steps.
connectVars == <<closed, started, running, startup, current, stage, lock, at>>

\* A step that leaves these alone preserves ConnectInv.
LEMMA ConnectUntouched == ConnectInv /\ UNCHANGED connectVars => ConnectInv'
BY DEF ConnectInv, LockDiscipline, OneWorker, RunningTellsTruth, connectVars

\* start() begins a new incarnation only if the last one has cleared _running.
LEMMA ConnectCallerStep ==
  ASSUME TypeOK, ConnectInv, NEW c \in Callers, CallerStep(c)
  PROVE  ConnectInv'
<1> USE TransportAssumption
    DEF TransportAssumption, TypeOK, CallerTypes, Labels, ConnectInv, Goto, Release, workerVars
<1>1. CASE StartWorker(c)
  <2> USE <1>1 DEF StartWorker
  <2>1. current > 0 => stage[current] \in {"clear", "dead"}
    BY DEF LockDiscipline, RunningTellsTruth
  <2>2. current \in Nat /\ current + 1 \in Incarnations
    BY DEF FlagTypes, Incarnations
  <2>3. stage' = [stage EXCEPT ![current + 1] = "boot"] /\ stage \in [Incarnations -> Stages]
    BY DEF WorkerTypes
  <2>4. \A w \in Incarnations : w < current + 1 => stage'[w] \in {"clear", "dead"}
    BY <2>1, <2>2, <2>3 DEF OneWorker, Incarnations
  <2>5. \A w \in Incarnations : w > current + 1 => stage'[w] = "unborn"
    BY <2>2, <2>3 DEF OneWorker, Incarnations
  <2>6. OneWorker'
    BY <2>4, <2>5 DEF OneWorker
  <2>7. RunningTellsTruth'
    BY <2>2, <2>3 DEF RunningTellsTruth
  <2>8. LockDiscipline'
    <3>1. \A d \in Callers : at[d] = "idle"
      BY DEF LockDiscipline
    <3> QED BY <3>1 DEF LockDiscipline
  <2> QED BY <2>6, <2>7, <2>8
<1>3. CASE StartSucceeds(c)
  BY <1>3 DEF StartSucceeds, LockDiscipline, OneWorker, RunningTellsTruth
<1>4. CASE StartReturns(c)
  BY <1>4 DEF StartReturns, flagVars, LockDiscipline, OneWorker, RunningTellsTruth
<1>5. CASE StartFails(c)
  BY <1>5 DEF StartFails, flagVars, LockDiscipline, OneWorker, RunningTellsTruth
<1>6. CASE CloseEnter(c)
  BY <1>6 DEF CloseEnter, LockDiscipline, OneWorker, RunningTellsTruth
<1>7. CASE CloseRejects(c)
  BY <1>7 DEF CloseRejects, LockDiscipline, OneWorker, RunningTellsTruth
<1>8. CASE ClosePosts(c)
  BY <1>8 DEF ClosePosts, flagVars, LockDiscipline, OneWorker, RunningTellsTruth
<1>9. CASE CloseReturns(c)
  BY <1>9 DEF CloseReturns, flagVars, LockDiscipline, OneWorker, RunningTellsTruth
<1> QED BY <1>1, <1>3, <1>4, <1>5, <1>6, <1>7, <1>8, <1>9 DEF CallerStep

\* A worker that moves is the one in _thread, or has already given up _running.
LEMMA MovingWorker ==
  ASSUME TypeOK, ConnectInv, NEW w \in Incarnations, stage[w] \notin {"unborn", "clear", "dead"}
  PROVE  w = current /\ current > 0
BY DEF ConnectInv, OneWorker, TypeOK, FlagTypes, Incarnations

\* A worker passes its stages in order and clears _running behind its cleanup.
LEMMA ConnectWorkerStep ==
  ASSUME TypeOK, ConnectInv, NEW w \in Incarnations, WorkerStep(w)
  PROVE  ConnectInv'
<1> USE DEF TypeOK, ConnectInv, callerVars, flagVars, Advance, WorkerTypes, FlagTypes, Incarnations,
            LockDiscipline, OneWorker, RunningTellsTruth, Resolved
<1>1. CASE BootFails(w) BY <1>1, MovingWorker DEF BootFails, StartupFails
<1>2. CASE EnterLoop(w) BY <1>2, MovingWorker DEF EnterLoop
<1>3. CASE Connect(w) BY <1>3, MovingWorker DEF Connect
<1>4. CASE ConnectFails(w) BY <1>4, MovingWorker DEF ConnectFails, StartupFails
<1>5. CASE CheckStartup(w) BY <1>5, MovingWorker DEF CheckStartup
<1>6. CASE SetRunning(w) BY <1>6, MovingWorker DEF SetRunning
<1>7. CASE Announce(w) BY <1>7, MovingWorker DEF Announce
<1>8. CASE ServeEnds(w) BY <1>8, MovingWorker DEF ServeEnds
<1>9. CASE Crash(w) BY <1>9, MovingWorker DEF Crash
<1>10. CASE Cleanup(w) BY <1>10, MovingWorker DEF Cleanup
<1>11. CASE Unwind(w) BY <1>11, MovingWorker DEF Unwind
<1>12. CASE StopRunning(w) BY <1>12, MovingWorker DEF StopRunning
<1>13. CASE ClearLoop(w) BY <1>13 DEF ClearLoop
<1>14. CASE UNCHANGED connectVars BY <1>14, ConnectUntouched
<1>15. CASE Resolve(w) \/ ReceiveBreaks(w)
  BY <1>15, <1>14 DEF Resolve, ReceiveBreaks, connectVars, workerVars
<1>16. ASSUME NEW q \in Requests, SendLoop(w, q) \/ Receive(w, q) PROVE ConnectInv'
  BY <1>16, <1>14 DEF SendLoop, Receive, connectVars
<1> QED BY <1>1, <1>2, <1>3, <1>4, <1>5, <1>6, <1>7, <1>8, <1>9, <1>10, <1>11, <1>12, <1>13,
           <1>15, <1>16 DEF WorkerStep

\* Requests do not touch the life of the workers.
LEMMA ConnectRequestStep ==
  ASSUME ConnectInv, NEW r \in Requests, RequestStep(r)
  PROVE  ConnectInv'
<1>1. UNCHANGED connectVars
  BY DEF RequestStep, Check, Allocate, Recheck, HandOver, CancelFuture, CancelRequest,
         connectVars, flagVars, workerVars, callerVars
<1> QED BY <1>1, ConnectUntouched

\* ConnectInv is an invariant: restarts happen one at a time, behind a worker
\* that has cleared _running.
LEMMA ConnectInvariant == Spec => []ConnectInv
<1>1. Init => ConnectInv
  BY DEF Init, ConnectInv, LockDiscipline, OneWorker, RunningTellsTruth, Incarnations
<1>2. TypeOK /\ ConnectInv /\ [Next]_vars => ConnectInv'
  <2> SUFFICES ASSUME TypeOK, ConnectInv, [Next]_vars PROVE ConnectInv'
    OBVIOUS
  <2>1. CASE UNCHANGED vars
    BY <2>1, ConnectUntouched DEF vars, connectVars, callerVars, flagVars, workerVars
  <2> QED BY <2>1, ConnectCallerStep, ConnectRequestStep, ConnectWorkerStep DEF Next
<1> QED BY <1>1, <1>2, TypeCorrect, PTL DEF Spec

\* Two incarnations never hold a socket at once, so the fields they share have
\* one owner: a restart only happens behind a worker that is past its cleanup.
THEOREM OneConnectionAtATime == Spec => []OneConnection
<1>1. TypeOK /\ ConnectInv => OneConnection
  BY MovingWorker DEF OneConnection, HoldsSocket
<1> QED BY <1>1, ConnectInvariant, TypeCorrect, PTL
-----------------------------------------------------------------------------
\* What the abstract lifecycle sees of the transport.
lifecycleState == <<fut, drained, contested>>

\* A step that reaches no rejection preserves LifecycleInv.
LEMMA LifecycleUntouched ==
  ASSUME LifecycleInv, UNCHANGED drained,
         \A c \in Callers : at'[c] = "reject" => at[c] = "reject"
  PROVE  LifecycleInv'
BY DEF LifecycleInv

\* Futures that fail together are a step of the abstract specification, or none.
LEMMA FailedTogether ==
  ASSUME NEW S \in SUBSET Requests, TypeOK, fut' = Failed(S), UNCHANGED <<drained, contested>>
  PROVE  [Lifecycle!LifecycleNext]_lifecycleState
<1> DEFINE T == {r \in S : fut[r] = "open"}
<1>1. fut' = [r \in Requests |-> IF r \in T THEN "failed" ELSE fut[r]] /\ T \subseteq Lifecycle!Open
  BY DEF Failed, Lifecycle!Open
<1>2. CASE T = {}
  <2>1. fut' = fut BY <1>1, <1>2 DEF TypeOK, RequestTypes
  <2> QED BY <2>1 DEF lifecycleState
<1>3. CASE T # {}
  <2>1. Lifecycle!Fail(T) BY <1>1, <1>3 DEF Lifecycle!Fail, Lifecycle!FailAll
  <2> QED BY <2>1 DEF Lifecycle!LifecycleNext
<1> QED BY <1>2, <1>3

\* close() is the abstract Shut at the point where it rejects what is pending,
\* and nothing before and after; it gets there once.
LEMMA LifecycleCallerStep ==
  ASSUME TypeOK, SettleInv, ConnectInv, LifecycleInv, NEW c \in Callers, CallerStep(c)
  PROVE  LifecycleInv' /\ [Lifecycle!LifecycleNext]_lifecycleState
<1> USE DEF TypeOK, CallerTypes, Goto, Release, flagVars, requestVars, trackerVars, lifecycleState
<1>1. CASE CloseRejects(c)
  <2> USE <1>1 DEF CloseRejects
  <2>1. ~drained /\ drained' /\ \A d \in Callers : at'[d] # "reject"
    BY DEF LifecycleInv, ConnectInv, LockDiscipline
  <2>2. Lifecycle!Shut({r \in pending : fut[r] = "open"})
    BY <2>1 DEF TrackerClose, Failed, TrackerTypes, RequestTypes, Lifecycle!Shut,
                Lifecycle!FailAll, Lifecycle!Open
  <2>3. {r \in pending : fut[r] = "open"} \in SUBSET Requests
    BY DEF TrackerTypes
  <2>4. LifecycleInv'
    BY <2>1 DEF LifecycleInv, TrackerClose, Failed
  <2> QED BY <2>2, <2>3, <2>4 DEF Lifecycle!LifecycleNext
<1>2. CASE CloseEnter(c)
  <2>1. ~drained BY <1>2 DEF CloseEnter, SettleInv
  <2> QED BY <1>2, <2>1 DEF CloseEnter, LifecycleInv
<1>3. ASSUME UNCHANGED lifecycleState, \A d \in Callers : at'[d] = "reject" => at[d] = "reject"
      PROVE  LifecycleInv' /\ [Lifecycle!LifecycleNext]_lifecycleState
  BY <1>3, LifecycleUntouched
<1>4. CASE StartWorker(c) \/ StartSucceeds(c) \/ StartReturns(c) \/ StartFails(c)
  BY <1>3, <1>4 DEF StartWorker, StartSucceeds, StartReturns, StartFails
<1>5. CASE ClosePosts(c) \/ CloseReturns(c)
  BY <1>3, <1>5 DEF ClosePosts, CloseReturns
<1> QED BY <1>1, <1>2, <1>4, <1>5 DEF CallerStep

\* send_request issues a future or refuses; a send that fails rejects it, and a
\* cancellation settles one future, whosever it is.
LEMMA LifecycleRequestStep ==
  ASSUME TypeOK, SettleInv, LifecycleInv, NEW r \in Requests, RequestStep(r)
  PROVE  LifecycleInv' /\ [Lifecycle!LifecycleNext]_lifecycleState
<1> USE DEF TypeOK, RequestTypes, callerVars, flagVars, trackerVars, lifecycleState
<1>0. LifecycleInv' /\ UNCHANGED drained
  BY DEF RequestStep, Check, Allocate, Recheck, HandOver, CancelFuture, CancelRequest, LifecycleInv
<1>1. CASE Check(r)
  <2>1. Lifecycle!Refuse(r) \/ UNCHANGED lifecycleState
    BY <1>1 DEF Check, SettleInv, NotYet, Lifecycle!Refuse
  <2> QED BY <1>0, <2>1 DEF Lifecycle!LifecycleNext
<1>2. CASE Allocate(r)
  <2> USE <1>2 DEF Allocate
  <2>1. PICK i \in Ids : contested' = IF Rivals(r, i) = {} THEN contested
                                      ELSE contested \cup Rivals(r, i) \cup {r}
    OBVIOUS
  <2>2. fut[r] = "none" /\ fut' = [fut EXCEPT ![r] = "open"] /\ UNCHANGED drained
    BY DEF SettleInv, NotYet
  <2>3. CASE Rivals(r, i) = {}
    BY <1>0, <2>1, <2>2, <2>3 DEF Lifecycle!Issue, Lifecycle!LifecycleNext
  <2>4. CASE Rivals(r, i) # {}
    <3>1. Rivals(r, i) \in SUBSET Requests
      BY DEF Rivals
    <3>2. \A s \in Rivals(r, i) : id[s] # 0 /\ fut[s] # "none"
      BY TransportAssumption DEF TransportAssumption, Ids, Rivals, SettleInv, NotYet
    <3>3. Lifecycle!Share(r, Rivals(r, i))
      BY <2>1, <2>2, <2>4, <3>2 DEF Lifecycle!Share
    <3> QED BY <1>0, <3>1, <3>3 DEF Lifecycle!LifecycleNext
  <2> QED BY <2>3, <2>4
<1>3. CASE Recheck(r) \/ HandOver(r)
  <2>1. UNCHANGED fut \/ fut' = Failed({r})
    BY <1>3 DEF Recheck, HandOver, SendFails
  <2>2. UNCHANGED contested
    BY <1>3 DEF Recheck, HandOver, SendFails
  <2> QED BY <1>0, <2>1, <2>2, FailedTogether
<1>4. CASE CancelFuture(r)
  <2>1. Lifecycle!Cancel(r) BY <1>4 DEF CancelFuture, Lifecycle!Cancel, Lifecycle!Open
  <2> QED BY <1>0, <2>1 DEF Lifecycle!LifecycleNext
<1>5. CASE CancelRequest(r)
  <2> USE <1>5 DEF CancelRequest
  <2>1. UNCHANGED <<drained, contested>>
    OBVIOUS
  <2>2. CASE \A p \in Holders(id[r]) : fut[p] # "open"
    <3>1. fut' = fut
      BY <2>2
    <3> QED BY <1>0, <2>1, <3>1
  <2>3. ASSUME NEW p \in Holders(id[r]), fut[p] = "open"
        PROVE  LifecycleInv' /\ [Lifecycle!LifecycleNext]_lifecycleState
    <3>1. p \in Requests /\ \A q \in Holders(id[r]) : q = p
      BY DEF Holders, TrackerTypes, SettleInv, EntriesApart
    <3>2. fut' = [fut EXCEPT ![p] = "cancelled"]
      BY <2>3, <3>1
    <3>3. Lifecycle!Cancel(p)
      BY <2>1, <2>3, <3>1, <3>2 DEF Lifecycle!Cancel, Lifecycle!Open
    <3> QED BY <1>0, <3>1, <3>3 DEF Lifecycle!LifecycleNext
  <2> QED BY <2>2, <2>3
<1> QED BY <1>1, <1>2, <1>3, <1>4, <1>5 DEF RequestStep

\* The worker answers one future, or fails what its cleanup finds.
LEMMA LifecycleWorkerStep ==
  ASSUME TypeOK, LifecycleInv, NEW w \in Incarnations, WorkerStep(w)
  PROVE  LifecycleInv' /\ [Lifecycle!LifecycleNext]_lifecycleState
<1> USE DEF callerVars, flagVars, requestVars, trackerVars, lifecycleState
<1>1. CASE Resolve(w)
  <2> USE <1>1 DEF Resolve
  <2>1. hand.entry \in Requests /\ UNCHANGED <<drained, contested, at>>
    BY DEF TypeOK, HandType
  <2>2. LifecycleInv' BY <2>1 DEF LifecycleInv, TypeOK, RequestTypes
  <2>3. \/ UNCHANGED fut
        \/ Lifecycle!Answer(hand.entry)
        \/ Lifecycle!Fail({hand.entry})
    BY <2>1 DEF Lifecycle!Answer, Lifecycle!Fail, Lifecycle!FailAll, Lifecycle!Open, TypeOK, RequestTypes
  <2> QED BY <2>1, <2>2, <2>3 DEF Lifecycle!LifecycleNext
<1>2. CASE Cleanup(w)
  <2>1. LifecycleInv' BY <1>2 DEF Cleanup, TrackerClose, Failed, LifecycleInv
  <2>2. fut' = Failed(pending) /\ UNCHANGED <<drained, contested>> /\ pending \in SUBSET Requests
    BY <1>2 DEF Cleanup, TrackerClose, TypeOK, TrackerTypes
  <2> QED BY <2>1, <2>2, FailedTogether
<1>3. ASSUME UNCHANGED <<at, lifecycleState>>
      PROVE  LifecycleInv' /\ [Lifecycle!LifecycleNext]_lifecycleState
  BY <1>3, LifecycleUntouched
<1>4. CASE BootFails(w) \/ EnterLoop(w) \/ Connect(w) \/ ConnectFails(w)
  BY <1>3, <1>4 DEF BootFails, EnterLoop, Connect, ConnectFails
<1>5. CASE CheckStartup(w) \/ SetRunning(w) \/ Announce(w)
  BY <1>3, <1>5 DEF CheckStartup, SetRunning, Announce
<1>6. ASSUME NEW q \in Requests, SendLoop(w, q) \/ Receive(w, q)
      PROVE  LifecycleInv' /\ [Lifecycle!LifecycleNext]_lifecycleState
  BY <1>3, <1>6 DEF SendLoop, Receive
<1>7. CASE ReceiveBreaks(w) \/ ServeEnds(w) \/ Crash(w)
  BY <1>3, <1>7 DEF ReceiveBreaks, ServeEnds, Crash
<1>8. CASE Unwind(w) \/ StopRunning(w) \/ ClearLoop(w)
  BY <1>3, <1>8 DEF Unwind, StopRunning, ClearLoop
<1> QED BY <1>1, <1>2, <1>4, <1>5, <1>6, <1>7, <1>8 DEF WorkerStep

\* The transport implements the safety part of the abstract lifecycle: seen
\* through its futures and the shutdown, every step of every thread is a step
\* of RequestLifecycle or none at all.
THEOREM FuturesFollowLifecycle == Spec => Lifecycle!LifecycleSafety
<1>1. Init => Lifecycle!LifecycleInit /\ LifecycleInv
  BY DEF Init, Lifecycle!LifecycleInit, LifecycleInv
<1>2. TypeOK /\ SettleInv /\ ConnectInv /\ LifecycleInv /\ [Next]_vars
        => LifecycleInv' /\ [Lifecycle!LifecycleNext]_(Lifecycle!lifecycleVars)
  <2> SUFFICES ASSUME TypeOK, SettleInv, ConnectInv, LifecycleInv, [Next]_vars
               PROVE  LifecycleInv' /\ [Lifecycle!LifecycleNext]_lifecycleState
    BY DEF lifecycleState, Lifecycle!lifecycleVars
  <2>1. CASE UNCHANGED vars
    BY <2>1, LifecycleUntouched
       DEF vars, callerVars, requestVars, flagVars, trackerVars, lifecycleState
  <2> QED BY <2>1, LifecycleCallerStep, LifecycleRequestStep, LifecycleWorkerStep DEF Next
<1> QED BY <1>1, <1>2, TypeCorrect, SettleInvariant, ConnectInvariant, PTL
        DEF Spec, Lifecycle!LifecycleSafety

\* What callers rely on, for the refinement: once it is settled a future never
\* changes, whatever replies, cancellations, crashes and restarts come after,
\* and no restart takes a close() back.
SettledStays == /\ \A r \in Requests : fut[r] \notin {"none", "open"} => fut'[r] = fut[r]
                /\ drained => drained'

\* No step of the transport settles a future twice or reopens what close() shut.
THEOREM SettledForGood == Spec => [][SettledStays]_lifecycleState
<1>1. TypeOK /\ [Lifecycle!LifecycleNext]_(Lifecycle!lifecycleVars) => [SettledStays]_lifecycleState
  <2> SUFFICES ASSUME TypeOK, Lifecycle!LifecycleNext PROVE SettledStays
    BY DEF lifecycleState, Lifecycle!lifecycleVars
  <2> USE DEF TypeOK, RequestTypes, SettledStays, Lifecycle!Open
  <2>1. CASE \E r \in Requests : Lifecycle!Issue(r) \/ Lifecycle!Refuse(r)
    BY <2>1 DEF Lifecycle!Issue, Lifecycle!Refuse
  <2>4. CASE \E r \in Requests, S \in SUBSET Requests : Lifecycle!Share(r, S)
    BY <2>4 DEF Lifecycle!Share
  <2>2. CASE \E r \in Requests : Lifecycle!Answer(r) \/ Lifecycle!Cancel(r)
    BY <2>2 DEF Lifecycle!Answer, Lifecycle!Cancel
  <2>3. CASE \E S \in SUBSET Requests : Lifecycle!Fail(S) \/ Lifecycle!Shut(S)
    BY <2>3 DEF Lifecycle!Fail, Lifecycle!Shut, Lifecycle!FailAll
  <2> QED BY <2>1, <2>2, <2>3, <2>4 DEF Lifecycle!LifecycleNext
<1> QED BY <1>1, FuturesFollowLifecycle, TypeCorrect, PTL DEF Lifecycle!LifecycleSafety
=============================================================================
