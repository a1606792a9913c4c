------------------------- MODULE ScriptRunnerProofs -------------------------
(***************************************************************************)
(* What the script runner guarantees for any number of loads, failures,    *)
(* cancellations and executor threads.                                     *)
(***************************************************************************)
EXTENDS ScriptRunner, TLAPS

\* The places of a task and its jobs, in the order they are passed.
Places == {"absent", "load", "teardown", "done"}
JobStates == {"none", "load queued", "load", "run", "ok", "failed", "missing",
              "teardown queued", "teardown", "torn down", "dropped"}

\* The steps of one load and the steps of the readers and of stop().
OtherStep == (\E g \in Readers : GetClip(g) \/ GetEnvironment(g)) \/ Drain \/ CloseRunner

\* A load keeps the types.
LEMMA LoadTypes ==
  ASSUME TypeOK, NEW l \in Loads, LoopStep(l) \/ JobStep(l)
  PROVE  TypeOK'
<1> USE DEF TypeOK, runnerVars, taskVars, Submit, Reply, Statuses
<1>1. CASE StartLoad(l) BY <1>1 DEF StartLoad
<1>2. CASE LoadReturns(l) BY <1>2 DEF LoadReturns
<1>3. CASE LoadRaises(l) BY <1>3 DEF LoadRaises, Raised
<1>4. CASE TornDown(l) BY <1>4 DEF TornDown
<1>5. CASE CancelLoad(l) BY <1>5 DEF CancelLoad, Drop
<1>6. CASE JobStarts(l) BY <1>6 DEF JobStarts
<1>7. CASE LoadRefused(l) BY <1>7 DEF LoadRefused
<1>8. CASE LoadEnters(l) BY <1>8 DEF LoadEnters
<1>9. CASE LoadSucceeds(l) BY <1>9 DEF LoadSucceeds
<1>10. CASE LoadFails(l) BY <1>10 DEF LoadFails
<1>11. CASE Teardown(l) BY <1>11 DEF Teardown, Empty
<1> QED BY <1>1, <1>2, <1>3, <1>4, <1>5, <1>6, <1>7, <1>8, <1>9, <1>10, <1>11 DEF LoopStep, JobStep

\* So do the readers and stop().
LEMMA OtherTypes == TypeOK /\ OtherStep => TypeOK'
<1> SUFFICES ASSUME TypeOK, OtherStep PROVE TypeOK'
  OBVIOUS
<1> USE DEF TypeOK, runnerVars, taskVars, Statuses, Empty
<1>1. ASSUME NEW g \in Readers, GetClip(g) \/ GetEnvironment(g) PROVE TypeOK'
  BY <1>1 DEF GetClip, GetEnvironment
<1>2. CASE Drain
  BY <1>2 DEF Drain, Drop
<1>3. CASE CloseRunner
  BY <1>3 DEF CloseRunner
<1> QED BY <1>1, <1>2, <1>3 DEF OtherStep

\* Every variable of the runner keeps its type.
THEOREM RunnerTypeCorrect == Spec => []TypeOK
<1>1. Init => TypeOK
  BY DEF Init, TypeOK
<1>2. TypeOK /\ [Next]_vars => TypeOK'
  <2>1. TypeOK /\ UNCHANGED vars => TypeOK'
    BY DEF TypeOK, vars, runnerVars, taskVars
  <2> QED BY <2>1, LoadTypes, OtherTypes DEF Next, OtherStep
<1> QED BY <1>1, <1>2, PTL DEF Spec
-----------------------------------------------------------------------------
\* A load that runs is the one that holds the lock, in its own environment, and
\* nobody enters or empties the runner meanwhile.
LEMMA LockStep ==
  ASSUME TypeOK, RunnerInv, NEW l \in Loads, LoopStep(l) \/ JobStep(l)
  PROVE  LockInv'
<1> USE DEF TypeOK, RunnerInv, LockInv, OutputsHaveEnvironment, runnerVars, Submit, Reply
<1>1. CASE StartLoad(l) BY <1>1 DEF StartLoad, TaskInv
<1>2. CASE LoadReturns(l) \/ LoadRaises(l) \/ TornDown(l)
  <2>1. CASE LoadReturns(l) BY <2>1 DEF LoadReturns
  <2>2. CASE LoadRaises(l) BY <2>2 DEF LoadRaises
  <2>3. CASE TornDown(l) BY <2>3 DEF TornDown
  <2> QED BY <1>2, <2>1, <2>2, <2>3
<1>3. CASE CancelLoad(l) BY <1>3 DEF CancelLoad, Drop
<1>4. CASE JobStarts(l) BY <1>4 DEF JobStarts
<1>5. CASE LoadRefused(l) BY <1>5 DEF LoadRefused
<1>6. CASE LoadEnters(l) BY <1>6, RunnerAssumption DEF RunnerAssumption, LoadEnters
<1>7. CASE LoadSucceeds(l) \/ LoadFails(l)
  <2> USE <1>7, RunnerAssumption DEF RunnerAssumption, LoadSucceeds, LoadFails
  <2>1. holder = l /\ env = l /\ holder' = NoOne /\ env' = env /\ clips' \in {NoOne, l}
    OBVIOUS
  <2>2. \A m \in Loads : job'[m] # "run"
    BY <2>1
  <2> QED BY <2>1, <2>2
<1>8. CASE Teardown(l) BY <1>8 DEF Teardown, Empty
<1> QED BY <1>1, <1>2, <1>3, <1>4, <1>5, <1>6, <1>7, <1>8 DEF LoopStep, JobStep

\* A task follows its job, until it is cancelled.
LEMMA TaskStep ==
  ASSUME TypeOK, RunnerInv, NEW l \in Loads, LoopStep(l) \/ JobStep(l)
  PROVE  TaskInv'
<1> USE DEF TypeOK, RunnerInv, TaskInv, runnerVars, Submit, Reply
<1>1. CASE StartLoad(l) BY <1>1 DEF StartLoad
<1>2. CASE LoadReturns(l) BY <1>2 DEF LoadReturns
<1>3. CASE LoadRaises(l) BY <1>3 DEF LoadRaises
<1>4. CASE TornDown(l) BY <1>4 DEF TornDown
<1>5. CASE CancelLoad(l) BY <1>5 DEF CancelLoad
<1>6. CASE JobStarts(l) BY <1>6, ZenonT(30) DEF JobStarts
<1>7. CASE LoadRefused(l) \/ LoadEnters(l)
  <2>1. CASE LoadRefused(l) BY <2>1 DEF LoadRefused
  <2>2. CASE LoadEnters(l) BY <2>2 DEF LoadEnters
  <2> QED BY <1>7, <2>1, <2>2
<1>8. CASE LoadSucceeds(l) \/ LoadFails(l)
  <2>1. CASE LoadSucceeds(l) BY <2>1 DEF LoadSucceeds
  <2>2. CASE LoadFails(l) BY <2>2 DEF LoadFails
  <2> QED BY <1>8, <2>1, <2>2
<1>9. CASE Teardown(l) BY <1>9 DEF Teardown
<1> QED BY <1>1, <1>2, <1>3, <1>4, <1>5, <1>6, <1>7, <1>8, <1>9 DEF LoopStep, JobStep

\* What a load leaves in the runner is complete, or will be torn down.
LEMMA EnvStep ==
  ASSUME TypeOK, RunnerInv, NEW l \in Loads, LoopStep(l) \/ JobStep(l)
  PROVE  EnvInv'
<1> USE RunnerAssumption DEF RunnerAssumption, TypeOK, RunnerInv, EnvInv, runnerVars, Submit, Reply
<1>1. CASE StartLoad(l) BY <1>1 DEF StartLoad, TaskInv
<1>2. CASE LoadReturns(l) \/ TornDown(l) BY <1>2 DEF LoadReturns, TornDown
<1>3. CASE LoadRaises(l) BY <1>3 DEF LoadRaises
<1>4. CASE CancelLoad(l) BY <1>4 DEF CancelLoad, TaskInv, Drop
<1>5. CASE JobStarts(l) BY <1>5 DEF JobStarts
<1>6. CASE LoadRefused(l) BY <1>6 DEF LoadRefused
<1>7. CASE LoadEnters(l) BY <1>7 DEF LoadEnters
<1>8. CASE LoadSucceeds(l) \/ LoadFails(l)
  <2> USE <1>8 DEF LoadSucceeds, LoadFails, LockInv
  <2>1. env' = l /\ job'[l] \in {"ok", "failed"} /\ (job'[l] = "ok" => clips' = l) /\ clips' # Hosted
    BY ZenonT(30)
  <2> QED BY <2>1
<1>9. CASE Teardown(l) BY <1>9 DEF Teardown, Empty
<1> QED BY <1>1, <1>2, <1>3, <1>4, <1>5, <1>6, <1>7, <1>8, <1>9 DEF LoopStep, JobStep

\* Once stop() has drained the executor jobs only end.
LEMMA DrainStep ==
  ASSUME TypeOK, RunnerInv, NEW l \in Loads, LoopStep(l) \/ JobStep(l)
  PROVE  DrainInv'
<1> USE DEF TypeOK, RunnerInv, DrainInv, ClosedIsEmpty, Busy, runnerVars, Submit, Reply
<1>1. CASE LoopStep(l)
  <2>1. phase' = "serving"
    BY <1>1 DEF LoopStep, LoopFree, StartLoad, LoadReturns, LoadRaises, TornDown, CancelLoad
  <2> QED BY <2>1
<1>2. CASE JobStarts(l) BY <1>2 DEF JobStarts
<1>3. CASE LoadRefused(l) \/ LoadEnters(l) BY <1>3 DEF LoadRefused, LoadEnters
<1>4. CASE LoadSucceeds(l) \/ LoadFails(l) BY <1>4 DEF LoadSucceeds, LoadFails
<1>5. CASE Teardown(l) BY <1>5 DEF Teardown
<1> QED BY <1>1, <1>2, <1>3, <1>4, <1>5 DEF JobStep

\* Readers change nothing; stop() cancels every task there is and empties a
\* runner in which no job is left.
LEMMA OtherInv == TypeOK /\ RunnerInv /\ OtherStep => RunnerInv'
<1> SUFFICES ASSUME TypeOK, RunnerInv, OtherStep PROVE RunnerInv'
  OBVIOUS
<1> USE DEF RunnerInv, LockInv, OutputsHaveEnvironment, EnvInv, DrainInv, ClosedIsEmpty,
            Busy, runnerVars, taskVars
<1>1. ASSUME NEW g \in Readers, GetClip(g) \/ GetEnvironment(g) PROVE RunnerInv'
  <2> USE <1>1 DEF GetClip, GetEnvironment
  <2>1. TaskInv' BY ZenonT(30) DEF TaskInv
  <2>2. LockInv' OBVIOUS
  <2>3. EnvInv' /\ DrainInv' BY ZenonT(30)
  <2> QED BY <2>1, <2>2, <2>3
<1>2. CASE Drain
  <2> USE <1>2 DEF Drain, TypeOK
  <2>1. TaskInv' BY DEF TaskInv, Drop
  <2>2. LockInv' BY DEF Drop
  <2>3. cancelled' = {} => job' = job BY DEF TaskInv, Drop
  <2>4. \A l \in Loads : job[l] # "none" => job'[l] # "none" BY DEF Drop
  <2>5. EnvInv'
    <3>1. env' = env /\ clips' = clips /\ phase = "serving"
      BY DEF LoopFree
    <3>2. env' # Hosted => \E l \in Loads : job'[l] # "none"
      BY <2>4, <3>1
    <3>3. cancelled' = {} => cancelled = {}
      OBVIOUS
    <3> QED BY <2>3, <3>1, <3>2, <3>3
  <2>6. DrainInv' BY DEF Drop, LoopFree
  <2> QED BY <2>1, <2>2, <2>5, <2>6
<1>3. CASE CloseRunner
  <2> USE <1>3, RunnerAssumption DEF CloseRunner, Empty, RunnerAssumption
  <2>1. TaskInv' BY DEF TaskInv
  <2>2. holder = NoOne BY DEF TypeOK
  <2> QED BY <2>1, <2>2
<1> QED BY <1>1, <1>2, <1>3 DEF OtherStep

\* RunnerInv is preserved by every step of the runner.
LEMMA RunnerStep == TypeOK /\ RunnerInv /\ [Next]_vars => TypeOK' /\ RunnerInv'
<1> SUFFICES ASSUME TypeOK, RunnerInv, [Next]_vars PROVE TypeOK' /\ RunnerInv'
  OBVIOUS
<1>1. CASE UNCHANGED vars
  <2> USE <1>1 DEF vars, runnerVars, taskVars
  <2>1. TypeOK' BY DEF TypeOK
  <2>2. LockInv' /\ TaskInv' BY DEF RunnerInv, LockInv, TaskInv, OutputsHaveEnvironment
  <2>3. EnvInv' /\ DrainInv' BY DEF RunnerInv, EnvInv, DrainInv, ClosedIsEmpty, Busy
  <2> QED BY <2>1, <2>2, <2>3 DEF RunnerInv
<1>2. ASSUME NEW l \in Loads, LoopStep(l) \/ JobStep(l) PROVE TypeOK' /\ RunnerInv'
  BY <1>2, LoadTypes, LockStep, TaskStep, EnvStep, DrainStep DEF RunnerInv
<1>3. CASE OtherStep
  BY <1>3, OtherTypes, OtherInv
<1> QED BY <1>1, <1>2, <1>3 DEF Next, OtherStep

\* It holds at the start.
LEMMA RunnerInvInit == Init => TypeOK /\ RunnerInv
<1> SUFFICES ASSUME Init PROVE TypeOK /\ RunnerInv
  OBVIOUS
<1>1. TypeOK BY DEF Init, TypeOK
<1>2. LockInv BY RunnerAssumption DEF RunnerAssumption, Init, LockInv, OutputsHaveEnvironment
<1>3. TaskInv BY DEF Init, TaskInv
<1>4. EnvInv BY RunnerAssumption DEF RunnerAssumption, Init, EnvInv
<1>5. DrainInv BY DEF Init, DrainInv, ClosedIsEmpty
<1> QED BY <1>1, <1>2, <1>3, <1>4, <1>5 DEF RunnerInv

\* What RunnerInv is for.
LEMMA RunnerInvImplies ==
  TypeOK /\ RunnerInv => OutputsHaveEnvironment /\ FailedLoadsLeaveNothing /\ ClosedIsEmpty
<1> SUFFICES ASSUME TypeOK, RunnerInv
             PROVE  OutputsHaveEnvironment /\ FailedLoadsLeaveNothing /\ ClosedIsEmpty
  OBVIOUS
<1> USE DEF RunnerInv
<1>1. OutputsHaveEnvironment BY DEF LockInv
<1>2. ClosedIsEmpty BY DEF DrainInv
<1>3. ASSUME Quiet, cancelled = {}
      PROVE  clips = env /\ env \in {NoOne, Hosted} \cup {l \in Loads : reply[l] = "OK"}
  <2>1. \A l \in Loads : job[l] \in {"none", "ok", "torn down"}
    BY <1>3 DEF Quiet, TaskInv
  <2>2. holder = NoOne
    BY <2>1 DEF LockInv, TypeOK
  <2>3. CASE env \in Loads
    <3>1. job[env] = "ok" /\ clips = env
      BY <1>3, <2>1, <2>3 DEF EnvInv
    <3>2. task[env] = "done"
      BY <1>3, <2>3, <3>1 DEF Quiet, TaskInv
    <3> QED BY <1>3, <2>3, <3>1, <3>2 DEF TaskInv
  <2>4. CASE env = Hosted
    BY <2>4 DEF EnvInv
  <2>5. CASE env = NoOne
    BY <1>1, <2>2, <2>5 DEF OutputsHaveEnvironment
  <2> QED BY <2>3, <2>4, <2>5 DEF TypeOK
<1> QED BY <1>1, <1>2, <1>3 DEF FailedLoadsLeaveNothing

\* RunnerInv is an invariant of the runner.
LEMMA RunnerInvariant == Spec => [](TypeOK /\ RunnerInv)
BY RunnerInvInit, RunnerStep, PTL DEF Spec

\* Whoever gets the lock finds no outputs, or outputs that have their
\* environment, and an answered load that failed leaves neither.
THEOREM RunnerIsConsistent == Spec => []OutputsHaveEnvironment /\ []FailedLoadsLeaveNothing
BY RunnerInvImplies, RunnerInvariant, PTL

\* After stop() the runner is empty and no job is left that could fill it.
THEOREM RunnerIsClosed == Spec => []ClosedIsEmpty
BY RunnerInvImplies, RunnerInvariant, PTL
=============================================================================
