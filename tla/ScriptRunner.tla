---------------------------- MODULE ScriptRunner ----------------------------
(***************************************************************************)
(* server/runner.py as the daemon uses it: commands that load a script run *)
(* on executor threads, requests for frames read the runner on the event   *)
(* loop, and each call of the runner takes its lock for itself.  A failed  *)
(* load is torn down by a second job.  Outputs, environment and script are *)
(* known by the load they come from; their contents are left out.          *)
(***************************************************************************)
EXTENDS Naturals, FiniteSets

CONSTANTS Codes, Scripts, Reloads, \* LOAD_CODE, LOAD_SCRIPT, RELOAD requests
          Readers,    \* GET_FRAME requests, and frames asked for
          Hosted,     \* the outputs the server was started with
          MaxWorkers, \* threads of the executor
          NoOne       \* Python's None

Loads == Codes \cup Scripts \cup Reloads

ASSUME RunnerAssumption ==
  /\ Codes \cap (Scripts \cup Reloads) = {} /\ Scripts \cap Reloads = {}
  /\ MaxWorkers \in Nat \ {0}
  /\ NoOne \notin Loads /\ Hosted \notin Loads /\ NoOne # Hosted

VARIABLES
  clips,  \* the load whose outputs are in _clips, _clip_infos, _output_items
  env,    \* the load _environment and _script belong to
  path,   \* whether _script_path is set
  holder, \* the load whose job holds _rlock for longer than a step
  latest, \* the load that entered the runner last
  task,   \* task[l]: where the task of the command is
  job,    \* job[l]: the job the task waits for in the executor
  reply,  \* reply[l]: the status of the command, sent when its task ends
  cancelled, \* commands whose task was cancelled
  reader, \* reader[g]: where the handler of a frame request is, or its status
  phase   \* of the daemon: "serving", "draining", "closed"

runnerVars == <<clips, env, path, holder, latest>>
taskVars   == <<task, job, reply, cancelled>>
vars == <<runnerVars, taskVars, reader, phase>>

\* A server hosts a script, or clips that have no script.
Init ==
  /\ clips = Hosted /\ env = Hosted /\ path \in BOOLEAN
  /\ holder = NoOne /\ latest = Hosted
  /\ task = [l \in Loads |-> "absent"] /\ job = [l \in Loads |-> "none"]
  /\ reply = [l \in Loads |-> "none"] /\ cancelled = {}
  /\ reader = [g \in Readers |-> "absent"]
  /\ phase = "serving"

Statuses == {"OK", "ERROR", "NOT_FOUND", "INVALID_COMMAND", "INVALID_PAYLOAD",
             "UNAUTHORIZED", "PERMISSION_DENIED"}

Busy == {l \in Loads : job[l] \in {"load", "run", "teardown"}}

\* The event loop thread is inside the handler of a frame request.
LoopFree == phase = "serving" /\ \A g \in Readers : reader[g] # "clip"
-----------------------------------------------------------------------------
(* _dispatch_executor, on the event loop *)

Submit(l, what) == job' = [job EXCEPT ![l] = what]

StartLoad(l) ==
  /\ LoopFree /\ task[l] = "absent"
  /\ task' = [task EXCEPT ![l] = "load"]
  /\ Submit(l, "load queued")
  /\ UNCHANGED <<runnerVars, reply, cancelled, reader, phase>>

Reply(l, status) == /\ reply' = [reply EXCEPT ![l] = status]
                    /\ task' = [task EXCEPT ![l] = "done"]

LoadReturns(l) ==
  /\ LoopFree /\ task[l] = "load" /\ job[l] = "ok"
  /\ Reply(l, "OK")
  /\ UNCHANGED <<runnerVars, job, cancelled, reader, phase>>

\* Fault: a script that raises FileNotFoundError is one that was not found.
RaisedByType(l) == "NOT_FOUND"

\* FileNotFoundError and ScriptNotLoadedError come from the runner alone: what a
\* script raises arrives as an ExecutionError.
Raised(l) == IF job[l] = "missing" THEN "NOT_FOUND" ELSE "ERROR"

\* Fault: the error is reported, the failed load is left as it is.
LoadRaisesOnly(l) ==
  /\ LoopFree /\ task[l] = "load" /\ job[l] \in {"failed", "missing"}
  /\ Reply(l, Raised(l))
  /\ UNCHANGED <<runnerVars, job, cancelled, reader, phase>>

\* Any exception: teardown_environment is submitted as a job of its own.
LoadRaises(l) ==
  /\ LoopFree /\ task[l] = "load" /\ job[l] \in {"failed", "missing"}
  /\ reply' = [reply EXCEPT ![l] = Raised(l)]
  /\ task' = [task EXCEPT ![l] = "teardown"]
  /\ Submit(l, "teardown queued")
  /\ UNCHANGED <<runnerVars, cancelled, reader, phase>>

TornDown(l) ==
  /\ LoopFree /\ task[l] = "teardown" /\ job[l] = "torn down"
  /\ Reply(l, reply[l])
  /\ UNCHANGED <<runnerVars, job, cancelled, reader, phase>>

\* CANCEL_REQUEST: the task ends at once, a job that has started goes on.
Drop(j) == IF j \in {"load queued", "teardown queued"} THEN "dropped" ELSE j

CancelLoad(l) ==
  /\ LoopFree /\ task[l] \in {"load", "teardown"}
  /\ task' = [task EXCEPT ![l] = "done"]
  /\ job' = [job EXCEPT ![l] = Drop(@)]
  /\ reply' = [reply EXCEPT ![l] = "none"]
  /\ cancelled' = cancelled \cup {l}
  /\ UNCHANGED <<runnerVars, reader, phase>>
-----------------------------------------------------------------------------
(* The executor threads *)

\* A thread takes a job; one job waits for the lock, or has it.
JobStarts(l) ==
  /\ Cardinality(Busy) < MaxWorkers
  /\ \/ job[l] = "load queued" /\ Submit(l, "load")
     \/ job[l] = "teardown queued" /\ Submit(l, "teardown")
  /\ UNCHANGED <<runnerVars, task, reply, cancelled, reader, phase>>

\* Fault: the outputs stay.
EmptyEnvironment == env' = NoOne /\ UNCHANGED clips

\* Fault: the outputs become an empty mapping that is not None.
EmptyMapping == env' = NoOne /\ clips' = {}

\* teardown_environment
Empty == clips' = NoOne /\ env' = NoOne

\* load_script() of a path that is no file, or reload() without a script.
LoadRefused(l) ==
  /\ job[l] = "load" /\ holder = NoOne
  /\ l \in Scripts \cup Reloads
  /\ Submit(l, "missing")
  /\ UNCHANGED <<runnerVars, task, reply, cancelled, reader, phase>>

\* load_code(), load_script(), reload() up to the point where the script runs,
\* with the lock held.
LoadEnters(l) ==
  /\ job[l] = "load" /\ holder = NoOne
  /\ l \in Reloads => path
  /\ holder' = l /\ latest' = l
  /\ clips' = NoOne /\ env' = l
  /\ path' = (l \notin Codes)
  /\ Submit(l, "run")
  /\ UNCHANGED <<task, reply, cancelled, reader, phase>>

\* The script has run and _extract_outputs has listed its outputs.
LoadSucceeds(l) ==
  /\ job[l] = "run"
  /\ holder' = NoOne /\ clips' = l
  /\ Submit(l, "ok")
  /\ UNCHANGED <<env, path, latest, task, reply, cancelled, reader, phase>>

\* Fault: the lock is not released when the script raises.
LoadFailsLocked(l) ==
  /\ job[l] = "run"
  /\ clips' \in {NoOne, l}
  /\ Submit(l, "failed")
  /\ UNCHANGED <<env, path, holder, latest, task, reply, cancelled, reader, phase>>

\* The script raises, or an output cannot be described when others have been.
LoadFails(l) ==
  /\ job[l] = "run"
  /\ holder' = NoOne
  /\ clips' \in {NoOne, l}
  /\ Submit(l, "failed")
  /\ UNCHANGED <<env, path, latest, task, reply, cancelled, reader, phase>>

Teardown(l) ==
  /\ job[l] = "teardown" /\ holder = NoOne
  /\ Empty
  /\ Submit(l, "torn down")
  /\ UNCHANGED <<path, holder, latest, task, reply, cancelled, reader, phase>>
-----------------------------------------------------------------------------
(* _handle_get_frame, on the event loop *)

\* get_clip; without the output the request ends with NOT_FOUND.
GetClip(g) ==
  /\ LoopFree /\ reader[g] = "absent" /\ holder = NoOne
  /\ reader' = [reader EXCEPT ![g] = IF clips = NoOne THEN "NOT_FOUND" ELSE "clip"]
  /\ UNCHANGED <<runnerVars, taskVars, phase>>

\* runner.environment, under the lock again; None raises.
GetEnvironment(g) ==
  /\ reader[g] = "clip" /\ holder = NoOne
  /\ reader' = [reader EXCEPT ![g] = IF env = NoOne THEN "ERROR" ELSE "frame"]
  /\ UNCHANGED <<runnerVars, taskVars, phase>>
-----------------------------------------------------------------------------
(* stop() *)

\* Every task is cancelled and has ended; executor.shutdown drops what waits.
Drain ==
  /\ LoopFree
  /\ phase' = "draining"
  /\ cancelled' = cancelled \cup {l \in Loads : task[l] \in {"load", "teardown"}}
  /\ task' = [l \in Loads |-> IF task[l] \in {"load", "teardown"} THEN "done" ELSE task[l]]
  /\ job' = [l \in Loads |-> Drop(job[l])]
  /\ reply' = [l \in Loads |-> IF task[l] \in {"load", "teardown"} THEN "none" ELSE reply[l]]
  /\ UNCHANGED <<runnerVars, reader>>

\* Fault: executor.shutdown(wait=False).
CloseRunnerAtOnce ==
  /\ phase = "draining" /\ phase' = "closed"
  /\ Empty
  /\ UNCHANGED <<path, holder, latest, taskVars, reader>>

\* The jobs that ran have ended: runner.close.
CloseRunner ==
  /\ phase = "draining" /\ Busy = {}
  /\ phase' = "closed"
  /\ Empty
  /\ UNCHANGED <<path, holder, latest, taskVars, reader>>

LoopStep(l) == StartLoad(l) \/ LoadReturns(l) \/ LoadRaises(l) \/ TornDown(l) \/ CancelLoad(l)
JobStep(l) == \/ JobStarts(l) \/ LoadRefused(l) \/ LoadEnters(l) \/ LoadSucceeds(l)
              \/ LoadFails(l) \/ Teardown(l)

Next == \/ \E l \in Loads : LoopStep(l) \/ JobStep(l)
        \/ \E g \in Readers : GetClip(g) \/ GetEnvironment(g)
        \/ Drain \/ CloseRunner

Spec == Init /\ [][Next]_vars
-----------------------------------------------------------------------------
TypeOK ==
  /\ clips \in Loads \cup {Hosted, NoOne} /\ env \in Loads \cup {Hosted, NoOne}
  /\ path \in BOOLEAN /\ holder \in Loads \cup {NoOne} /\ latest \in Loads \cup {Hosted}
  /\ task \in [Loads -> {"absent", "load", "teardown", "done"}]
  /\ job \in [Loads -> {"none", "load queued", "load", "run", "ok", "failed", "missing",
                        "teardown queued", "teardown", "torn down", "dropped"}]
  /\ reply \in [Loads -> {"none"} \cup Statuses] /\ cancelled \in SUBSET Loads
  /\ reader \in [Readers -> {"absent", "clip", "frame"} \cup Statuses]
  /\ phase \in {"serving", "draining", "closed"}

\* Whoever gets the lock finds no outputs, or outputs whose environment is
\* still there, whatever loads, failures and teardowns came before.
OutputsHaveEnvironment == holder = NoOne => clips \in {NoOne, env}

\* Once every load has been answered and none was cancelled, nothing of a
\* failed load is left: neither its outputs nor its environment.
Quiet == \A l \in Loads : task[l] \in {"absent", "done"}
FailedLoadsLeaveNothing ==
  Quiet /\ cancelled = {} =>
    /\ clips = env
    /\ env \in {NoOne, Hosted} \cup {l \in Loads : reply[l] = "OK"}

\* After stop() the runner is empty and stays so: no thread is left that could
\* load a script into it.
ClosedIsEmpty == phase = "closed" => clips = NoOne /\ env = NoOne /\ Busy = {}

\* The inductive invariant behind these.  The lock is held by the job that runs
\* a script, in the environment of that script ...
LockInv == /\ \A l \in Loads : job[l] = "run" <=> holder = l
           /\ holder # NoOne => env = holder
           /\ OutputsHaveEnvironment

\* ... a task that nobody cancelled is where its job is, and answers by it ...
TaskInv == \A l \in Loads :
  /\ l \in cancelled => task[l] = "done"
  /\ task[l] = "absent" => job[l] = "none" /\ reply[l] = "none"
  /\ task[l] = "load" => job[l] \in {"load queued", "load", "run", "ok", "failed", "missing"}
  /\ task[l] = "teardown" => job[l] \in {"teardown queued", "teardown", "torn down"}
  /\ task[l] = "done" /\ l \notin cancelled =>
       job[l] \in {"none", "torn down"} \/ (job[l] = "ok" /\ reply[l] = "OK")

\* ... as long as none is cancelled, what a load has left in the runner is
\* complete or has its teardown still before it ...
EnvInv ==
  /\ env = Hosted => clips = Hosted
  /\ env # Hosted => phase = "closed" \/ \E l \in Loads : job[l] # "none"
  /\ cancelled = {} /\ env \in Loads =>
       /\ job[env] \in {"run", "ok", "failed", "teardown queued", "teardown"}
       /\ job[env] = "ok" => clips = env

\* ... and stop() lets no job begin.
DrainInv == /\ phase # "serving" => \A l \in Loads : job[l] \notin {"load queued", "teardown queued"}
            /\ ClosedIsEmpty

RunnerInv == LockInv /\ TaskInv /\ EnvInv /\ DrainInv
-----------------------------------------------------------------------------
(* What documentation and tests say, and the code does not always do *)

\* "Server remains healthy and can execute subsequent code": the outputs of the
\* last load are there once it has been answered and all others have ended.
LoadedOutputsStay ==
  Quiet /\ cancelled = {} /\ phase = "serving" /\ latest \in Loads
    /\ (\A l \in Loads : task[l] # "absent") /\ reply[latest] = "OK" => clips = latest
=============================================================================
