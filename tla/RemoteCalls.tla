---------------------------- MODULE RemoteCalls ----------------------------
(***************************************************************************)
(* A call of RemoteClient or ClientTransport from end to end: the client   *)
(* sends it or rejects it, the daemon checks and dispatches it, runner and *)
(* executor do the work (ScriptRunner), the status becomes a result or an  *)
(* exception.  The transport refuses a call, raises, rejects the call      *)
(* while it waits, or delivers message and answer; ClientTransport has the *)
(* details.                                                                *)
(***************************************************************************)
EXTENDS ScriptRunner

CONSTANTS Kinds  \* methods called by Readers, which are all calls but loads here

Suppressing == {"ping", "subscribe_stream", "unsubscribe_stream"}
Methods == Suppressing \cup {"list_outputs", "get_stats", "get_clip_info",
                            "get_outputs", "request_frame"}
Calls == Loads \cup Readers

ASSUME CallsAssumption == Loads \cap Readers = {} /\ Kinds \subseteq Methods

VARIABLES
  kind,   \* kind[g]: the method called by g
  call,   \* call[c]: where the call is, or how its future has ended
  answer, \* answer[c]: what became of the message
  shown,  \* shown[g]: the outputs get_outputs was told of, NoOne if there are none
  ran     \* loads whose script was run

callVars == <<kind, call, answer, shown, ran>>
allVars  == <<vars, callVars>>

Is(c, kinds) == c \in Readers /\ kind[c] \in kinds
IsFrame(c) == Is(c, {"request_frame"})

CallsInit ==
  /\ Init
  /\ kind \in [Readers -> Kinds]
  /\ call = [c \in Calls |-> "absent"] /\ answer = [c \in Calls |-> "none"]
  /\ shown = [g \in Readers |-> NoOne] /\ ran = {}
-----------------------------------------------------------------------------
(* The client *)

\* StatusCode.exception_cls
Exception == [ERROR             |-> "RemoteExecutionError",
              NOT_FOUND         |-> "RemoteNotFoundError",
              INVALID_COMMAND   |-> "RemoteCommandError",
              INVALID_PAYLOAD   |-> "RemotePayloadError",
              UNAUTHORIZED      |-> "RemoteAuthenticationError",
              PERMISSION_DENIED |-> "RemotePermissionError"]

\* What a rejected future becomes: some methods catch everything.
Rejected(c) == IF Is(c, Suppressing) THEN "False" ELSE "TransportError"

\* What the answer to a message becomes.  A frame's answer is decoded as a
\* FrameHeader, whatever its status is; those of _handle_request have none.
Resolved(c, status) ==
  IF Is(c, Suppressing) THEN IF status = "OK" THEN "True" ELSE "False"
  ELSE IF IsFrame(c) THEN IF status = "UNAUTHORIZED" THEN "ValidationError" ELSE "header"
  ELSE IF status = "OK" THEN "result" ELSE Exception[status]

\* _loop is tested, cleared by a worker that ends, and used: the error leaves
\* send_request and the method, whatever the method does with rejections.
SendRaises(c) == call' = [call EXCEPT ![c] = "AttributeError"]

\* send_request and _send_message: not started, not connected or closed; or the
\* worker ends at this moment; or sent.
Send(c) ==
  /\ call[c] = "absent"
  /\ \/ call' = [call EXCEPT ![c] = "sent"] /\ answer' = [answer EXCEPT ![c] = "asked"]
     \/ call' = [call EXCEPT ![c] = Rejected(c)] /\ UNCHANGED answer
     \/ SendRaises(c) /\ UNCHANGED answer
  /\ UNCHANGED <<vars, kind, shown, ran>>

Status(c) == IF c \in Loads THEN IF task[c] = "done" THEN reply[c] ELSE "none" ELSE answer[c]
Waiting == {c \in Calls : call[c] \in {"sent", "listed"}}

\* The outputs are listed and there are some: each is asked for.
Lists(c) == /\ Is(c, {"get_outputs"}) /\ call[c] = "sent"
            /\ Status(c) = "OK" /\ shown[c] # NoOne

\* The answer arrives.  get_outputs asks for the info of each output it was told of.
Receive(c) ==
  /\ c \in Waiting /\ Status(c) \in Statuses
  /\ \/ Lists(c) /\ call' = [call EXCEPT ![c] = "listed"] /\ answer' = [answer EXCEPT ![c] = "asked"]
     \/ Lists(c) /\ SendRaises(c) /\ UNCHANGED answer
     \/ ~Lists(c) /\ call' = [call EXCEPT ![c] = Resolved(c, Status(c))] /\ UNCHANGED answer
  /\ UNCHANGED <<vars, kind, shown, ran>>

\* get_outputs and get_output wait for result(timeout).
TimesOut(c) ==
  /\ c \in Waiting /\ Is(c, {"get_outputs"})
  /\ call' = [call EXCEPT ![c] = "RemoteTimeoutError"]
  /\ UNCHANGED <<vars, kind, answer, shown, ran>>

\* The caller cancels the future of a load; CANCEL_REQUEST follows.
CancelCall(l) ==
  /\ l \in Waiting
  /\ call' = [call EXCEPT ![l] = "CancelledError"]
  /\ UNCHANGED <<vars, kind, answer, shown, ran>>

\* close(), or the worker ends: what is pending is rejected.
TransportFails(c) ==
  /\ c \in Waiting
  /\ call' = [call EXCEPT ![c] = Rejected(c)]
  /\ UNCHANGED <<vars, kind, answer, shown, ran>>
-----------------------------------------------------------------------------
(* _handle_request and _dispatch_request, on the event loop *)

Asked(c) == LoopFree /\ answer[c] = "asked"
Answers(c, status) == answer' = [answer EXCEPT ![c] = status]

\* The token is wrong, or code may not be loaded.  reload is always allowed.
Refusals(l) == {"UNAUTHORIZED"} \cup IF l \in Reloads THEN {} ELSE {"PERMISSION_DENIED"}

\* Fault: the error is sent and the handler goes on.
RefusedGoesOn(l) ==
  /\ Asked(l) /\ task[l] = "absent"
  /\ \E status \in Refusals(l) : reply' = [reply EXCEPT ![l] = status]
  /\ task' = [task EXCEPT ![l] = "load"] /\ Submit(l, "load queued")
  /\ Answers(l, "handled")
  /\ UNCHANGED <<runnerVars, cancelled, reader, phase, kind, call, shown, ran>>

LoadRefusedAtOnce(l) ==
  /\ Asked(l)
  /\ \E status \in Refusals(l) : Reply(l, status)
  /\ Answers(l, "handled")
  /\ UNCHANGED <<runnerVars, job, cancelled, reader, phase, kind, call, shown, ran>>

LoadAccepted(l) ==
  /\ Asked(l) /\ StartLoad(l)
  /\ Answers(l, "handled")
  /\ UNCHANGED <<kind, call, shown, ran>>

Cancels(l) ==
  /\ call[l] = "CancelledError" /\ CancelLoad(l)
  /\ UNCHANGED callVars

\* Fault: outputs are asked for by their position in the list.
InfoByPosition(q) == IF clips = NoOne THEN {"NOT_FOUND"} ELSE {"OK", "NOT_FOUND"}

\* An index that was listed is there until the outputs are replaced; another one
\* may be there or not.
InfoStatuses(q) == IF clips = NoOne THEN {"NOT_FOUND"}
                   ELSE IF shown[q] = clips THEN {"OK"} ELSE {"OK", "NOT_FOUND"}

\* The environment is missing; or it is disposed by a load before it is used,
\* which nobody catches: no answer is sent.
StatsStatuses ==
  IF env = NoOne THEN {"ERROR"}
  ELSE {"OK"} \cup IF \E l \in Loads : job[l] \in {"load", "teardown"} THEN {"raised"} ELSE {}

\* What is read of the runner waits for its lock.
QueryStatuses(q) ==
  IF Is(q, Suppressing) THEN {"OK"}
  ELSE IF holder # NoOne THEN {}
  ELSE IF Is(q, {"get_stats"}) THEN StatsStatuses
  ELSE IF Is(q, {"get_clip_info"}) \/ shown[q] # NoOne THEN InfoStatuses(q)
  ELSE {"OK"}

QueryHandled(q) ==
  /\ Asked(q) /\ ~IsFrame(q)
  /\ \/ Answers(q, "UNAUTHORIZED") /\ UNCHANGED shown
     \/ /\ \E status \in QueryStatuses(q) : Answers(q, status)
        /\ shown' = IF Is(q, {"get_outputs"}) /\ shown[q] = NoOne
                      THEN [shown EXCEPT ![q] = clips] ELSE shown
  /\ UNCHANGED <<vars, kind, call, ran>>

\* Refused, or the clip is looked up.
FrameHandled(g) ==
  /\ Asked(g) /\ IsFrame(g)
  /\ \/ Answers(g, "UNAUTHORIZED") /\ UNCHANGED vars
     \/ GetClip(g) /\ Answers(g, IF clips = NoOne THEN "NOT_FOUND" ELSE "handled")
  /\ UNCHANGED <<kind, call, shown, ran>>

FrameAnswered(g) ==
  /\ answer[g] = "handled"
  /\ \/ GetEnvironment(g) /\ Answers(g, IF env = NoOne THEN "ERROR" ELSE "handled")
     \/ LoopFree /\ reader[g] = "frame" /\ UNCHANGED vars /\ \E s \in {"OK", "ERROR"} : Answers(g, s)
  /\ UNCHANGED <<kind, call, shown, ran>>

LoadStep(l) ==
  /\ LoadReturns(l) \/ LoadRaises(l) \/ TornDown(l) \/ JobStep(l)
  /\ ran' = IF job'[l] = "run" THEN ran \cup {l} ELSE ran
  /\ UNCHANGED <<kind, call, answer, shown>>

Progress == \/ \E c \in Calls : Receive(c)
            \/ \E l \in Loads : LoadRefusedAtOnce(l) \/ LoadAccepted(l) \/ LoadStep(l)
            \/ \E g \in Readers : QueryHandled(g) \/ FrameHandled(g) \/ FrameAnswered(g)

Disturbance == \/ \E c \in Calls : Send(c) \/ TimesOut(c) \/ TransportFails(c)
               \/ \E l \in Loads : CancelCall(l) \/ Cancels(l)
               \/ (Drain \/ CloseRunner) /\ UNCHANGED callVars

CallsNext == Progress \/ Disturbance

\* Threads and event loop of the server go on, scripts end and answers arrive.
CallsSpec == CallsInit /\ [][CallsNext]_allVars /\ WF_allVars(Progress)
-----------------------------------------------------------------------------
\* How a call may end, by the docstrings of send_request and of its method.
\* (A load of a script that is not allowed is "any other server-side error".)
Raises(c) ==
  CASE c \in Codes -> {"RemotePermissionError"}
    [] c \in Scripts -> {"RemoteNotFoundError", "RemotePermissionError"}
    [] c \in Reloads -> {"RemoteNotFoundError"}
    [] Is(c, {"get_clip_info"}) -> {"RemoteNotFoundError"}
    [] Is(c, {"get_outputs"}) -> {"RemoteTimeoutError"}
    [] OTHER -> {}
Documented(c) ==
  IF Is(c, Suppressing) THEN {"True", "False"}
  ELSE IF IsFrame(c) THEN {"header", "TransportError"}
  ELSE {"result", "RemoteAuthenticationError", "RemoteExecutionError", "CancelledError",
        "TransportError"} \cup Raises(c)

\* What get_outputs was told of is not what the server has: a load came between.
Outdated(c) == shown[c] \notin {NoOne, clips}

\* What no docstring mentions, and what must have happened for it: the worker
\* ended while the call was being sent, so that the server has nothing of it
\* before it; a load replaced the outputs that get_outputs was going through; a
\* frame was refused.
Undocumented(c) ==
  {outcome \in {"AttributeError", "RemoteNotFoundError", "ValidationError"} :
     \/ outcome = "AttributeError" /\ answer[c] \in {"none"} \cup (IF Is(c, {"get_outputs"}) THEN {"OK"} ELSE {})
     \/ outcome = "RemoteNotFoundError" /\ Is(c, {"get_outputs"}) /\ Outdated(c)
     \/ outcome = "ValidationError" /\ IsFrame(c) /\ answer[c] = "UNAUTHORIZED"}

\* Whatever client, daemon, runner and other clients do, a call ends in a way its
\* documentation names, or in one of three others for which there is one
\* explanation each.
OutcomesExplained ==
  \A c \in Calls : call[c] \in {"absent", "sent", "listed"} \cup Documented(c) \cup Undocumented(c)

\* The outcome of a load tells whether the script was run: it was when there is
\* a result or an execution error, and with the other remote errors it never is
\* and never will be, nor with the error that leaves send_request, so that the
\* call may be repeated.
OutcomeTellsWhetherRun == \A l \in Loads :
  /\ call[l] \in {"result", "RemoteExecutionError"} => l \in ran
  /\ call[l] \in {"RemoteNotFoundError", "RemotePermissionError", "RemoteAuthenticationError",
                  "AttributeError"} => l \notin ran

\* Loads of clients without the token, or of code that may not be loaded, leave
\* what the server hosts as it is, whatever the executor does meanwhile.
RefusedHasNoEffect ==
  phase = "serving" /\ (\A l \in Loads : task[l] = "absent" \/ reply[l] \in {"UNAUTHORIZED", "PERMISSION_DENIED"})
    => clips = Hosted /\ env = Hosted

\* The inductive invariant behind these, besides RunnerInv.  A load is handled
\* once, after it was sent ...
CallStates == {"absent", "sent", "listed", "result", "header", "True", "False", "TransportError",
               "ValidationError", "RemoteTimeoutError", "CancelledError", "AttributeError"}
                \cup {Exception[status] : status \in DOMAIN Exception}
CallTypes == /\ kind \in [Readers -> Kinds] /\ ran \in SUBSET Loads
             /\ call \in [Calls -> CallStates]
             /\ answer \in [Calls -> {"none", "asked", "handled", "raised"} \cup Statuses]
             /\ shown \in [Readers -> Loads \cup {Hosted, NoOne}]

Unrun == {"NOT_FOUND", "UNAUTHORIZED", "PERMISSION_DENIED"}
HandledInv == \A l \in Loads :
  /\ call[l] \in {"absent", "AttributeError"} => answer[l] = "none"
  /\ answer[l] \in {"none", "asked"} => task[l] = "absent"
  /\ reply[l] \in {"UNAUTHORIZED", "PERMISSION_DENIED"} => job[l] = "none"

\* ... job and status tell whether the script was run, and a load that was
\* answered without having run is never run later ...
RanInv == \A l \in Loads :
  /\ job[l] \in {"run", "ok", "failed"} => l \in ran
  /\ job[l] \in {"none", "load queued", "load", "missing"} => l \notin ran
  /\ reply[l] \in {"OK", "ERROR"} => l \in ran
  /\ reply[l] \in Unrun => l \notin ran /\ job[l] \notin {"load queued", "load", "run"}
  /\ call[l] \in {"result", "RemoteExecutionError"} => l \in ran
  /\ call[l] \in {Exception[status] : status \in Unrun} => task[l] = "done" /\ reply[l] \in Unrun

\* ... and every handler answers with the statuses of its command.
StatusInv ==
  /\ \A l \in Loads : /\ reply[l] \in {"none", "OK", "ERROR"} \cup Unrun
                      /\ l \in Codes => job[l] # "missing" /\ reply[l] # "NOT_FOUND"
                      /\ l \in Reloads => reply[l] # "PERMISSION_DENIED"
  /\ \A q \in Readers :
       /\ answer[q] \in {"none", "asked", "handled", "raised", "OK", "ERROR", "NOT_FOUND", "UNAUTHORIZED"}
       /\ answer[q] = "NOT_FOUND" => Is(q, {"get_clip_info", "get_outputs", "request_frame"})
       /\ call[q] = "listed" => Is(q, {"get_outputs"})

\* Outputs that were replaced do not come back: the script they are of has run.
Past(l) == job[l] \notin {"none", "load queued", "load", "run"}
ShownInv ==
  /\ clips \in Loads => Past(clips)
  /\ \A q \in Readers :
       /\ shown[q] \in Loads => Past(shown[q])
       /\ shown[q] # NoOne => Is(q, {"get_outputs"})
       /\ Is(q, {"get_outputs"}) /\ answer[q] = "NOT_FOUND" => Outdated(q)
       /\ call[q] = "absent" => answer[q] = "none"
       /\ call[q] = "RemoteNotFoundError" => answer[q] = "NOT_FOUND"
       /\ call[q] = "AttributeError" => answer[q] \in {"none", "OK"}

CallsInv == CallTypes /\ HandledInv /\ RanInv /\ StatusInv /\ ShownInv /\ OutcomesExplained

\* As long as the server runs every call ends, also when loads occupy its
\* threads or its event loop and fail, except GET_STATS whose handler raised.
Unanswered == {c \in Waiting : answer[c] # "raised"}
CallsEnd == Unanswered # {} ~> Unanswered = {} \/ phase # "serving"
-----------------------------------------------------------------------------
(* What tests say, and the code does not always do *)

\* "missing auth token raises RemoteAuthenticationError across all client
\* methods": those that do not suppress errors.
AuthenticationIsReported ==
  \A c \in Calls \ Waiting : Status(c) = "UNAUTHORIZED" /\ ~Is(c, Suppressing)
    => call[c] \in {"RemoteAuthenticationError", "RemoteTimeoutError", "CancelledError", "TransportError"}
=============================================================================
