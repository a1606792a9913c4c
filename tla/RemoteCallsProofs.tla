------------------------- MODULE RemoteCallsProofs -------------------------
(***************************************************************************)
(* What a caller learns from the outcome of a call, for any number of      *)
(* calls and whatever transport, daemon, runner and executor do: the       *)
(* invariant of the runner is kept by the composition, and that of the     *)
(* calls rests on it.                                                      *)
(***************************************************************************)
EXTENDS RemoteCalls, ScriptRunnerProofs

\* The actors of the composition.
ClientStep == \/ \E c \in Calls : Send(c) \/ Receive(c) \/ TimesOut(c) \/ TransportFails(c)
              \/ \E l \in Loads : CancelCall(l)
QueryStep == \E g \in Readers : QueryHandled(g) \/ FrameHandled(g) \/ FrameAnswered(g)
LoadCallStep(l) == LoadRefusedAtOnce(l) \/ LoadAccepted(l) \/ Cancels(l) \/ LoadStep(l)
StopStep == (Drain \/ CloseRunner) /\ UNCHANGED callVars

\* Every step is a step of one of them.
LEMMA CallsActors ==
  CallsNext => ClientStep \/ QueryStep \/ (\E l \in Loads : LoadCallStep(l)) \/ StopStep
BY DEF CallsNext, Progress, Disturbance, ClientStep, QueryStep, LoadCallStep, StopStep

\* The exceptions of the statuses, one by one.
LEMMA ExceptionValues ==
  /\ DOMAIN Exception = {"ERROR", "NOT_FOUND", "INVALID_COMMAND", "INVALID_PAYLOAD",
                         "UNAUTHORIZED", "PERMISSION_DENIED"}
  /\ Exception["ERROR"] = "RemoteExecutionError" /\ Exception["NOT_FOUND"] = "RemoteNotFoundError"
  /\ Exception["UNAUTHORIZED"] = "RemoteAuthenticationError"
  /\ Exception["PERMISSION_DENIED"] = "RemotePermissionError"
BY DEF Exception

\* The names of the two kinds of outcome that RanInv distinguishes.
LEMMA UnrunExceptions ==
  {Exception[status] : status \in Unrun}
    = {"RemoteNotFoundError", "RemotePermissionError", "RemoteAuthenticationError"}
BY ExceptionValues DEF Unrun

\* An answer becomes an outcome.
LEMMA ResolvedTypes ==
  ASSUME NEW c \in Calls, NEW status \in Statuses
  PROVE  Resolved(c, status) \in CallStates \ {"absent", "sent", "listed"}
<1>1. status # "OK" => status \in DOMAIN Exception
  BY ExceptionValues DEF Statuses
<1>2. status # "OK" => Exception[status] \in CallStates
  BY <1>1 DEF CallStates
<1>3. status # "OK" => Exception[status] \notin {"absent", "sent", "listed"}
  BY <1>1 DEF Exception
<1> QED BY <1>2, <1>3 DEF Resolved, CallStates

\* So does a rejection.
LEMMA RejectedTypes ==
  ASSUME NEW c \in Calls
  PROVE  Rejected(c) \in {"False", "TransportError"} /\ Rejected(c) \in CallStates
BY DEF Rejected, CallStates
-----------------------------------------------------------------------------
\* A load that is refused at once was never in the executor.
LEMMA RefusedStep ==
  ASSUME TypeOK, RunnerInv, CallsInv, NEW l \in Loads, LoadRefusedAtOnce(l)
  PROVE  TypeOK' /\ RunnerInv'
<1> USE DEF LoadRefusedAtOnce, Asked, Reply, Refusals, runnerVars
<1>1. task[l] = "absent" /\ job[l] = "none" /\ reply[l] = "none" /\ l \notin cancelled
  BY DEF CallsInv, HandledInv, RunnerInv, TaskInv
<1>2. TypeOK'
  <2>1. PICK status \in Refusals(l) : Reply(l, status)
    OBVIOUS
  <2>2. status \in Statuses
    BY <2>1 DEF Statuses
  <2>3. task' \in [Loads -> {"absent", "load", "teardown", "done"}] /\ reply' \in [Loads -> {"none"} \cup Statuses]
    BY <2>1, <2>2 DEF TypeOK
  <2> QED BY <2>3 DEF TypeOK
<1>3. LockInv' BY DEF RunnerInv, LockInv, OutputsHaveEnvironment
<1>4. TaskInv' BY <1>1, ZenonT(30) DEF RunnerInv, TaskInv, TypeOK
<1>5. EnvInv' BY DEF RunnerInv, EnvInv
<1>6. DrainInv' BY DEF RunnerInv, DrainInv, ClosedIsEmpty, Busy
<1> QED BY <1>2, <1>3, <1>4, <1>5, <1>6 DEF RunnerInv

\* The composition does to the runner what the runner's own specification
\* allows, except for the refusals, and keeps its invariant.
LEMMA RunnerKept ==
  ASSUME TypeOK, RunnerInv, CallsInv, [CallsNext]_allVars
  PROVE  TypeOK' /\ RunnerInv'
<1>1. ASSUME [Next]_vars PROVE TypeOK' /\ RunnerInv'
  BY <1>1, RunnerStep
<1>2. CASE UNCHANGED allVars
  BY <1>1, <1>2 DEF allVars
<1>3. CASE ClientStep
  BY <1>1, <1>3 DEF ClientStep, Send, Receive, TimesOut, TransportFails, CancelCall
<1>4. CASE QueryStep
  BY <1>1, <1>4 DEF QueryStep, QueryHandled, FrameHandled, FrameAnswered, Next
<1>5. ASSUME NEW l \in Loads, LoadCallStep(l) PROVE TypeOK' /\ RunnerInv'
  BY <1>1, <1>5, RefusedStep DEF LoadCallStep, LoadAccepted, Cancels, LoadStep, Next, LoopStep
<1>6. CASE StopStep
  BY <1>1, <1>6 DEF StopStep, Next
<1> QED BY <1>2, <1>3, <1>4, <1>5, <1>6, CallsActors
-----------------------------------------------------------------------------
\* Loads are not readers, so no method of a reader is theirs.
LEMMA LoadsAreNoReaders == \A l \in Loads : l \notin Readers
BY CallsAssumption DEF CallsAssumption

\* What the answer to a load becomes: documented, and it tells whether it ran.
LEMMA LoadResolved ==
  ASSUME TypeOK, CallsInv, NEW l \in Loads, Status(l) \in Statuses
  PROVE  /\ task[l] = "done"
         /\ Resolved(l, Status(l)) \in Documented(l)
         /\ Resolved(l, Status(l)) \in {"result", "RemoteExecutionError"} => l \in ran
         /\ Resolved(l, Status(l)) \in {Exception[status] : status \in Unrun} => reply[l] \in Unrun
         /\ Resolved(l, Status(l)) # "AttributeError"
<1> USE LoadsAreNoReaders DEF Is, IsFrame
<1>1. task[l] = "done" /\ Status(l) = reply[l]
  BY DEF Status, Statuses
<1>2. reply[l] \in {"OK", "ERROR"} \cup Unrun
  BY <1>1 DEF CallsInv, StatusInv, Statuses
<1>3. Resolved(l, reply[l]) = IF reply[l] = "OK" THEN "result" ELSE Exception[reply[l]]
  BY DEF Resolved
<1>4. Documented(l) = {"result", "RemoteAuthenticationError", "RemoteExecutionError",
                       "CancelledError", "TransportError"} \cup Raises(l)
  BY DEF Documented
<1>5. CASE reply[l] \in {"OK", "ERROR"}
  BY <1>1, <1>3, <1>4, <1>5, ExceptionValues, UnrunExceptions DEF CallsInv, RanInv
<1>6. CASE reply[l] = "UNAUTHORIZED"
  BY <1>1, <1>3, <1>4, <1>6, ExceptionValues DEF Unrun
<1>7. CASE reply[l] = "NOT_FOUND"
  <2>1. l \notin Codes BY <1>7 DEF CallsInv, StatusInv
  <2>2. "RemoteNotFoundError" \in Raises(l)
    BY <2>1, RunnerAssumption DEF Raises, Loads, RunnerAssumption
  <2> QED BY <1>1, <1>3, <1>4, <1>7, <2>2, ExceptionValues DEF Unrun
<1>8. CASE reply[l] = "PERMISSION_DENIED"
  <2>1. l \notin Reloads BY <1>8 DEF CallsInv, StatusInv
  <2>2. "RemotePermissionError" \in Raises(l)
    BY <2>1, RunnerAssumption DEF Raises, Loads, RunnerAssumption
  <2> QED BY <1>1, <1>3, <1>4, <1>8, <2>2, ExceptionValues DEF Unrun
<1> QED BY <1>2, <1>5, <1>6, <1>7, <1>8 DEF Unrun

\* What the answer to any other call becomes is documented, but for a frame
\* that is refused, and an output that get_outputs was told of and is not there.
LEMMA QueryResolved ==
  ASSUME CallsInv, NEW q \in Readers, Status(q) \in Statuses
  PROVE  /\ Resolved(q, Status(q)) \in Documented(q) \cup Undocumented(q)
         /\ Resolved(q, Status(q)) = "RemoteNotFoundError" => answer[q] = "NOT_FOUND"
         /\ Resolved(q, Status(q)) # "AttributeError"
<1>1. Status(q) = answer[q] /\ q \notin Loads
  BY LoadsAreNoReaders DEF Status
<1>2. answer[q] \in {"OK", "ERROR", "NOT_FOUND", "UNAUTHORIZED"}
  BY <1>1 DEF CallsInv, StatusInv, Statuses
<1>3. CASE Is(q, Suppressing)
  BY <1>3 DEF Resolved, Documented
<1>4. CASE IsFrame(q)
  <2>1. ~Is(q, Suppressing)
    BY <1>4 DEF IsFrame, Is, Suppressing
  <2>2. CASE answer[q] = "UNAUTHORIZED"
    BY <1>1, <1>4, <2>1, <2>2 DEF Resolved, Undocumented
  <2>3. CASE answer[q] # "UNAUTHORIZED"
    BY <1>1, <1>4, <2>1, <2>3 DEF Resolved, Documented
  <2> QED BY <2>2, <2>3
<1>5. CASE ~Is(q, Suppressing) /\ ~IsFrame(q)
  <2>1. Documented(q) = {"result", "RemoteAuthenticationError", "RemoteExecutionError",
                         "CancelledError", "TransportError"} \cup Raises(q)
    BY <1>5 DEF Documented
  <2>2. Resolved(q, Status(q)) = IF answer[q] = "OK" THEN "result" ELSE Exception[answer[q]]
    BY <1>1, <1>5 DEF Resolved
  <2>3. ASSUME answer[q] = "NOT_FOUND" PROVE "RemoteNotFoundError" \in Raises(q) \cup Undocumented(q)
    <3>1. CASE Is(q, {"get_clip_info"})
      <4>1. "RemoteNotFoundError" \in Raises(q) BY <3>1, <1>1 DEF Raises, Loads, Is
      <4> QED BY <4>1
    <3>2. CASE Is(q, {"get_outputs"})
      <4>1. Outdated(q) BY <3>2, <2>3 DEF CallsInv, ShownInv
      <4> QED BY <3>2, <4>1 DEF Undocumented
    <3>3. Is(q, {"get_clip_info"}) \/ Is(q, {"get_outputs"})
      BY <2>3, <1>5 DEF CallsInv, StatusInv, Is, IsFrame
    <3> QED BY <3>1, <3>2, <3>3
  <2> QED BY <1>2, <2>1, <2>2, <2>3, ExceptionValues
<1> QED BY <1>3, <1>4, <1>5

\* A rejection is documented.
LEMMA RejectedDocumented ==
  ASSUME NEW c \in Calls
  PROVE  Rejected(c) \in Documented(c)
BY DEF Rejected, Documented
-----------------------------------------------------------------------------
\* What is documented depends on the method alone.
LEMMA DocumentedKept ==
  ASSUME kind' = kind
  PROVE  /\ \A c : Documented(c)' = Documented(c) /\ IsFrame(c)' = IsFrame(c)
         /\ \A c, kinds : Is(c, kinds)' = Is(c, kinds)
BY DEF Documented, Raises, IsFrame, Is

\* What explains an outcome lasts as long as the answer does, and outputs that
\* were replaced do not come back.
LEMMA ExplanationKept ==
  ASSUME NEW c \in Calls, kind' = kind, answer'[c] = answer[c],
         c \in Readers /\ Outdated(c) => Outdated(c)'
  PROVE  Undocumented(c) \subseteq Undocumented(c)'
<1>1. \A kinds : Is(c, kinds)' = Is(c, kinds)
  BY DocumentedKept
<1>2. IsFrame(c)' = IsFrame(c) /\ (Is(c, {"get_outputs"}) => c \in Readers)
  BY DocumentedKept DEF Is
<1> QED BY <1>1, <1>2 DEF Undocumented

\* A step of loads or of stop() leaves what readers were told and how they ended.
LEMMA ShownKept ==
  ASSUME TypeOK, CallTypes, ShownInv, UNCHANGED <<kind, shown>>,
         clips' \in {NoOne, clips} \/ (clips' \in Loads /\ ~Past(clips') /\ Past(clips)'),
         \A l \in Loads : Past(l) => Past(l)',
         \A q \in Readers : answer'[q] = answer[q] /\ call'[q] = call[q]
  PROVE  ShownInv' /\ \A q \in Readers : Outdated(q) => Outdated(q)'
<1>1. clips' \in Loads => Past(clips)'
  BY RunnerAssumption DEF ShownInv, RunnerAssumption
<1>2. ASSUME NEW q \in Readers, Outdated(q) PROVE Outdated(q)'
  <2>1. shown[q] \in Loads \cup {Hosted}
    BY <1>2 DEF CallTypes, Outdated
  <2>2. shown[q] \in Loads => Past(shown[q])
    BY DEF ShownInv
  <2> QED BY <1>2, <2>1, <2>2, RunnerAssumption DEF Outdated, RunnerAssumption
<1>3. ASSUME NEW q \in Readers
      PROVE  /\ shown'[q] \in Loads => Past(shown[q])'
             /\ shown'[q] # NoOne => Is(q, {"get_outputs"})'
             /\ Is(q, {"get_outputs"})' /\ answer'[q] = "NOT_FOUND" => Outdated(q)'
             /\ call'[q] = "absent" => answer'[q] = "none"
             /\ call'[q] = "RemoteNotFoundError" => answer'[q] = "NOT_FOUND"
             /\ call'[q] = "AttributeError" => answer'[q] \in {"none", "OK"}
  BY <1>2, DocumentedKept DEF ShownInv
<1> QED BY <1>1, <1>2, <1>3 DEF ShownInv

\* The client ends one call at a time, in a way that is documented or explained
\* and fits what the daemon did.
LEMMA ClientEnds ==
  ASSUME CallsInv, NEW c \in Calls,
         NEW outcome \in CallStates \ {"absent", "sent", "listed"},
         call' = [call EXCEPT ![c] = outcome], UNCHANGED <<vars, kind, answer, shown, ran>>,
         outcome \in Documented(c) \cup Undocumented(c),
         c \in Loads =>
           /\ outcome \in {"result", "RemoteExecutionError"} => c \in ran
           /\ outcome \in {Exception[status] : status \in Unrun} =>
                task[c] = "done" /\ reply[c] \in Unrun
           /\ outcome = "AttributeError" => answer[c] = "none",
         c \in Readers =>
           /\ outcome = "RemoteNotFoundError" => answer[c] = "NOT_FOUND"
           /\ outcome = "AttributeError" => answer[c] \in {"none", "OK"}
  PROVE  CallsInv'
<1> USE DEF CallsInv, vars, taskVars, runnerVars
<1>1. call \in [Calls -> CallStates] /\ Loads \subseteq Calls /\ Readers \subseteq Calls
  BY DEF CallTypes, Calls
<1>2. CallTypes' BY DEF CallTypes
<1>3. HandledInv' BY <1>1 DEF HandledInv
<1>4. RanInv' BY <1>1 DEF RanInv
<1>5. StatusInv' BY <1>1, DocumentedKept DEF StatusInv
<1>6. ShownInv' BY <1>1, DocumentedKept DEF ShownInv, Past, Outdated
<1>7. \A d \in Calls : Undocumented(d) \subseteq Undocumented(d)'
  BY ExplanationKept DEF Outdated
<1>8. OutcomesExplained' BY <1>1, <1>7, DocumentedKept DEF OutcomesExplained
<1> QED BY <1>2, <1>3, <1>4, <1>5, <1>6, <1>8

\* The client asks: it sends a call, or get_outputs asks for an output.
LEMMA ClientAsks ==
  ASSUME CallsInv, NEW c \in Calls, NEW state \in {"sent", "listed"},
         call' = [call EXCEPT ![c] = state], answer' = [answer EXCEPT ![c] = "asked"],
         UNCHANGED <<vars, kind, shown, ran>>,
         c \in Loads => call[c] = "absent",
         state = "listed" => Is(c, {"get_outputs"})
  PROVE  CallsInv'
<1> USE DEF CallsInv, vars, taskVars, runnerVars
<1>1. call \in [Calls -> CallStates] /\ answer \in [Calls -> {"none", "asked", "handled", "raised"} \cup Statuses]
      /\ Loads \subseteq Calls /\ Readers \subseteq Calls
  BY DEF CallTypes, Calls
<1>2. CallTypes' BY <1>1 DEF CallTypes, CallStates
<1>3. HandledInv' BY <1>1 DEF HandledInv
<1>4. RanInv' BY <1>1, UnrunExceptions DEF RanInv
<1>5. StatusInv' BY <1>1, DocumentedKept DEF StatusInv
<1>6. ShownInv' BY <1>1, DocumentedKept DEF ShownInv, Past, Outdated
<1>7. \A d \in Calls \ {c} : Undocumented(d) \subseteq Undocumented(d)'
  BY <1>1, ExplanationKept DEF Outdated
<1>8. OutcomesExplained' BY <1>1, <1>7, DocumentedKept DEF OutcomesExplained
<1> QED BY <1>2, <1>3, <1>4, <1>5, <1>6, <1>8

\* The error leaves send_request: nothing of the call has reached the server, or
\* get_outputs had its list and no more.
LEMMA ClientRaises ==
  ASSUME CallsInv, NEW c \in Calls, SendRaises(c), UNCHANGED <<vars, kind, answer, shown, ran>>,
         call[c] = "absent" \/ Lists(c)
  PROVE  CallsInv'
<1>1. call' = [call EXCEPT ![c] = "AttributeError"]
  BY DEF SendRaises
<1>2. "AttributeError" \in CallStates \ {"absent", "sent", "listed"}
  BY DEF CallStates
<1>3. CASE Lists(c)
  <2>1. Is(c, {"get_outputs"}) /\ answer[c] = "OK" /\ c \notin Loads
    BY <1>3, LoadsAreNoReaders DEF Lists, Is, Status
  <2>2. "AttributeError" \in Undocumented(c)
    BY <2>1 DEF Undocumented
  <2> QED BY <1>1, <1>2, <2>1, <2>2, ClientEnds
<1>4. CASE call[c] = "absent"
  <2>1. c \in Loads => answer[c] = "none"
    BY <1>4 DEF CallsInv, HandledInv
  <2>2. answer[c] = "none"
    BY <1>4, <2>1 DEF CallsInv, ShownInv, Calls
  <2>3. "AttributeError" \in Undocumented(c)
    BY <2>2 DEF Undocumented
  <2> QED BY <1>1, <1>2, <2>2, <2>3, UnrunExceptions, ClientEnds
<1> QED BY <1>3, <1>4

\* So does every step of the client.
LEMMA ClientCalls ==
  ASSUME TypeOK, CallsInv, ClientStep
  PROVE  CallsInv'
<1>1. ASSUME NEW c \in Calls, call' = [call EXCEPT ![c] = Rejected(c)],
             UNCHANGED <<vars, kind, answer, shown, ran>>
      PROVE  CallsInv'
  <2>1. Rejected(c) \in CallStates \ {"absent", "sent", "listed"}
    BY RejectedTypes
  <2>2. Rejected(c) \in Documented(c)
    BY RejectedDocumented
  <2>3. Rejected(c) \notin {"result", "RemoteExecutionError", "AttributeError", "RemoteNotFoundError"}
                           \cup {Exception[status] : status \in Unrun}
    BY RejectedTypes, UnrunExceptions
  <2> QED BY <1>1, <2>1, <2>2, <2>3, ClientEnds
<1>2. ASSUME NEW c \in Calls, Send(c) PROVE CallsInv'
  <2>1. CASE SendRaises(c) /\ UNCHANGED answer
    BY <1>2, <2>1, ClientRaises DEF Send
  <2>2. CASE ~(SendRaises(c) /\ UNCHANGED answer)
    BY <1>1, <1>2, <2>2, ClientAsks DEF Send
  <2> QED BY <2>1, <2>2
<1>3. ASSUME NEW c \in Calls, TransportFails(c) PROVE CallsInv'
  BY <1>1, <1>3 DEF TransportFails
<1>4. ASSUME NEW c \in Calls, TimesOut(c) PROVE CallsInv'
  <2>1. c \notin Loads /\ "RemoteTimeoutError" \in Documented(c)
    BY <1>4, LoadsAreNoReaders, RunnerAssumption
       DEF TimesOut, Documented, Raises, Is, IsFrame, Suppressing, Loads
  <2> QED BY <1>4, <2>1, ClientEnds DEF TimesOut, CallStates
<1>5. ASSUME NEW l \in Loads, CancelCall(l) PROVE CallsInv'
  <2>1. l \in Calls /\ "CancelledError" \in Documented(l)
    BY LoadsAreNoReaders DEF Documented, Is, IsFrame, Calls
  <2> QED BY <1>5, <2>1, UnrunExceptions, ClientEnds DEF CancelCall, CallStates
<1>6. ASSUME NEW c \in Calls, Receive(c) PROVE CallsInv'
  <2> USE <1>6 DEF Receive
  <2>1. CASE Lists(c) /\ answer' # answer
    <3>1. c \notin Loads /\ Is(c, {"get_outputs"}) BY <2>1, LoadsAreNoReaders DEF Lists, Is
    <3>2. call' = [call EXCEPT ![c] = "listed"] /\ answer' = [answer EXCEPT ![c] = "asked"]
      BY <2>1
    <3> QED BY <3>1, <3>2, ClientAsks
  <2>2. CASE Lists(c) /\ answer' = answer
    <3>1. answer[c] = "OK" /\ c \in DOMAIN answer
      BY <2>2, LoadsAreNoReaders DEF Lists, Is, Status, CallsInv, CallTypes
    <3>2. answer' # [answer EXCEPT ![c] = "asked"]
      BY <2>2, <3>1
    <3> QED BY <2>2, <3>2, ClientRaises
  <2>3. CASE ~Lists(c)
    <3>1. call' = [call EXCEPT ![c] = Resolved(c, Status(c))]
          /\ UNCHANGED <<vars, kind, answer, shown, ran>> /\ Status(c) \in Statuses
      BY <2>3
    <3>2. Resolved(c, Status(c)) \in CallStates \ {"absent", "sent", "listed"}
      BY <3>1, ResolvedTypes
    <3>3. CASE c \in Loads
      BY <3>1, <3>2, <3>3, LoadResolved, LoadsAreNoReaders, ClientEnds
    <3>4. CASE c \in Readers BY <3>1, <3>2, <3>4, LoadsAreNoReaders, QueryResolved, ClientEnds
    <3> QED BY <3>3, <3>4 DEF Calls
  <2> QED BY <2>1, <2>2, <2>3
<1> QED BY <1>2, <1>3, <1>4, <1>5, <1>6 DEF ClientStep
-----------------------------------------------------------------------------
\* The handlers of all commands but loads answer once, with a status that the
\* command has.
LEMMA QueriesAnswered ==
  ASSUME TypeOK, CallsInv, QueryStep
  PROVE  CallsInv'
<1> PICK g \in Readers : QueryHandled(g) \/ FrameHandled(g) \/ FrameAnswered(g)
  BY DEF QueryStep
<1>1. UNCHANGED <<taskVars, clips, kind, call, ran>> /\ g \notin Loads
  BY LoadsAreNoReaders DEF QueryHandled, FrameHandled, FrameAnswered, GetClip, GetEnvironment, vars, runnerVars
<1>2. shown' = shown \/ (/\ Is(g, {"get_outputs"}) /\ shown[g] = NoOne
                         /\ shown' = [shown EXCEPT ![g] = clips])
  BY DEF QueryHandled, FrameHandled, FrameAnswered
<1>3. PICK status \in {"handled", "raised", "OK", "ERROR", "NOT_FOUND", "UNAUTHORIZED"} :
        /\ answer' = [answer EXCEPT ![g] = status]
        /\ status = "NOT_FOUND" => Is(g, {"get_clip_info", "get_outputs", "request_frame"})
        /\ status = "NOT_FOUND" /\ Is(g, {"get_outputs"}) => Outdated(g)
  <2>1. CASE QueryHandled(g)
    <3>1. PICK status \in {"UNAUTHORIZED"} \cup QueryStatuses(g) : Answers(g, status)
      BY <2>1 DEF QueryHandled
    <3>2. shown[g] # NoOne => Is(g, {"get_outputs"})
      BY DEF CallsInv, ShownInv
    <3>3. ~Is(g, Suppressing) => status \in {"OK", "ERROR", "raised", "UNAUTHORIZED"} \/
            (status = "NOT_FOUND" /\ (Is(g, {"get_clip_info"}) \/ Outdated(g)))
      BY <3>1 DEF QueryStatuses, StatsStatuses, InfoStatuses, Outdated
    <3>4. Is(g, Suppressing) => status \in {"OK", "UNAUTHORIZED"}
      BY <3>1 DEF QueryStatuses
    <3>5. status = "NOT_FOUND" => Is(g, {"get_clip_info", "get_outputs", "request_frame"})
      <4>1. status = "NOT_FOUND" => shown[g] # NoOne \/ Is(g, {"get_clip_info"})
        BY <3>3, <3>4 DEF Outdated
      <4> QED BY <3>2, <4>1 DEF Is
    <3> QED BY <3>1, <3>3, <3>4, <3>5 DEF Answers, Is
  <2>2. CASE FrameHandled(g)
    BY <2>2 DEF FrameHandled, Answers, IsFrame, Is
  <2>3. CASE FrameAnswered(g)
    BY <2>3 DEF FrameAnswered, Answers
  <2> QED BY <2>1, <2>2, <2>3
<1>4. answer[g] \in {"asked", "handled"}
  BY DEF QueryHandled, FrameHandled, FrameAnswered, Asked
<1> USE <1>1, <1>3 DEF CallsInv, taskVars
<1>5. g \in Calls /\ answer \in [Calls -> {"none", "asked", "handled", "raised"} \cup Statuses]
      /\ Loads \subseteq Calls /\ Readers \subseteq Calls
  BY DEF CallTypes, Calls
<1>6. shown' \in [Readers -> Loads \cup {Hosted, NoOne}]
  BY <1>2 DEF CallTypes, TypeOK
<1>7. CallTypes' BY <1>6 DEF CallTypes, Statuses
<1>8. HandledInv' BY <1>5 DEF HandledInv
<1>9. RanInv' BY DEF RanInv
<1>10. StatusInv' BY <1>5, DocumentedKept DEF StatusInv
<1>11. ShownInv'
  <2>1. \A q \in Readers \ {g} : shown'[q] = shown[q] /\ answer'[q] = answer[q]
    BY <1>2, <1>5 DEF CallTypes
  <2>2. clips' \in Loads => Past(clips)'
    BY DEF ShownInv, Past
  <2>3. ASSUME NEW q \in Readers \ {g}
        PROVE  /\ shown'[q] \in Loads => Past(shown[q])'
               /\ shown'[q] # NoOne => Is(q, {"get_outputs"})'
               /\ Is(q, {"get_outputs"})' /\ answer'[q] = "NOT_FOUND" => Outdated(q)'
               /\ call'[q] = "absent" => answer'[q] = "none"
               /\ call'[q] = "RemoteNotFoundError" => answer'[q] = "NOT_FOUND"
               /\ call'[q] = "AttributeError" => answer'[q] \in {"none", "OK"}
    <3>1. /\ shown[q] \in Loads => Past(shown[q])
          /\ shown[q] # NoOne => Is(q, {"get_outputs"})
          /\ Is(q, {"get_outputs"}) /\ answer[q] = "NOT_FOUND" => Outdated(q)
          /\ call[q] = "absent" => answer[q] = "none"
          /\ call[q] = "RemoteNotFoundError" => answer[q] = "NOT_FOUND"
          /\ call[q] = "AttributeError" => answer[q] \in {"none", "OK"}
      BY DEF ShownInv
    <3>2. Is(q, {"get_outputs"})' = Is(q, {"get_outputs"}) /\ call' = call
      BY DocumentedKept
    <3>3. shown'[q] = shown[q] /\ answer'[q] = answer[q] /\ job' = job /\ clips' = clips
      BY <2>1
    <3> QED BY <3>1, <3>2, <3>3 DEF Past, Outdated
  <2>4. /\ shown'[g] \in Loads => Past(shown[g])'
        /\ shown'[g] # NoOne => Is(g, {"get_outputs"})'
    BY <1>2, DocumentedKept DEF ShownInv, Past, CallTypes
  <2>5. /\ Is(g, {"get_outputs"})' /\ answer'[g] = "NOT_FOUND" => Outdated(g)'
        /\ call'[g] \notin {"absent", "RemoteNotFoundError", "AttributeError"}
    BY <1>2, <1>4, <1>5, DocumentedKept DEF ShownInv, Outdated
  <2> QED BY <2>2, <2>3, <2>4, <2>5 DEF ShownInv
<1>12. OutcomesExplained'
  <2>1. ASSUME NEW c \in Calls, c # g PROVE Undocumented(c) \subseteq Undocumented(c)'
    <3>1. answer'[c] = answer[c] /\ (c \in Readers => shown'[c] = shown[c])
      BY <1>2, <1>5, <2>1 DEF CallTypes
    <3>2. c \in Readers /\ Outdated(c) => Outdated(c)'
      BY <3>1 DEF Outdated
    <3> QED BY <3>1, <3>2, ExplanationKept
  <2>2. call[g] \in {"sent", "listed"} \cup Documented(g)
    BY <1>4, <1>5 DEF OutcomesExplained, Undocumented, ShownInv
  <2> QED BY <2>1, <2>2, DocumentedKept DEF OutcomesExplained
<1> QED BY <1>7, <1>8, <1>9, <1>10, <1>11, <1>12
-----------------------------------------------------------------------------
\* A step of a load does not change what its caller sees, nor the other calls.
LEMMA LoadStepTouches ==
  ASSUME TypeOK, CallsInv, NEW l \in Loads, LoadCallStep(l)
  PROVE  /\ UNCHANGED <<kind, call>>
         /\ \A m \in Loads \ {l} : /\ task'[m] = task[m] /\ job'[m] = job[m] /\ reply'[m] = reply[m]
                                   /\ m \in ran' <=> m \in ran
         /\ answer' = answer \/ (answer' = [answer EXCEPT ![l] = "handled"] /\ answer[l] = "asked")
<1> USE DEF TypeOK, Submit, Reply, Answers, callVars
<1>1. CASE LoadRefusedAtOnce(l) BY <1>1 DEF LoadRefusedAtOnce, Asked
<1>2. CASE LoadAccepted(l) BY <1>2 DEF LoadAccepted, StartLoad, Asked
<1>3. CASE Cancels(l) BY <1>3 DEF Cancels, CancelLoad
<1>4. CASE LoadStep(l)
  <2>1. UNCHANGED <<kind, call, answer>> /\ ran' = IF job'[l] = "run" THEN ran \cup {l} ELSE ran
    BY <1>4 DEF LoadStep
  <2>2. \A m \in Loads \ {l} : task'[m] = task[m] /\ job'[m] = job[m] /\ reply'[m] = reply[m]
    <3>1. CASE LoadReturns(l) \/ LoadRaises(l) \/ TornDown(l)
      BY <3>1 DEF LoadReturns, LoadRaises, TornDown
    <3>2. CASE JobStep(l)
      BY <3>2 DEF JobStep, JobStarts, LoadRefused, LoadEnters, LoadSucceeds, LoadFails, Teardown
    <3> QED BY <1>4, <3>1, <3>2 DEF LoadStep
  <2> QED BY <2>1, <2>2
<1> QED BY <1>1, <1>2, <1>3, <1>4 DEF LoadCallStep

\* What readers were told stays, and outputs come from a script that has just run.
LEMMA LoadStepShows ==
  ASSUME TypeOK, RunnerInv, CallsInv, NEW l \in Loads, LoadCallStep(l)
  PROVE  /\ shown' = shown
         /\ clips' \in {NoOne, clips} \/ (clips' = l /\ ~Past(l) /\ Past(l)')
         /\ \A m \in Loads : Past(m) => Past(m)'
<1> USE DEF TypeOK, Submit, Reply, Answers, callVars, runnerVars, Past
<1>1. CASE LoadRefusedAtOnce(l) BY <1>1 DEF LoadRefusedAtOnce, Asked
<1>2. CASE LoadAccepted(l)
  <2>1. job[l] = "none"
    BY <1>2 DEF LoadAccepted, StartLoad, RunnerInv, TaskInv
  <2> QED BY <1>2, <2>1 DEF LoadAccepted, StartLoad
<1>3. CASE Cancels(l) BY <1>3 DEF Cancels, CancelLoad, Drop
<1>4. CASE LoadStep(l)
  <2>1. CASE LoadReturns(l) \/ LoadRaises(l) \/ TornDown(l)
    BY <1>4, <2>1 DEF LoadStep, LoadReturns, LoadRaises, TornDown
  <2>2. CASE JobStarts(l) \/ LoadRefused(l) \/ LoadEnters(l)
    BY <1>4, <2>2 DEF LoadStep, JobStarts, LoadRefused, LoadEnters
  <2>3. CASE LoadSucceeds(l) \/ LoadFails(l) \/ Teardown(l)
    BY <1>4, <2>3 DEF LoadStep, LoadSucceeds, LoadFails, Teardown, Empty
  <2> QED BY <1>4, <2>1, <2>2, <2>3 DEF LoadStep, JobStep
<1> QED BY <1>1, <1>2, <1>3, <1>4 DEF LoadCallStep

\* The load itself: its job, its status and whether its script was run agree.
LoadAgrees(l) ==
  /\ answer[l] \in {"none", "asked"} => task[l] = "absent"
  /\ reply[l] \in {"UNAUTHORIZED", "PERMISSION_DENIED"} => job[l] = "none"
  /\ job[l] \in {"run", "ok", "failed"} => l \in ran
  /\ job[l] \in {"none", "load queued", "load", "missing"} => l \notin ran
  /\ reply[l] \in {"OK", "ERROR"} => l \in ran
  /\ reply[l] \in Unrun => l \notin ran /\ job[l] \notin {"load queued", "load", "run"}
  /\ reply[l] \in {"none", "OK", "ERROR"} \cup Unrun
  /\ l \in Codes => job[l] # "missing" /\ reply[l] # "NOT_FOUND"
  /\ l \in Reloads => reply[l] # "PERMISSION_DENIED"

\* ... and what was answered, without having run or not, stays so.
LEMMA LoadStepAgrees ==
  ASSUME TypeOK, RunnerInv, CallsInv, NEW l \in Loads, LoadCallStep(l)
  PROVE  /\ LoadAgrees(l)'
         /\ task[l] = "done" /\ call[l] # "CancelledError" => task'[l] = "done" /\ reply'[l] = reply[l]
         /\ l \in ran => l \in ran'
<1> USE RunnerAssumption DEF RunnerAssumption, TypeOK, Submit, Reply, Answers, callVars
<1>1. LoadAgrees(l)
  BY DEF CallsInv, HandledInv, RanInv, StatusInv, LoadAgrees
<1>2. /\ task[l] = "absent" => job[l] = "none" /\ reply[l] = "none"
      /\ task[l] = "load" => job[l] \in {"load queued", "load", "run", "ok", "failed", "missing"}
      /\ task[l] = "teardown" => job[l] \in {"teardown queued", "teardown", "torn down"}
  BY DEF RunnerInv, TaskInv
<1>3. answer \in [Calls -> {"none", "asked", "handled", "raised"} \cup Statuses] /\ l \in Calls
  BY DEF CallsInv, CallTypes, Calls
<1>4. CASE LoadRefusedAtOnce(l)
  <2> USE <1>4 DEF LoadRefusedAtOnce, Asked
  <2>1. task[l] = "absent"
    BY <1>1 DEF LoadAgrees
  <2>2. task'[l] = "done" /\ answer'[l] = "handled" /\ job'[l] = "none" /\ l \notin ran'
    BY <1>1, <1>2, <1>3, <2>1 DEF LoadAgrees
  <2>3. /\ reply'[l] \in {"UNAUTHORIZED", "PERMISSION_DENIED"}
        /\ l \in Reloads => reply'[l] # "PERMISSION_DENIED"
    BY DEF Refusals
  <2>4. UNCHANGED ran
    OBVIOUS
  <2>5. LoadAgrees(l)'
    <3> HIDE <1>4 DEF LoadRefusedAtOnce, Asked, TypeOK, Submit, Reply, Answers
    <3> QED BY <2>2, <2>3 DEF LoadAgrees, Unrun
  <2> QED BY <2>1, <2>4, <2>5
<1>5. CASE LoadAccepted(l)
  <2> USE <1>5 DEF LoadAccepted, StartLoad
  <2>1. task[l] = "absent" /\ job[l] = "none" /\ reply[l] = "none" /\ l \notin ran
    BY <1>1, <1>2 DEF LoadAgrees
  <2>2. /\ task'[l] = "load" /\ job'[l] = "load queued" /\ reply'[l] = "none"
        /\ answer'[l] = "handled" /\ ran' = ran
    BY <1>3, <2>1
  <2> QED BY <2>1, <2>2 DEF LoadAgrees, Unrun
<1>6. CASE Cancels(l)
  <2> USE <1>6 DEF Cancels, CancelLoad
  <2>1. task'[l] = "done" /\ reply'[l] = "none" /\ job'[l] = Drop(job[l]) /\ answer' = answer /\ ran' = ran
    OBVIOUS
  <2>2. task[l] # "absent" /\ answer[l] \notin {"none", "asked"}
    BY <1>1 DEF LoadAgrees
  <2> QED BY <1>1, <2>1, <2>2 DEF LoadAgrees, Drop, Unrun
<1>7. CASE LoadStep(l)
  <2>1. UNCHANGED <<kind, call, answer>> /\ ran' = IF job'[l] = "run" THEN ran \cup {l} ELSE ran
    BY <1>7 DEF LoadStep
  <2>2. CASE LoadReturns(l) BY <1>1, <1>2, <2>1, <2>2 DEF LoadAgrees, LoadReturns, Unrun
  <2>3. CASE LoadRaises(l) BY <1>1, <1>2, <2>1, <2>3 DEF LoadAgrees, LoadRaises, Raised, Unrun
  <2>4. CASE TornDown(l) BY <1>1, <1>2, <2>1, <2>4 DEF LoadAgrees, TornDown
  <2>5. CASE JobStarts(l) BY <1>1, <1>2, <2>1, <2>5 DEF LoadAgrees, JobStarts
  <2>6. CASE LoadRefused(l) BY <1>1, <1>2, <2>1, <2>6 DEF LoadAgrees, LoadRefused, Loads
  <2>7. CASE LoadEnters(l) BY <1>1, <1>2, <2>1, <2>7 DEF LoadAgrees, LoadEnters
  <2>8. CASE LoadSucceeds(l) \/ LoadFails(l) BY <1>1, <1>2, <2>1, <2>8 DEF LoadAgrees, LoadSucceeds, LoadFails
  <2>9. CASE Teardown(l) BY <1>1, <1>2, <2>1, <2>9 DEF LoadAgrees, Teardown
  <2> QED BY <1>7, <2>2, <2>3, <2>4, <2>5, <2>6, <2>7, <2>8, <2>9 DEF LoadStep, JobStep
<1> QED BY <1>4, <1>5, <1>6, <1>7 DEF LoadCallStep

\* Every step of a load keeps the invariant of the calls.
LEMMA LoadCalls ==
  ASSUME TypeOK, RunnerInv, CallsInv, TypeOK', NEW l \in Loads, LoadCallStep(l)
  PROVE  CallsInv'
<1>1. /\ UNCHANGED <<kind, call>>
      /\ \A m \in Loads \ {l} : /\ task'[m] = task[m] /\ job'[m] = job[m] /\ reply'[m] = reply[m]
                                /\ m \in ran' <=> m \in ran
      /\ answer' = answer \/ (answer' = [answer EXCEPT ![l] = "handled"] /\ answer[l] = "asked")
  BY LoadStepTouches
<1>2. /\ LoadAgrees(l)'
      /\ task[l] = "done" /\ call[l] # "CancelledError" => task'[l] = "done" /\ reply'[l] = reply[l]
      /\ l \in ran => l \in ran'
  BY LoadStepAgrees
<1>3. answer \in [Calls -> {"none", "asked", "handled", "raised"} \cup Statuses]
      /\ Loads \subseteq Calls /\ Readers \subseteq Calls
  BY DEF CallsInv, CallTypes, Calls
<1>4. \A c \in Calls : c # l => answer'[c] = answer[c]
  BY <1>1, <1>3
<1>5. \A q \in Readers : answer'[q] = answer[q]
  BY <1>3, <1>4, LoadsAreNoReaders
<1>6. \A m \in Loads : LoadAgrees(m)'
  <2>1. ASSUME NEW m \in Loads \ {l} PROVE LoadAgrees(m)'
    <3>1. LoadAgrees(m) BY DEF CallsInv, HandledInv, RanInv, StatusInv, LoadAgrees
    <3> QED BY <1>1, <1>3, <1>4, <3>1 DEF LoadAgrees
  <2> QED BY <1>2, <2>1
<1>7. \A m \in Loads : call[m] \in {"absent", "AttributeError"} => answer'[m] = "none"
  BY <1>1, <1>3 DEF CallsInv, HandledInv
<1>8. CallTypes'
  <2>1. ran' \in SUBSET Loads
    BY DEF LoadCallStep, LoadRefusedAtOnce, LoadAccepted, Cancels, LoadStep, callVars, CallsInv, CallTypes
  <2> QED BY <1>1, <1>3, <2>1, LoadStepShows DEF CallsInv, CallTypes
<1>9. HandledInv' BY <1>1, <1>6, <1>7 DEF HandledInv, LoadAgrees
<1>10. RanInv'
  <2>1. \A m \in Loads :
          /\ call[m] \in {"result", "RemoteExecutionError"} => m \in ran'
          /\ call[m] \in {Exception[status] : status \in Unrun} => task'[m] = "done" /\ reply'[m] \in Unrun
    BY <1>1, <1>2, UnrunExceptions DEF CallsInv, RanInv
  <2> QED BY <1>1, <1>6, <2>1 DEF RanInv, LoadAgrees
<1>11. StatusInv'
  <2>1. \A q \in Readers : answer'[q] = answer[q] /\ call'[q] = call[q]
    BY <1>1, <1>5
  <2>2. \A m \in Loads : /\ reply'[m] \in {"none", "OK", "ERROR"} \cup Unrun
                         /\ m \in Codes => job'[m] # "missing" /\ reply'[m] # "NOT_FOUND"
                         /\ m \in Reloads => reply'[m] # "PERMISSION_DENIED"
    BY <1>6 DEF LoadAgrees
  <2> QED BY <1>1, <2>1, <2>2, DocumentedKept DEF CallsInv, StatusInv
<1>12. ShownInv' /\ \A q \in Readers : Outdated(q) => Outdated(q)'
  BY <1>1, <1>5, LoadStepShows, ShownKept DEF CallsInv
<1>13. OutcomesExplained'
  <2>1. ASSUME NEW c \in Calls, c # l PROVE Undocumented(c) \subseteq Undocumented(c)'
    BY <1>1, <1>4, <1>12, <2>1, ExplanationKept
  <2>2. answer'[l] # answer[l] => call[l] # "AttributeError" /\ answer[l] = "asked"
    BY <1>1, <1>3 DEF CallsInv, HandledInv
  <2>3. answer'[l] # answer[l] => call[l] \in {"absent", "sent", "listed"} \cup Documented(l)
    BY <1>3, <2>2, LoadsAreNoReaders DEF CallsInv, OutcomesExplained, Undocumented, Is, IsFrame
  <2>4. answer'[l] = answer[l] => Undocumented(l) \subseteq Undocumented(l)'
    BY <1>1, <1>3, <1>12, ExplanationKept
  <2> QED BY <1>1, <1>3, <2>1, <2>3, <2>4, DocumentedKept DEF CallsInv, OutcomesExplained
<1> QED BY <1>8, <1>9, <1>10, <1>11, <1>12, <1>13 DEF CallsInv

\* stop() cancels the loads that wait; none that was answered is touched.
LEMMA StopCalls ==
  ASSUME TypeOK, RunnerInv, CallsInv, StopStep
  PROVE  CallsInv'
<1> USE DEF StopStep, callVars, CallsInv
<1>1. UNCHANGED <<kind, call, answer, shown, ran>>
  OBVIOUS
<1>2. \A l \in Loads : /\ task'[l] = IF task[l] \in {"load", "teardown"} THEN "done" ELSE task[l]
                       /\ reply'[l] \in {reply[l], "none"}
                       /\ task[l] \notin {"load", "teardown"} => reply'[l] = reply[l]
                       /\ job'[l] \in {job[l], Drop(job[l])}
    \/ UNCHANGED <<task, reply, job>>
  BY DEF Drain, CloseRunner, taskVars
<1>3. CallTypes' BY <1>1 DEF CallTypes
<1>4. HandledInv' BY <1>1, <1>2 DEF HandledInv, Drop
<1>5. RanInv' BY <1>1, <1>2, UnrunExceptions DEF RanInv, Drop, Unrun
<1>6. StatusInv' BY <1>1, <1>2, DocumentedKept DEF StatusInv, Drop
<1>7. clips' \in {NoOne, clips}
  BY DEF Drain, CloseRunner, Empty, runnerVars
<1>8. \A l \in Loads : Past(l) => Past(l)'
  BY DEF Drain, CloseRunner, taskVars, Past, Drop
<1>9. ShownInv' /\ \A q \in Readers : Outdated(q) => Outdated(q)'
  BY <1>1, <1>7, <1>8, ShownKept
<1>10. OutcomesExplained'
  BY <1>1, <1>9, ExplanationKept, DocumentedKept DEF OutcomesExplained
<1> QED BY <1>3, <1>4, <1>5, <1>6, <1>9, <1>10
-----------------------------------------------------------------------------
\* The invariants of runner and calls hold in every state of the composition.
LEMMA CallsInvariant == CallsSpec => [](TypeOK /\ RunnerInv /\ CallsInv)
<1>1. CallsInit => TypeOK /\ RunnerInv /\ CallsInv
  <2> SUFFICES ASSUME CallsInit PROVE TypeOK /\ RunnerInv /\ CallsInv
    OBVIOUS
  <2> USE DEF CallsInit
  <2>1. TypeOK /\ RunnerInv BY RunnerInvInit
  <2>2. /\ \A c \in Calls : call[c] = "absent" /\ answer[c] = "none"
        /\ \A l \in Loads : l \in Calls /\ task[l] = "absent" /\ job[l] = "none" /\ reply[l] = "none"
        /\ \A q \in Readers : q \in Calls
    BY DEF Init, Calls
  <2>3. CallTypes BY DEF CallTypes, CallStates
  <2>4. HandledInv BY <2>2 DEF HandledInv
  <2>5. RanInv BY <2>2, UnrunExceptions DEF RanInv, Unrun
  <2>6. StatusInv BY <2>2 DEF StatusInv
  <2>7. ShownInv BY <2>2, RunnerAssumption DEF ShownInv, Init, RunnerAssumption
  <2>8. OutcomesExplained BY <2>2 DEF OutcomesExplained
  <2> QED BY <2>1, <2>3, <2>4, <2>5, <2>6, <2>7, <2>8 DEF CallsInv
<1>2. TypeOK /\ RunnerInv /\ CallsInv /\ [CallsNext]_allVars => (TypeOK /\ RunnerInv /\ CallsInv)'
  <2> SUFFICES ASSUME TypeOK, RunnerInv, CallsInv, [CallsNext]_allVars
               PROVE  (TypeOK /\ RunnerInv /\ CallsInv)'
    OBVIOUS
  <2>1. TypeOK' /\ RunnerInv' BY RunnerKept
  <2>2. CASE UNCHANGED allVars
    <3> USE <2>2 DEF allVars, vars, runnerVars, taskVars, callVars, CallsInv
    <3>1. CallTypes' /\ HandledInv' /\ RanInv' BY DEF CallTypes, HandledInv, RanInv
    <3>2. StatusInv' BY DocumentedKept DEF StatusInv
    <3>3. ShownInv' /\ \A q \in Readers : Outdated(q) => Outdated(q)'
      BY ShownKept DEF Past
    <3>4. OutcomesExplained' BY <3>3, ExplanationKept, DocumentedKept DEF OutcomesExplained
    <3> QED BY <2>1, <3>1, <3>2, <3>3, <3>4
  <2>3. CASE CallsNext
    BY <2>1, <2>3, CallsActors, ClientCalls, QueriesAnswered, LoadCalls, StopCalls
  <2> QED BY <2>1, <2>2, <2>3
<1> QED BY <1>1, <1>2, PTL DEF CallsSpec

\* Every call ends in one of the ways its documentation names, or in one of three
\* others: AttributeError, with nothing of the call or of its second half on the
\* server; RemoteNotFoundError of get_outputs, when its list is out of date;
\* ValidationError of a frame that was refused.
THEOREM OutcomesAreExplained == CallsSpec => []OutcomesExplained
<1>1. CallsInv => OutcomesExplained BY DEF CallsInv
<1> QED BY <1>1, CallsInvariant, PTL

\* The outcome of a load tells its caller whether the script was run.
THEOREM OutcomesTellTheTruth == CallsSpec => []OutcomeTellsWhetherRun
<1>1. RunnerInv /\ CallsInv => OutcomeTellsWhetherRun
  <2> SUFFICES ASSUME RunnerInv, CallsInv, NEW l \in Loads
               PROVE  /\ call[l] \in {"result", "RemoteExecutionError"} => l \in ran
                      /\ call[l] \in {"RemoteNotFoundError", "RemotePermissionError",
                                     "RemoteAuthenticationError", "AttributeError"} => l \notin ran
    BY DEF OutcomeTellsWhetherRun
  <2>1. call[l] = "AttributeError" => job[l] = "none"
    BY DEF CallsInv, HandledInv, RunnerInv, TaskInv
  <2> QED BY <2>1, UnrunExceptions DEF CallsInv, RanInv
<1> QED BY <1>1, CallsInvariant, PTL

\* A load that is refused has no effect on what is hosted.
THEOREM RefusalsChangeNothing == CallsSpec => []RefusedHasNoEffect
<1>1. TypeOK /\ RunnerInv /\ CallsInv => RefusedHasNoEffect
  <2> SUFFICES ASSUME RunnerInv, CallsInv, phase = "serving",
                      \A l \in Loads : task[l] = "absent" \/ reply[l] \in {"UNAUTHORIZED", "PERMISSION_DENIED"}
               PROVE  clips = Hosted /\ env = Hosted
    BY DEF RefusedHasNoEffect
  <2>1. \A l \in Loads : job[l] = "none"
    BY DEF RunnerInv, TaskInv, CallsInv, HandledInv
  <2> QED BY <2>1 DEF RunnerInv, EnvInv
<1> QED BY <1>1, CallsInvariant, PTL

\* What the runner guarantees on its own holds in the composition.
THEOREM RunnerHoldsInCalls ==
  CallsSpec => [](OutputsHaveEnvironment /\ FailedLoadsLeaveNothing /\ ClosedIsEmpty)
BY RunnerInvImplies, CallsInvariant, PTL
=============================================================================
