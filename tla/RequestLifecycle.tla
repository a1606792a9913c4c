-------------------------- MODULE RequestLifecycle --------------------------
(***************************************************************************)
(* What a caller of ClientTransport is promised about the futures it gets  *)
(* from send_request, with nothing about threads, identifiers or sockets:  *)
(* a future leaves "open" at most once and for good, one call of close()   *)
(* shuts the transport for ever, and from then on every future that is     *)
(* still open is settled.  The last is not promised to a request whose id  *)
(* was given to two requests at once: such requests are contested.         *)
(* ClientTransport is shown to implement this.                             *)
(***************************************************************************)
CONSTANT Requests    \* the calls of send_request

VARIABLES outcome,   \* what the caller sees of each request's future
          shut,      \* close() has rejected everything that was pending
          contested  \* requests that had to share their id

lifecycleVars == <<outcome, shut, contested>>

Outcomes == {"none", "open", "answered", "failed", "cancelled"}

LifecycleInit == /\ outcome = [r \in Requests |-> "none"]
                 /\ shut = FALSE
                 /\ contested = {}

Open == {r \in Requests : outcome[r] = "open"}

\* send_request returns an open future, whose id is its own ...
Issue(r) == /\ outcome[r] = "none"
            /\ outcome' = [outcome EXCEPT ![r] = "open"]
            /\ UNCHANGED <<shut, contested>>

\* ... or is that of earlier requests S as well ...
Share(r, S) == /\ outcome[r] = "none" /\ S # {}
               /\ \A s \in S : outcome[s] # "none"
               /\ outcome' = [outcome EXCEPT ![r] = "open"]
               /\ contested' = contested \cup S \cup {r}
               /\ UNCHANGED shut

\* ... or one that is rejected already.
Refuse(r) == /\ outcome[r] = "none"
             /\ outcome' = [outcome EXCEPT ![r] = "failed"]
             /\ UNCHANGED <<shut, contested>>

Answer(r) == /\ r \in Open
             /\ outcome' = [outcome EXCEPT ![r] = "answered"]
             /\ UNCHANGED <<shut, contested>>

Cancel(r) == /\ r \in Open
             /\ outcome' = [outcome EXCEPT ![r] = "cancelled"]
             /\ UNCHANGED <<shut, contested>>

FailAll(S) == /\ S \subseteq Open
              /\ outcome' = [r \in Requests |-> IF r \in S THEN "failed" ELSE outcome[r]]
              /\ UNCHANGED contested

\* Any set of open futures may fail at once (a worker that ends rejects them).
Fail(S) == /\ S # {}
           /\ FailAll(S)
           /\ UNCHANGED shut

Shut(S) == /\ ~shut
           /\ shut' = TRUE
           /\ FailAll(S)

LifecycleNext == \/ \E r \in Requests : Issue(r) \/ Refuse(r) \/ Answer(r) \/ Cancel(r)
                 \/ \E r \in Requests, S \in SUBSET Requests : Share(r, S)
                 \/ \E S \in SUBSET Requests : Fail(S) \/ Shut(S)

Settle(r) == shut /\ r \notin contested /\ (Answer(r) \/ Cancel(r) \/ Fail({r}))

LifecycleSafety == LifecycleInit /\ [][LifecycleNext]_lifecycleVars

LifecycleSpec == /\ LifecycleSafety
                 /\ \A r \in Requests : WF_lifecycleVars(Settle(r))
=============================================================================
