--------------------------- MODULE StreamRedirect ---------------------------
(***************************************************************************)
(* server/redirect.py: StreamRedirector objects that take the place of     *)
(* sys.stdout (sys.stderr is alike) and hand on to the object they found   *)
(* there.  The daemon installs one from start() to stop(); every load of a *)
(* script installs one of its own on an executor thread, at most one at a  *)
(* time, because the runner's lock is held; stop() uninstalls the daemon's *)
(* before it waits for those threads.  The logging hook is shared.         *)
(***************************************************************************)
EXTENDS Naturals, FiniteSets

CONSTANTS Daemons,  \* redirectors of daemons, one after the other
          Captures, \* redirectors of capture_streams
          Original  \* the stream of the process

Redirectors == Daemons \cup Captures

ASSUME RedirectAssumption == Daemons \cap Captures = {} /\ Original \notin Redirectors

VARIABLES
  sys,       \* sys.stdout
  target,    \* _target of each redirector
  installed, \* redirectors with _installed
  at,        \* at[r]: where the thread that uses r is in install() or uninstall()
  count,     \* _PATCH_COUNT
  hooked     \* Logger.callHandlers is the patched one

vars == <<sys, target, installed, at, count, hooked>>

Init ==
  /\ sys = Original /\ target = [r \in Redirectors |-> Original]
  /\ installed = {} /\ at = [r \in Redirectors |-> "unused"]
  /\ count = 0 /\ hooked = FALSE

Goto(r, from, to) == at[r] = from /\ at' = [at EXCEPT ![r] = to]

Away(r) == at[r] \in {"unused", "gone"}

\* A daemon starts after the one before has stopped and its executor has shut
\* down.  A load waits for the runner's lock; commands come once start() is
\* done, but their threads may still be at it when stop() has begun.
MayStart(r) ==
  IF r \in Daemons
    THEN \A q \in Redirectors \ {r} : Away(q)
    ELSE /\ \A c \in Captures \ {r} : Away(c)
         /\ \A d \in Daemons : at[d] \notin {"looked", "put"}

\* Fault: the stream the interpreter started with is taken for the current one.
LookPastOthers(r) ==
  /\ Goto(r, "unused", "looked") /\ MayStart(r)
  /\ target' = [target EXCEPT ![r] = Original]
  /\ UNCHANGED <<sys, installed, count, hooked>>

\* install(), line by line: another thread may install or uninstall between.
Look(r) ==
  /\ Goto(r, "unused", "looked") /\ MayStart(r)
  /\ r \notin installed
  /\ target' = [target EXCEPT ![r] = sys]
  /\ UNCHANGED <<sys, installed, count, hooked>>

\* Fault: sys.stdout is read after it was set.
PutThenLook(r) ==
  /\ Goto(r, "looked", "put")
  /\ sys' = r /\ target' = [target EXCEPT ![r] = r]
  /\ installed' = installed \cup {r}
  /\ UNCHANGED <<count, hooked>>

Put(r) ==
  /\ Goto(r, "looked", "put")
  /\ sys' = r
  /\ installed' = installed \cup {r}
  /\ UNCHANGED <<target, count, hooked>>

\* _install_logging_hook, under _PATCH_LOCK
Hook(r) ==
  /\ Goto(r, "put", "active")
  /\ hooked' = (hooked \/ count = 0)
  /\ count' = count + 1
  /\ UNCHANGED <<sys, target, installed>>

\* uninstall()
Restore(r) ==
  /\ r \in installed /\ Goto(r, "active", "restored")
  /\ sys' = target[r]
  /\ installed' = installed \ {r}
  /\ UNCHANGED <<target, count, hooked>>

\* Fault: whoever leaves takes the hook along.
UnhookAlways(r) ==
  /\ Goto(r, "restored", "gone") /\ hooked' = FALSE /\ count' = count - 1
  /\ UNCHANGED <<sys, target, installed>>

\* _uninstall_logging_hook, under _PATCH_LOCK
Unhook(r) ==
  /\ Goto(r, "restored", "gone")
  /\ IF count > 0
       THEN count' = count - 1 /\ hooked' = (hooked /\ count # 1)
       ELSE UNCHANGED <<count, hooked>>
  /\ UNCHANGED <<sys, target, installed>>

\* write() hands a text on to _target: sets of redirectors that a text in one of
\* them does not leave, but for objects that are no redirectors.
Closed(S) == \A r \in S : target[r] \in Redirectors => target[r] \in S

\* The redirectors that dispatch a text as a StreamOutputEvent: all that it gets
\* to from sys.stdout.
Dispatches == {r \in Redirectors : \A S \in SUBSET Redirectors :
                                     (sys \in Redirectors => sys \in S) /\ Closed(S) => r \in S}

Step(r) == Look(r) \/ Put(r) \/ Hook(r) \/ Restore(r) \/ Unhook(r)

Next == \E r \in Redirectors : Step(r)

Spec == Init /\ [][Next]_vars
-----------------------------------------------------------------------------
\* Whatever is installed and uninstalled in whatever order, a text that is
\* written gets to the stream of the process: redirectors never write to each
\* other in a circle.
TextArrives == \A S \in SUBSET Redirectors : sys \in S => \E r \in S : target[r] \notin S

\* While a script is loaded by a running daemon, what it prints goes both to
\* the history of the load and to the subscribers of the daemon.
BothDispatch == \A c \in Captures, d \in Daemons :
                  at[c] = "active" /\ at[d] = "active" => {c, d} \subseteq Dispatches

\* The hook is there as long as a redirector needs it and is removed with the
\* last one, however the threads interleave: it is never left behind.
HookFollowsUse ==
  /\ (\E r \in Redirectors : at[r] = "active") => hooked
  /\ (\A r \in Redirectors : at[r] \in {"unused", "gone"}) => ~hooked

\* The inductive invariant behind these.  Nobody hands on to a redirector that
\* has not looked yet, so each new one is put before those there are ...
PlaceTypes ==
  /\ sys \in Redirectors \cup {Original} /\ target \in [Redirectors -> Redirectors \cup {Original}]
  /\ at \in [Redirectors -> {"unused", "looked", "put", "active", "restored", "gone"}]
CircleInv ==
  /\ \A r \in Redirectors : at[r] = "unused" => sys # r /\ \A q \in Redirectors : target[q] # r
  /\ \A S \in SUBSET Redirectors : S # {} => \E r \in S : target[r] \notin S

\* ... a load finds the redirector of the daemon, unless that has been restored ...
InPlace(r) == at[r] \in {"put", "active"}
ChainInv ==
  /\ \A d, q \in Redirectors : d # q /\ (d \in Daemons <=> q \in Daemons) => Away(d) \/ Away(q)
  /\ \A d \in Daemons : at[d] \in {"looked", "put"} => \A c \in Captures : Away(c)
  /\ \A d \in Daemons : InPlace(d) =>
       /\ \A c \in Captures : at[c] \in {"looked", "put", "active"} => target[c] = d
       /\ (\A c \in Captures : ~InPlace(c)) => sys = d
       /\ \A c \in Captures : InPlace(c) => sys = c

\* ... and the hook is counted for everyone who uses it.
Users == {r \in Redirectors : at[r] \in {"active", "restored"}}
HookInv == IsFiniteSet(Users) /\ count = Cardinality(Users) /\ (hooked <=> count > 0)

RedirectInv == PlaceTypes /\ CircleInv /\ ChainInv /\ HookInv
=============================================================================
