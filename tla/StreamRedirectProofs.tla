------------------------ MODULE StreamRedirectProofs ------------------------
(***************************************************************************)
(* Proofs about StreamRedirect: the invariant RedirectInv is inductive, so *)
(* that any number of daemons and of loads, in any interleaving the        *)
(* runner's lock allows, keep the chain of redirectors free of circles,    *)
(* feed the history and the subscribers, and count the logging hook right. *)
(***************************************************************************)
EXTENDS StreamRedirect, FiniteSetTheorems, TLAPS

\* In the beginning nothing is installed and everyone hands on to the stream of
\* the process.
LEMMA StartsInPlace == Init => RedirectInv
<1> SUFFICES ASSUME Init PROVE RedirectInv
  OBVIOUS
<1>1. PlaceTypes
  BY DEF Init, PlaceTypes
<1>2. CircleInv
  BY RedirectAssumption DEF Init, CircleInv
<1>3. ChainInv
  BY DEF Init, ChainInv, Away, InPlace, Redirectors
<1>4. HookInv
  <2>1. Users = {}
    BY DEF Init, Users
  <2>2. IsFiniteSet({}) /\ Cardinality({}) = 0
    BY FS_EmptySet
  <2> QED
    BY <2>1, <2>2 DEF Init, HookInv
<1> QED
  BY <1>1, <1>2, <1>3, <1>4 DEF RedirectInv

\* A new redirector is put before the chain it finds: nobody hands on to it yet,
\* so that no circle can come of it.
LEMMA LookKeepsLine ==
  ASSUME NEW r \in Redirectors, PlaceTypes, CircleInv, Look(r)
  PROVE  CircleInv'
<1>1. /\ at[r] = "unused" /\ sys' = sys
      /\ target' = [target EXCEPT ![r] = sys] /\ at' = [at EXCEPT ![r] = "looked"]
  BY DEF Look, Goto
<1>2. sys # r /\ \A q \in Redirectors : target[q] # r
  BY <1>1 DEF CircleInv
<1>3. target'[r] = sys /\ \A q \in Redirectors \ {r} : target'[q] = target[q]
  BY <1>1 DEF PlaceTypes
<1>4. ASSUME NEW u \in Redirectors, at'[u] = "unused"
      PROVE  sys' # u /\ \A q \in Redirectors : target'[q] # u
  <2>1. u # r /\ at[u] = "unused"
    BY <1>1, <1>4 DEF PlaceTypes
  <2>2. sys # u /\ \A q \in Redirectors : target[q] # u
    BY <2>1 DEF CircleInv
  <2> QED
    BY <1>1, <1>3, <2>2
<1>5. ASSUME NEW S \in SUBSET Redirectors, S # {}
      PROVE  \E q \in S : target'[q] \notin S
  <2>1. CASE r \notin S
    BY <1>3, <1>5, <2>1 DEF CircleInv
  <2>2. CASE S = {r}
    BY <1>2, <1>3, <2>2
  <2>3. CASE r \in S /\ S # {r}
    <3>1. S \ {r} \in SUBSET Redirectors /\ S \ {r} # {}
      BY <2>3
    <3>2. PICK q \in S \ {r} : target[q] \notin S \ {r}
      BY <3>1 DEF CircleInv
    <3> QED
      BY <1>2, <1>3, <3>2
  <2> QED
    BY <2>1, <2>2, <2>3
<1> QED
  BY <1>4, <1>5 DEF CircleInv

\* While nothing changes but sys, and sys to something that is in use, the line
\* stays a line.
LEMMA LineStays ==
  ASSUME NEW r \in Redirectors, NEW to \in {"put", "active", "restored", "gone"},
         PlaceTypes, CircleInv, at' = [at EXCEPT ![r] = to], target' = target,
         sys' \in {sys, r, target[r]}, at[r] # "unused"
  PROVE  CircleInv'
<1>1. ASSUME NEW u \in Redirectors, at'[u] = "unused"
      PROVE  sys' # u /\ \A q \in Redirectors : target'[q] # u
  <2>1. u # r /\ at[u] = "unused"
    BY <1>1 DEF PlaceTypes
  <2> QED
    BY <2>1 DEF CircleInv
<1> QED
  BY <1>1 DEF CircleInv

\* Every step keeps the types and the line.
LEMMA StepKeepsLine ==
  ASSUME NEW r \in Redirectors, PlaceTypes, CircleInv, Step(r)
  PROVE  PlaceTypes' /\ CircleInv'
<1>1. CASE Look(r)
  <2>1. PlaceTypes'
    BY <1>1 DEF Look, Goto, PlaceTypes
  <2> QED
    BY <1>1, <2>1, LookKeepsLine
<1>2. CASE Put(r)
  <2>1. PlaceTypes'
    BY <1>2 DEF Put, Goto, PlaceTypes
  <2> QED
    BY <1>2, <2>1, LineStays DEF Put, Goto
<1>3. CASE Hook(r)
  <2>1. PlaceTypes'
    BY <1>3 DEF Hook, Goto, PlaceTypes
  <2> QED
    BY <1>3, <2>1, LineStays DEF Hook, Goto
<1>4. CASE Restore(r)
  <2>1. PlaceTypes'
    BY <1>4 DEF Restore, Goto, PlaceTypes
  <2> QED
    BY <1>4, <2>1, LineStays DEF Restore, Goto
<1>5. CASE Unhook(r)
  <2>1. PlaceTypes'
    BY <1>5 DEF Unhook, Goto, PlaceTypes
  <2> QED
    BY <1>5, <2>1, LineStays DEF Unhook, Goto
<1> QED
  BY <1>1, <1>2, <1>3, <1>4, <1>5 DEF Step

\* The lock of the runner and the order of start() and stop() keep the
\* redirector of a load between sys and the redirector of the daemon.
LEMMA StepKeepsChain ==
  ASSUME NEW r \in Redirectors, PlaceTypes, ChainInv, Step(r)
  PROVE  ChainInv'
<1> USE RedirectAssumption DEF PlaceTypes, ChainInv, Away, InPlace, Goto, Redirectors
<1>1. CASE Look(r)
  <2>1. CASE r \in Daemons
    BY <1>1, <2>1 DEF Look, MayStart
  <2>2. CASE r \in Captures
    BY <1>1, <2>2 DEF Look, MayStart
  <2> QED
    BY <2>1, <2>2
<1>2. CASE Put(r)
  <2>1. CASE r \in Daemons
    BY <1>2, <2>1 DEF Put
  <2>2. CASE r \in Captures
    BY <1>2, <2>2 DEF Put
  <2> QED
    BY <2>1, <2>2
<1>3. CASE Hook(r)
  BY <1>3 DEF Hook
<1>4. CASE Restore(r)
  <2>1. CASE r \in Daemons
    BY <1>4, <2>1 DEF Restore
  <2>2. CASE r \in Captures
    BY <1>4, <2>2 DEF Restore
  <2> QED
    BY <2>1, <2>2
<1>5. CASE Unhook(r)
  BY <1>5 DEF Unhook
<1> QED
  BY <1>1, <1>2, <1>3, <1>4, <1>5 DEF Step

\* The counter of the hook goes up and down with the redirectors that use it.
LEMMA StepKeepsHook ==
  ASSUME NEW r \in Redirectors, PlaceTypes, HookInv, Step(r)
  PROVE  HookInv'
<1>0. IsFiniteSet(Users) /\ count = Cardinality(Users) /\ (hooked <=> count > 0) /\ count \in Nat
  BY FS_CardinalityType DEF HookInv
<1>1. CASE Look(r) \/ Put(r) \/ Restore(r)
  <2>1. Users' = Users /\ count' = count /\ hooked' = hooked
    BY <1>1 DEF Look, Put, Restore, Goto, Users, PlaceTypes
  <2> QED
    BY <1>0, <2>1 DEF HookInv
<1>2. CASE Hook(r)
  <2>1. Users' = Users \cup {r} /\ r \notin Users
    BY <1>2 DEF Hook, Goto, Users, PlaceTypes
  <2>2. IsFiniteSet(Users') /\ Cardinality(Users') = count + 1
    BY <1>0, <2>1, FS_AddElement
  <2>3. count' = count + 1 /\ (hooked' <=> hooked \/ count = 0)
    BY <1>2 DEF Hook
  <2>4. count' > 0 /\ (count > 0 \/ count = 0)
    BY <1>0, <2>3
  <2>5. hooked'
    BY <1>0, <2>3, <2>4, Zenon
  <2> QED
    BY <2>2, <2>3, <2>4, <2>5 DEF HookInv
<1>3. CASE Unhook(r)
  <2>1. Users' = Users \ {r} /\ r \in Users
    BY <1>3 DEF Unhook, Goto, Users, PlaceTypes
  <2>2. IsFiniteSet(Users') /\ Cardinality(Users') = count - 1
    BY <1>0, <2>1, FS_RemoveElement
  <2>3. Cardinality(Users') \in Nat
    BY <2>2, FS_CardinalityType
  <2>4. count > 0
    BY <1>0, <2>2, <2>3
  <2>5. count' = count - 1 /\ (hooked' <=> hooked /\ count # 1)
    BY <1>3, <2>4 DEF Unhook
  <2>6. count' > 0 <=> count # 1
    BY <1>0, <2>4, <2>5
  <2>7. hooked' <=> count' > 0
    BY <1>0, <2>4, <2>5, <2>6, Zenon
  <2> QED
    BY <2>2, <2>5, <2>7 DEF HookInv
<1> QED
  BY <1>1, <1>2, <1>3 DEF Step

\* The invariant holds in every state of every behaviour.
THEOREM RedirectInvariant == Spec => []RedirectInv
<1>1. Init => RedirectInv
  BY StartsInPlace
<1>2. RedirectInv /\ [Next]_vars => RedirectInv'
  <2> SUFFICES ASSUME RedirectInv, [Next]_vars PROVE RedirectInv'
    OBVIOUS
  <2>1. CASE UNCHANGED vars
    BY <2>1 DEF vars, RedirectInv, PlaceTypes, CircleInv, ChainInv, HookInv, Users, InPlace, Away
  <2>2. ASSUME NEW r \in Redirectors, Step(r) PROVE RedirectInv'
    BY <2>2, StepKeepsLine, StepKeepsChain, StepKeepsHook DEF RedirectInv
  <2> QED
    BY <2>1, <2>2 DEF Next
<1> QED
  BY <1>1, <1>2, PTL DEF Spec

\* Redirectors never write to each other in a circle: what is written to
\* sys.stdout gets out of them, whatever was installed and uninstalled.
THEOREM TextGetsThrough == Spec => []TextArrives
<1>1. RedirectInv => TextArrives
  BY DEF RedirectInv, CircleInv, TextArrives
<1> QED
  BY <1>1, RedirectInvariant, PTL

\* What a script prints while it is loaded goes to the history of the load and
\* to the subscribers of the daemon.
THEOREM HistoryAndSubscribers == Spec => []BothDispatch
<1>1. ASSUME RedirectInv PROVE BothDispatch
  <2> SUFFICES ASSUME NEW c \in Captures, NEW d \in Daemons, at[c] = "active", at[d] = "active"
               PROVE  {c, d} \subseteq Dispatches
    BY DEF BothDispatch
  <2>1. sys = c /\ target[c] = d /\ c \in Redirectors /\ d \in Redirectors
    BY <1>1 DEF RedirectInv, ChainInv, InPlace, Redirectors
  <2> QED
    BY <2>1 DEF Dispatches, Closed
<1> QED
  BY <1>1, RedirectInvariant, PTL

\* The logging hook is there while a redirector is active and gone with the last.
THEOREM HookIsCounted == Spec => []HookFollowsUse
<1>1. ASSUME RedirectInv PROVE HookFollowsUse
  <2>1. IsFiniteSet(Users) /\ count = Cardinality(Users) /\ (hooked <=> count > 0) /\ count \in Nat
    BY <1>1, FS_CardinalityType DEF RedirectInv, HookInv
  <2>2. count = 0 <=> Users = {}
    BY <2>1, FS_EmptySet
  <2>3. ASSUME NEW r \in Redirectors, at[r] = "active" PROVE hooked
    <3>1. Users # {}
      BY <2>3 DEF Users
    <3> QED
      BY <2>1, <2>2, <3>1
  <2>4. ASSUME \A r \in Redirectors : at[r] \in {"unused", "gone"} PROVE ~hooked
    <3>1. Users = {}
      BY <2>4 DEF Users
    <3> QED
      BY <2>1, <2>2, <3>1
  <2> QED
    BY <2>3, <2>4 DEF HookFollowsUse
<1> QED
  BY <1>1, RedirectInvariant, PTL
=============================================================================
