--------------------------- MODULE RemoteSession ---------------------------
(***************************************************************************)
(* A remote node and the server it plays from, while the server loads      *)
(* other scripts.  The daemon takes up the requests of a client in the     *)
(* order in which they were made and finds the clip in the handler's first *)
(* stretch, which waits for the runner's lock: a request meets the outputs *)
(* before a load or those after it.  How many it meets before is decided   *)
(* when the load ends.                                                     *)
(***************************************************************************)
EXTENDS FrameProxy

CONSTANTS MaxLoads  \* bound: loads while the node is in use

ASSUME SessionAssumption == MaxLoads \in Nat

VARIABLES
  served, \* served[l]: the requests taken up before load l ended
  loads,  \* loads that have ended
  old,    \* frames of earlier scripts in the window when the last load ended
  stale   \* fetches since then that were handed a frame of an earlier script

sessionVars == <<served, loads, old, stale>>

SessionInit == /\ Init
               /\ served = [l \in 1..MaxLoads |-> 0] /\ loads = 0
               /\ old = 0 /\ stale = 0

\* The load whose outputs request f finds, 0 for the script hosted at first.
Script(f) == Cardinality({l \in 1..loads : served[l] < f})

\* load_script, load_code or reload ends, in outputs or in an error: later
\* requests find its outputs, or none.  Requests answered before it, and those
\* that met an earlier load, were taken up before it.
Served == {k \in 0..made : \A l \in 1..loads : served[l] <= k}
LoadEnds ==
  /\ loads < MaxLoads
  /\ loads' = loads + 1
  /\ \E k \in Served :
       /\ served' = [served EXCEPT ![loads + 1] = k]
       /\ old' = Cardinality({n \in Held(inflight) : inflight[n] <= k})
  /\ stale' = 0
  /\ UNCHANGED vars

\* fetch_frame meets a frame, or its request, that an earlier script was asked for.
Fetches(t, n) ==
  /\ Fetch(t, n)
  /\ stale' = IF loads > 0 /\ inflight[n] # NoOne /\ Script(Taken(n)) < loads
                THEN stale + 1 ELSE stale
  /\ UNCHANGED <<served, loads, old>>

SessionNext ==
  \/ \E t \in Threads : \/ \E n \in Frames : \/ Fetches(t, n)
                                             \/ FetchRaises(t, n) /\ UNCHANGED sessionVars
                        \/ (Returns(t) \/ TimesOut(t)) /\ UNCHANGED sessionVars
  \/ \E f \in Futures : Settle(f) /\ UNCHANGED sessionVars
  \/ LoadEnds

SessionSpec == SessionInit /\ [][SessionNext]_<<vars, sessionVars>>
-----------------------------------------------------------------------------
\* While frames are asked for one after the other nothing falls back to an
\* earlier script: a later frame never comes from an earlier load, whatever was
\* prefetched before and after.
PlayedForward ==
  ~sought => \A f, g \in 1..made : about[f] < about[g] => Script(f) <= Script(g)

\* Nothing tells the node of a load, so frames of the earlier script are still
\* shown, but no more of them than were prefetched when the load ended.
StaleFramesRunOut == stale <= old

\* The inductive invariant behind these, besides ProxyInv: a load is not ahead of
\* the requests, and the stale frames shown and those still in the window make
\* up at most those that were prefetched.
StaleHeld == {n \in Held(inflight) : Script(inflight[n]) < loads}
SessionInv ==
  /\ loads \in 0..MaxLoads /\ served \in [1..MaxLoads -> Nat] /\ old \in Nat /\ stale \in Nat
  /\ \A l \in 1..loads : served[l] <= made
  /\ stale + Cardinality(StaleHeld) <= old
=============================================================================
