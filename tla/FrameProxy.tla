----------------------------- MODULE FrameProxy -----------------------------
(***************************************************************************)
(* client/client.py, create_remote_vnode: the node VapourSynth asks for    *)
(* frames from several threads.  fetch_frame(n) takes the future of n,     *)
(* prunes what was prefetched around an earlier position and prefetches    *)
(* the next frames, all under one lock; then it waits without the lock.    *)
(* What a frame contains is left out: a future is settled or not.          *)
(***************************************************************************)
EXTENDS Naturals, FiniteSets

CONSTANTS Threads,    \* threads of the VapourSynth core
          NumFrames,  \* info.num_frames
          Prefetch,   \* prefetch as given to the node, 0 to disable it
          Backlog,    \* backlog as given to the node
          MaxFetches, \* bound: calls of fetch_frame
          NoOne       \* Python's None

ASSUME ProxyAssumption == /\ NumFrames \in Nat \ {0}
                          /\ Prefetch \in Nat /\ Backlog \in Nat
                          /\ MaxFetches \in Nat
                          /\ NoOne \notin Nat

VARIABLES
  inflight, \* inflight[n]: the future prefetched for frame n, or NoOne
  made,     \* how many futures request_frame has returned so far
  about,    \* about[k]: the frame future k is for
  state,    \* state[k]
  want, fut, \* the frame thread t waits for, and its future
  given,    \* open futures left to nobody by a fetch that timed out or raised
  last,     \* the frame asked for last, NoOne if that fetch raised
  sought,   \* the frames were not asked for one after the other
  fetches

vars == <<inflight, made, about, state, want, fut, given, last, sought, fetches>>

Smaller(a, b) == IF a <= b THEN a ELSE b

Frames == 0..(NumFrames - 1)
\* backlog = max(backlog, prefetch)
Limit == IF Backlog >= Prefetch THEN Backlog ELSE Prefetch
Futures == 1..(MaxFetches * (Prefetch + 1))
States  == {"none", "open", "settled", "cancelled"}

Init ==
  /\ inflight = [n \in Frames |-> NoOne]
  /\ made = 0 /\ about = [k \in Futures |-> 0] /\ state = [k \in Futures |-> "none"]
  /\ want = [t \in Threads |-> NoOne] /\ fut = [t \in Threads |-> NoOne]
  /\ given = {} /\ last = NoOne /\ sought = FALSE /\ fetches = 0

Held(window) == {k \in Frames : window[k] # NoOne}

\* Fault: only what lies behind the position is stale.
StaleBehind(n, k) == Prefetch > 0 /\ k < n

\* Frame n is taken out; outside n..n+backlog everything is dropped.
Stale(n, k) == Prefetch > 0 /\ (k < n \/ k > n + Limit)
\* Fault: get() in place of pop().
PrunedKeepsTaken(n) == [k \in Frames |-> IF Stale(n, k) THEN NoOne ELSE inflight[k]]
Pruned(n) == [k \in Frames |-> IF k = n \/ Stale(n, k) THEN NoOne ELSE inflight[k]]
\* Fault: stale futures are dropped, not cancelled.
DroppedAlive(n) == {}
Dropped(n) == {inflight[k] : k \in {j \in Held(inflight) : j # n /\ Stale(n, j)}}

\* Fault: what is in flight is requested again.
MissingAll(n) == (n + 1)..Smaller(n + Prefetch, NumFrames - 1)

\* The frames to prefetch: the next ones that are not in flight, in order,
\* until the backlog is full.
Missing(n) == {k \in (n + 1)..Smaller(n + Prefetch, NumFrames - 1) : Pruned(n)[k] = NoOne}
\* Fault: the furthest frame is requested first.
RankBackward(n, k) == Cardinality({j \in Missing(n) : j > k})
Rank(n, k) == Cardinality({j \in Missing(n) : j < k})
Ahead(n) == {k \in Missing(n) : Cardinality(Held(Pruned(n))) + Rank(n, k) < Limit}

\* Under the lock: frame n is taken or requested, the window is pruned and the
\* first i requests ahead are made.
Taken(n) == IF inflight[n] # NoOne THEN inflight[n] ELSE made + 1
Take(n, i) ==
  LET hit   == inflight[n] # NoOne
      base  == IF hit THEN made ELSE made + 1
      first == {k \in Ahead(n) : Rank(n, k) < i}
      named == [k \in first |-> base + 1 + Rank(n, k)]
      new   == {named[k] : k \in first} \cup (IF hit THEN {} ELSE {base})
  IN /\ made' = base + i
     /\ inflight' = [k \in Frames |-> IF k \in first THEN named[k] ELSE Pruned(n)[k]]
     /\ about' = [f \in Futures |->
                    IF f \notin new THEN about[f]
                    ELSE IF \E k \in first : named[k] = f
                           THEN CHOOSE k \in first : named[k] = f ELSE n]
     /\ state' = [f \in Futures |->
                    IF f \in new THEN "open"
                    ELSE IF f \in Dropped(n) /\ state[f] = "open" THEN "cancelled"
                    ELSE state[f]]

\* fetch_frame up to the wait.
Fetch(t, n) ==
  /\ fut[t] = NoOne /\ fetches < MaxFetches
  /\ Take(n, Cardinality(Ahead(n)))
  /\ fut' = [fut EXCEPT ![t] = Taken(n)]
  /\ want' = [want EXCEPT ![t] = n]
  /\ last' = n
  /\ sought' = (sought \/ (last # NoOne /\ n # last + 1))
  /\ fetches' = fetches + 1
  /\ UNCHANGED given

\* A request ahead raises: the worker ends while send_request looks at _loop.
\* fetch_frame raises with it, though frame n may be there.  (If the request for
\* n raises, nothing has changed.  One that is refused is a settled future.)
FetchRaises(t, n) ==
  /\ fut[t] = NoOne /\ fetches < MaxFetches
  /\ \E i \in 0..Cardinality(Ahead(n)) : i < Cardinality(Ahead(n)) /\ Take(n, i)
  /\ given' = given \cup {f \in {Taken(n)} : state'[f] = "open"}
  /\ last' = NoOne /\ sought' = TRUE
  /\ fetches' = fetches + 1
  /\ UNCHANGED <<want, fut>>

\* The transport resolves or rejects a future.
Settle(f) ==
  /\ state[f] = "open"
  /\ state' = [state EXCEPT ![f] = "settled"]
  /\ given' = given \ {f}
  /\ UNCHANGED <<inflight, made, about, want, fut, last, sought, fetches>>

\* fut.result returns or raises; fetch_frame does the same.
Returns(t) ==
  /\ fut[t] # NoOne /\ state[fut[t]] # "open"
  /\ fut' = [fut EXCEPT ![t] = NoOne]
  /\ want' = [want EXCEPT ![t] = NoOne]
  /\ UNCHANGED <<inflight, made, about, state, given, last, sought, fetches>>

\* Fault: the future is reset before it is noted.
TimesOutReset(t) ==
  /\ fut[t] # NoOne /\ state[fut[t]] = "open"
  /\ fut' = [fut EXCEPT ![t] = NoOne]
  /\ want' = [want EXCEPT ![t] = NoOne]
  /\ given' = given \cup {NoOne}
  /\ UNCHANGED <<inflight, made, about, state, last, sought, fetches>>

\* The wait times out: the request goes on and nobody cancels it.
TimesOut(t) ==
  /\ fut[t] # NoOne /\ state[fut[t]] = "open"
  /\ fut' = [fut EXCEPT ![t] = NoOne]
  /\ want' = [want EXCEPT ![t] = NoOne]
  /\ given' = given \cup {fut[t]}
  /\ UNCHANGED <<inflight, made, about, state, last, sought, fetches>>

Next == \/ \E t \in Threads : \/ \E n \in Frames : Fetch(t, n) \/ FetchRaises(t, n)
                            \/ Returns(t) \/ TimesOut(t)
        \/ \E f \in Futures : Settle(f)

Spec == Init /\ [][Next]_vars
-----------------------------------------------------------------------------
FutureTypes == /\ made \in Nat /\ about \in [Futures -> Frames]
               /\ state \in [Futures -> States] /\ given \in SUBSET Futures
ThreadTypes == /\ want \in [Threads -> Frames \cup {NoOne}]
               /\ fut \in [Threads -> Futures \cup {NoOne}]
WindowTypes == /\ inflight \in [Frames -> Futures \cup {NoOne}]
               /\ last \in Frames \cup {NoOne} /\ sought \in BOOLEAN
               /\ fetches \in 0..MaxFetches
TypeOK == FutureTypes /\ ThreadTypes /\ WindowTypes

\* Whatever was asked for before, when fetch_frame(n) lets go of the lock the
\* next frames are under way and nothing outside the window is kept: old
\* prefetches never use up the backlog the next frames need.
WindowReady ==
  last # NoOne /\ Prefetch > 0 =>
    /\ (last + 1)..Smaller(last + Prefetch, NumFrames - 1) \subseteq Held(inflight)
    /\ Held(inflight) \subseteq (last + 1)..(last + Limit)

\* Pruning for one thread never cancels the future another thread waits on,
\* and a thread is handed the frame it asked for.
WaitersAreSafe == \A t \in Threads : fut[t] # NoOne =>
                    state[fut[t]] # "cancelled" /\ about[fut[t]] = want[t]

\* A request in progress is prefetched, waited on or given up by a fetch that
\* timed out or raised, and only one of these: none is forgotten and none has
\* two owners.
Owners(f) == {<<"prefetched", k>> : k \in {j \in Frames : inflight[j] = f}}
               \cup {<<"waited on", t>> : t \in {u \in Threads : fut[u] = f}}
               \cup {<<"given up", f>> : g \in given \cap {f}}
OneOwner == \A f \in Futures : state[f] = "open" => Cardinality(Owners(f)) = 1

\* Played from any frame on, with any number of threads, no frame is requested twice.
PlaybackAsksOnce ==
  ~sought => \A f, g \in 1..made : about[f] = about[g] => f = g

\* The inductive invariant behind these.  Futures are numbered as they are made
\* and a thread's future is nobody else's; what a thread takes or gives up has
\* left the window before ...
MadeInv ==
  /\ made <= fetches * (Prefetch + 1)
  /\ \A f \in Futures : f > made => state[f] = "none"
OwnerInv ==
  /\ \A n \in Frames : inflight[n] # NoOne =>
       inflight[n] <= made /\ about[inflight[n]] = n /\ state[inflight[n]] # "cancelled"
  /\ \A t \in Threads : fut[t] # NoOne =>
       /\ fut[t] <= made /\ fut[t] \notin given
       /\ \A n \in Frames : inflight[n] # fut[t]
       /\ \A u \in Threads : fut[u] = fut[t] => u = t
  /\ \A f \in given : f <= made /\ state[f] = "open" /\ \A n \in Frames : inflight[n] # f
  /\ \A f \in Futures : state[f] = "open" =>
       f \in given \/ (\E n \in Frames : inflight[n] = f) \/ \E t \in Threads : fut[t] = f
  /\ WaitersAreSafe

\* ... and when frames are asked for one after the other they are requested in
\* their order, never further ahead than Prefetch.
PlaybackInv ==
  ~sought =>
    /\ last = NoOne => made = 0
    /\ last # NoOne => \A f \in 1..made : about[f] <= last + Prefetch
    /\ \A f, g \in 1..made : f < g => about[f] < about[g]

ProxyInv == TypeOK /\ MadeInv /\ OwnerInv /\ WindowReady /\ PlaybackInv
=============================================================================
