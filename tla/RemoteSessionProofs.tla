------------------------- MODULE RemoteSessionProofs -------------------------
(***************************************************************************)
(* What fetch_frame guarantees for any number of threads, frames and       *)
(* futures, and any prefetch and backlog, on its own and while the server  *)
(* loads other scripts.  Most of it rests on how futures are numbered: the *)
(* frames to prefetch are requested in their order, so the number of a     *)
(* future is told by the rank of its frame among those that are missing.   *)
(***************************************************************************)
EXTENDS RemoteSession, FiniteSetTheorems, TLAPS

\* The numbers below a number.
LEMMA NumbersBelow ==
  ASSUME NEW n \in Nat
  PROVE  IsFiniteSet(0..(n - 1)) /\ Cardinality(0..(n - 1)) = n
<1>1. n - 1 \in Int
  OBVIOUS
<1>2. /\ IsFiniteSet(0..(n - 1))
      /\ Cardinality(0..(n - 1)) = IF 0 > n - 1 THEN 0 ELSE (n - 1) - 0 + 1
  BY <1>1, FS_Interval
<1> QED BY <1>2

\* The place of k in a set of frames.
RankIn(S, k) == Cardinality({j \in S : j < k})

\* Ranks are numbers below the size of the set, and follow the order.
LEMMA Ranks ==
  ASSUME NEW S \in SUBSET Nat, IsFiniteSet(S)
  PROVE  /\ Cardinality(S) \in Nat
         /\ \A k \in Nat : RankIn(S, k) \in Nat
         /\ \A k \in S : RankIn(S, k) < Cardinality(S)
         /\ \A j, k \in S : j < k => RankIn(S, j) < RankIn(S, k)
<1>1. Cardinality(S) \in Nat
  BY FS_CardinalityType
<1> DEFINE Below(k) == {j \in S : j < k}
<1>2. \A k \in Nat : /\ IsFiniteSet(Below(k)) /\ Cardinality(Below(k)) \in Nat
                     /\ Cardinality(Below(k)) <= Cardinality(S)
  BY FS_Subset, FS_CardinalityType
<1>3. ASSUME NEW k \in S PROVE Cardinality(Below(k)) < Cardinality(S)
  <2>1. Below(k) \in SUBSET S /\ k \notin Below(k)
    OBVIOUS
  <2>2. Cardinality(Below(k)) # Cardinality(S)
    BY <2>1, FS_Subset
  <2> QED BY <1>1, <1>2, <2>2
<1>4. ASSUME NEW j \in S, NEW k \in S, j < k PROVE Cardinality(Below(j)) < Cardinality(Below(k))
  <2>1. Below(j) \in SUBSET Below(k) /\ j \in Below(k) /\ j \notin Below(j)
    <3>1. j \in Nat /\ k \in Nat /\ \A x \in S : x \in Nat
      OBVIOUS
    <3>2. \A x \in S : x < j => x < k
      BY <1>4, <3>1
    <3>3. ~(j < j)
      BY <3>1
    <3> QED BY <1>4, <3>2, <3>3
  <2>2. Cardinality(Below(j)) # Cardinality(Below(k)) /\ Cardinality(Below(j)) <= Cardinality(Below(k))
    BY <1>2, <2>1, FS_Subset
  <2> QED BY <1>2, <2>2
<1> QED BY <1>1, <1>2, <1>3, <1>4 DEF RankIn

\* Different members have different ranks.
LEMMA RanksDiffer ==
  ASSUME NEW S \in SUBSET Nat, IsFiniteSet(S), NEW j \in S, NEW k \in S, RankIn(S, j) = RankIn(S, k)
  PROVE  j = k
<1>1. j \in Nat /\ k \in Nat /\ RankIn(S, j) \in Nat
  BY Ranks
<1>2. ~(j < k) /\ ~(k < j)
  BY <1>1, Ranks
<1> QED BY <1>1, <1>2

\* Of a set from which everything from some rank on is left out, every rank up
\* to the number of what is left is taken.
LEMMA RanksOnto ==
  ASSUME NEW S \in SUBSET Nat, IsFiniteSet(S), NEW T \in SUBSET S,
         \A j \in T, k \in S : RankIn(S, k) <= RankIn(S, j) => k \in T,
         NEW r \in Nat, r < Cardinality(T)
  PROVE  \E k \in T : RankIn(S, k) = r
<1>1. /\ Cardinality(S) \in Nat /\ Cardinality(T) \in Nat /\ Cardinality(T) <= Cardinality(S)
      /\ \A k \in S : RankIn(S, k) \in Nat /\ RankIn(S, k) < Cardinality(S)
      /\ IsFiniteSet(T)
  BY Ranks, FS_Subset, FS_CardinalityType
<1>2. \E k \in S : RankIn(S, k) = r
  <2> DEFINE All  == 0..(Cardinality(S) - 1)
             rank == [k \in S |-> RankIn(S, k)]
  <2>1. IsFiniteSet(All) /\ Cardinality(All) = Cardinality(S)
    BY <1>1, NumbersBelow
  <2>2. rank \in Injection(S, All)
    BY <1>1, RanksDiffer DEF Injection, IsInjective
  <2>3. rank \in Surjection(S, All)
    BY <2>1, <2>2, FS_Injection
  <2>4. r \in All
    BY <1>1
  <2> QED BY <2>3, <2>4 DEF Surjection
<1>3. PICK k \in S : RankIn(S, k) = r
  BY <1>2
<1>4. ASSUME k \notin T PROVE FALSE
  <2> DEFINE Lower == 0..(r - 1)
             rank  == [j \in T |-> RankIn(S, j)]
  <2>1. \A j \in T : RankIn(S, j) < r
    BY <1>1, <1>3, <1>4
  <2>2. rank \in Injection(T, Lower)
    BY <1>1, <2>1, RanksDiffer DEF Injection, IsInjective
  <2>3. IsFiniteSet(Lower) /\ Cardinality(Lower) = r
    BY NumbersBelow
  <2>4. Cardinality(T) <= r
    BY <2>2, <2>3, FS_Injection
  <2> QED BY <1>1, <2>4
<1> QED BY <1>3, <1>4
-----------------------------------------------------------------------------
\* The futures that one call of fetch_frame makes: one for frame n unless it is
\* in the window, and one each for the frames requested ahead.
Base(n) == IF inflight[n] # NoOne THEN made ELSE made + 1
Requested(n, i) == {k \in Ahead(n) : Rank(n, k) < i}
Name(n, k) == Base(n) + 1 + Rank(n, k)

\* The frames that are missing lie ahead, and there are at most Prefetch of them.
LEMMA MissingFrames ==
  ASSUME NEW n \in Frames
  PROVE  /\ Missing(n) \in SUBSET Nat /\ Missing(n) \subseteq Frames /\ IsFiniteSet(Missing(n))
         /\ Cardinality(Missing(n)) <= Prefetch
         /\ \A k \in Missing(n) : n < k /\ k <= n + Prefetch /\ Pruned(n)[k] = NoOne
         /\ \A k : Rank(n, k) = RankIn(Missing(n), k)
<1> USE ProxyAssumption DEF ProxyAssumption
<1>1. \A k \in Missing(n) : k \in Frames /\ n < k /\ k <= n + Prefetch /\ Pruned(n)[k] = NoOne
  BY DEF Missing, Smaller, Frames
<1>2. Missing(n) \in SUBSET Nat
  BY <1>1 DEF Frames
<1>3. n + 1 \in Int /\ n + Prefetch \in Int /\ n \in Nat
  BY DEF Frames
<1>4. IsFiniteSet((n + 1)..(n + Prefetch)) /\ Cardinality((n + 1)..(n + Prefetch)) = Prefetch
  <2>1. Cardinality((n + 1)..(n + Prefetch))
          = IF n + 1 > n + Prefetch THEN 0 ELSE (n + Prefetch) - (n + 1) + 1
    BY <1>3, FS_Interval
  <2> QED BY <1>3, <2>1, FS_Interval
<1>5. Missing(n) \in SUBSET ((n + 1)..(n + Prefetch))
  BY <1>1, <1>2, <1>3
<1> QED BY <1>1, <1>2, <1>4, <1>5, FS_Subset DEF Rank, RankIn

\* The requested frames are numbered from Base(n) on without a gap, in order.
LEMMA NamesOfRequested ==
  ASSUME TypeOK, NEW n \in Frames, NEW i \in 0..Cardinality(Ahead(n))
  PROVE  /\ i \in Nat /\ i <= Prefetch
         /\ Requested(n, i) \subseteq Missing(n)
         /\ \A k \in Requested(n, i) : Name(n, k) \in (Base(n) + 1)..(Base(n) + i)
         /\ \A j, k \in Requested(n, i) : /\ Name(n, j) = Name(n, k) => j = k
                                          /\ Name(n, j) < Name(n, k) => j < k
         /\ \A f \in (Base(n) + 1)..(Base(n) + i) : \E k \in Requested(n, i) : Name(n, k) = f
<1> USE ProxyAssumption DEF ProxyAssumption
<1> DEFINE S == Missing(n)
<1>1. /\ S \in SUBSET Nat /\ IsFiniteSet(S) /\ Cardinality(S) <= Prefetch
      /\ \A k : Rank(n, k) = RankIn(S, k)
  BY MissingFrames
<1>2. /\ Cardinality(S) \in Nat /\ \A k \in S : RankIn(S, k) \in Nat
      /\ \A j, k \in S : j < k => RankIn(S, j) < RankIn(S, k)
  BY <1>1, Ranks
<1>3. Ahead(n) \in SUBSET S
  BY DEF Ahead
<1>4. Cardinality(Ahead(n)) \in Nat /\ Cardinality(Ahead(n)) <= Prefetch
  BY <1>1, <1>2, <1>3, FS_Subset, FS_CardinalityType
<1>5. i \in Nat /\ i <= Prefetch
  BY <1>4
<1>6. Base(n) \in Nat
  BY DEF Base, TypeOK, FutureTypes
<1>7. \A k \in Requested(n, i) : k \in S /\ k \in Nat /\ RankIn(S, k) \in Nat /\ RankIn(S, k) < i
                                 /\ Name(n, k) = Base(n) + 1 + RankIn(S, k)
  BY <1>1, <1>2, <1>3 DEF Requested, Name
<1>8. \A k \in Requested(n, i) : Name(n, k) \in (Base(n) + 1)..(Base(n) + i)
  BY <1>5, <1>6, <1>7
<1>9. ASSUME NEW j \in Requested(n, i), NEW k \in Requested(n, i)
      PROVE  /\ Name(n, j) = Name(n, k) => j = k
             /\ Name(n, j) < Name(n, k) => j < k
  <2>1. Name(n, j) = Name(n, k) => RankIn(S, j) = RankIn(S, k)
    BY <1>6, <1>7
  <2>2. Name(n, j) < Name(n, k) => ~(k < j) /\ j # k
    BY <1>2, <1>6, <1>7
  <2> QED BY <1>1, <1>7, <2>1, <2>2, RanksDiffer
<1>10. ASSUME NEW f \in (Base(n) + 1)..(Base(n) + i)
       PROVE  \E k \in Requested(n, i) : Name(n, k) = f
  <2> DEFINE r == f - (Base(n) + 1)
  <2>1. r \in Nat /\ r < i /\ r < Cardinality(Ahead(n)) /\ Base(n) + 1 + r = f
    BY <1>4, <1>5, <1>6
  <2>2. \A j \in Ahead(n), k \in S : RankIn(S, k) <= RankIn(S, j) => k \in Ahead(n)
    <3> SUFFICES ASSUME NEW j \in Ahead(n), NEW k \in S, RankIn(S, k) <= RankIn(S, j)
                 PROVE  Cardinality(Held(Pruned(n))) + Rank(n, k) < Limit
      BY DEF Ahead
    <3>1. Cardinality(Held(Pruned(n))) + Rank(n, j) < Limit
      BY DEF Ahead
    <3>2. Cardinality(Held(Pruned(n))) \in Nat
      <4>1. 0 \in Int /\ NumFrames - 1 \in Int
        OBVIOUS
      <4>2. Held(Pruned(n)) \in SUBSET (0..(NumFrames - 1))
        BY DEF Held, Frames
      <4> QED BY <4>1, <4>2, FS_Interval, FS_Subset, FS_CardinalityType
    <3>3. Limit \in Nat
      BY DEF Limit
    <3> QED BY <1>1, <1>2, <1>3, <3>1, <3>2, <3>3
  <2> HIDE DEF r
  <2>3. PICK k \in Ahead(n) : RankIn(S, k) = r
    BY <1>1, <1>3, <2>1, <2>2, RanksOnto
  <2>4. k \in Requested(n, i) /\ Name(n, k) = f
    BY <1>1, <2>1, <2>3 DEF Requested, Name
  <2> QED BY <2>4
<1> QED BY <1>3, <1>5, <1>7, <1>8, <1>9, <1>10
\* One more call of fetch_frame has room for its futures.
LEMMA RoomForFutures ==
  ASSUME NEW a \in Nat, NEW b \in Nat, a < b, NEW p \in Nat
  PROVE  /\ a * (p + 1) \in Nat /\ (a + 1) * (p + 1) = a * (p + 1) + (p + 1)
         /\ (a + 1) * (p + 1) <= b * (p + 1)
<1>1. (a + 1) * (p + 1) = a * (p + 1) + (p + 1)
  OBVIOUS
<1>2. a * (p + 1) \in Nat
  OBVIOUS
<1>3. PICK d \in Nat : b = (a + 1) + d
  <2>1. b - (a + 1) \in Nat /\ b = (a + 1) + (b - (a + 1))
    OBVIOUS
  <2> QED BY <2>1
<1>4. b * (p + 1) = (a + 1) * (p + 1) + d * (p + 1) /\ d * (p + 1) \in Nat
  BY <1>3
<1> QED BY <1>1, <1>2, <1>4

\* What Take does, future by future: those made before keep their frame and are
\* cancelled only when they are dropped from the window; each new one is for a
\* frame of its own and is under way; numbers above stay unused.
LEMMA TakeEffect ==
  ASSUME TypeOK, MadeInv, fetches < MaxFetches,
         NEW n \in Frames, NEW i \in 0..Cardinality(Ahead(n)), Take(n, i)
  PROVE  /\ made' = Base(n) + i /\ made' \in Nat /\ Base(n) \in Nat /\ made <= Base(n)
         /\ made' <= (fetches + 1) * (Prefetch + 1) /\ \A f \in 1..made' : f \in Futures
         /\ inflight' = [k \in Frames |-> IF k \in Requested(n, i) THEN Name(n, k) ELSE Pruned(n)[k]]
         /\ about' \in [Futures -> Frames] /\ state' \in [Futures -> States]
         /\ \A k \in Requested(n, i) : about'[Name(n, k)] = k /\ state'[Name(n, k)] = "open"
         /\ inflight[n] = NoOne => about'[made + 1] = n /\ state'[made + 1] = "open"
         /\ \A f \in Futures : f <= made =>
              /\ about'[f] = about[f]
              /\ state'[f] = IF f \in Dropped(n) /\ state[f] = "open" THEN "cancelled" ELSE state[f]
         /\ \A f \in Futures : f > made' => state'[f] = "none"
         /\ \A f \in Futures : made < f /\ f <= made' =>
              (inflight[n] = NoOne /\ f = made + 1) \/ \E k \in Requested(n, i) : Name(n, k) = f
<1> DEFINE R   == Requested(n, i)
           new == {Name(n, k) : k \in R} \cup (IF inflight[n] # NoOne THEN {} ELSE {Base(n)})
<1>1. /\ i \in Nat /\ i <= Prefetch /\ R \subseteq Missing(n)
      /\ \A k \in R : Name(n, k) \in (Base(n) + 1)..(Base(n) + i)
      /\ \A j, k \in R : Name(n, j) = Name(n, k) => j = k
      /\ \A f \in (Base(n) + 1)..(Base(n) + i) : \E k \in R : Name(n, k) = f
  BY NamesOfRequested
<1>2. /\ made \in Nat /\ Base(n) \in Nat /\ made <= Base(n) /\ Base(n) <= made + 1
      /\ Base(n) = IF inflight[n] # NoOne THEN made ELSE made + 1
  BY DEF Base, TypeOK, FutureTypes
<1>3. R \subseteq Frames
  BY <1>1, MissingFrames
<1> DEFINE named == [k \in R |-> Name(n, k)]
<1>4. /\ made' = Base(n) + i
      /\ inflight' = [k \in Frames |-> IF k \in R THEN named[k] ELSE Pruned(n)[k]]
      /\ about' = [f \in Futures |->
                    IF f \notin new THEN about[f]
                    ELSE IF \E k \in R : named[k] = f THEN CHOOSE k \in R : named[k] = f ELSE n]
      /\ state' = [f \in Futures |->
                    IF f \in new THEN "open"
                    ELSE IF f \in Dropped(n) /\ state[f] = "open" THEN "cancelled"
                    ELSE state[f]]
  BY DEF Take, Base, Requested, Name
<1>5. made' \in Nat /\ made' <= (fetches + 1) * (Prefetch + 1) /\ \A f \in 1..made' : f \in Futures
  <2>1. fetches \in Nat /\ MaxFetches \in Nat /\ Prefetch \in Nat
    BY ProxyAssumption DEF ProxyAssumption, TypeOK, WindowTypes
  <2>2. /\ fetches * (Prefetch + 1) \in Nat
        /\ (fetches + 1) * (Prefetch + 1) = fetches * (Prefetch + 1) + (Prefetch + 1)
        /\ (fetches + 1) * (Prefetch + 1) <= MaxFetches * (Prefetch + 1)
    BY <2>1, RoomForFutures
  <2> DEFINE before == fetches * (Prefetch + 1)
             after  == (fetches + 1) * (Prefetch + 1)
             room   == MaxFetches * (Prefetch + 1)
  <2>3. before \in Nat /\ after = before + (Prefetch + 1) /\ after <= room /\ made <= before
    BY <2>2 DEF MadeInv
  <2>4. room \in Nat
    BY <2>1
  <2> HIDE DEF before, after, room
  <2>5. made' \in Nat /\ made' <= after /\ \A f \in 1..made' : f \in 1..room
    BY <1>1, <1>2, <1>4, <2>1, <2>3, <2>4
  <2> QED BY <2>5 DEF Futures, after, room
<1>6. Futures \subseteq Nat /\ \A f \in Futures : f >= 1
  BY DEF Futures
<1>7. \A f \in new : f > made /\ f <= made' /\ f \in Futures
  BY <1>1, <1>2, <1>4, <1>5
<1>8. \A k \in R : about'[Name(n, k)] = k /\ state'[Name(n, k)] = "open"
  BY <1>1, <1>4, <1>7
<1>9. ASSUME inflight[n] = NoOne PROVE about'[made + 1] = n /\ state'[made + 1] = "open"
  <2>1. made + 1 \in new /\ Base(n) = made + 1
    BY <1>2, <1>9
  <2>2. ~ \E k \in R : named[k] = made + 1
    BY <1>1, <1>2, <2>1
  <2> QED BY <1>4, <1>7, <2>1, <2>2
<1>10. ASSUME NEW f \in Futures, f <= made
       PROVE  /\ about'[f] = about[f]
              /\ state'[f] = IF f \in Dropped(n) /\ state[f] = "open" THEN "cancelled" ELSE state[f]
  <2>1. f \notin new
    BY <1>2, <1>6, <1>7, <1>10
  <2> QED BY <1>4, <2>1
<1>11. ASSUME NEW f \in Futures, f > made' PROVE state'[f] = "none"
  <2>1. f \notin new /\ f > made
    BY <1>1, <1>2, <1>4, <1>6, <1>7, <1>11
  <2> QED BY <1>4, <2>1 DEF MadeInv
<1>12. ASSUME NEW f \in Futures, made < f, f <= made'
       PROVE  (inflight[n] = NoOne /\ f = made + 1) \/ \E k \in R : Name(n, k) = f
  BY <1>1, <1>2, <1>4, <1>6, <1>12
<1>13. about' \in [Futures -> Frames]
  <2>1. \A f \in Futures : (\E k \in R : named[k] = f) => (CHOOSE k \in R : named[k] = f) \in Frames
    BY <1>3
  <2> QED BY <1>4, <2>1 DEF TypeOK, FutureTypes
<1>14. state' \in [Futures -> States]
  BY <1>4 DEF TypeOK, FutureTypes, States
<1>15. inflight' = [k \in Frames |-> IF k \in R THEN Name(n, k) ELSE Pruned(n)[k]]
  BY <1>4
<1> QED BY <1>2, <1>4, <1>5, <1>8, <1>9, <1>10, <1>11, <1>12, <1>13, <1>14, <1>15
-----------------------------------------------------------------------------
\* A future stands for one frame, so it is in the window once.
LEMMA OnePlace ==
  ASSUME OwnerInv, NEW j \in Frames, NEW k \in Frames, inflight[j] = inflight[k], inflight[j] # NoOne
  PROVE  j = k
BY DEF OwnerInv

\* What Take means for those who own a future: the window holds futures for its
\* frames, the one that is taken has left it, those of threads and those given
\* up stay as they are, and whatever is under way still has an owner.
LEMMA TakeOwners ==
  ASSUME TypeOK, MadeInv, OwnerInv, fetches < MaxFetches,
         NEW n \in Frames, NEW i \in 0..Cardinality(Ahead(n)), Take(n, i)
  PROVE  /\ made' \in Nat /\ made <= made' /\ made' <= (fetches + 1) * (Prefetch + 1)
         /\ inflight' \in [Frames -> Futures \cup {NoOne}]
         /\ about' \in [Futures -> Frames] /\ state' \in [Futures -> States]
         /\ \A f \in Futures : f > made' => state'[f] = "none"
         /\ \A k \in Frames : inflight'[k] # NoOne =>
              /\ inflight'[k] <= made' /\ about'[inflight'[k]] = k
              /\ state'[inflight'[k]] # "cancelled" /\ inflight'[k] # Taken(n)
         /\ Taken(n) \in Futures /\ Taken(n) <= made' /\ Taken(n) \notin given
         /\ about'[Taken(n)] = n /\ state'[Taken(n)] # "cancelled"
         /\ \A t \in Threads : fut[t] # Taken(n)
         /\ \A f \in Futures : f <= made /\ (\A k \in Frames : inflight[k] # f) =>
              about'[f] = about[f] /\ state'[f] = state[f] /\ \A k \in Frames : inflight'[k] # f
         /\ \A f \in Futures : state'[f] = "open" =>
              \/ f = Taken(n) \/ \E k \in Frames : inflight'[k] = f
              \/ state[f] = "open" /\ \A k \in Frames : inflight[k] # f
<1> DEFINE R == Requested(n, i)
<1>1. /\ made' = Base(n) + i /\ made' \in Nat /\ Base(n) \in Nat /\ made <= Base(n)
      /\ made' <= (fetches + 1) * (Prefetch + 1) /\ \A f \in 1..made' : f \in Futures
      /\ inflight' = [k \in Frames |-> IF k \in R THEN Name(n, k) ELSE Pruned(n)[k]]
      /\ about' \in [Futures -> Frames] /\ state' \in [Futures -> States]
      /\ \A k \in R : about'[Name(n, k)] = k /\ state'[Name(n, k)] = "open"
      /\ inflight[n] = NoOne => about'[made + 1] = n /\ state'[made + 1] = "open"
  BY TakeEffect
<1>2. /\ \A f \in Futures : f <= made =>
              /\ about'[f] = about[f]
              /\ state'[f] = IF f \in Dropped(n) /\ state[f] = "open" THEN "cancelled" ELSE state[f]
      /\ \A f \in Futures : f > made' => state'[f] = "none"
      /\ \A f \in Futures : made < f /\ f <= made' =>
              (inflight[n] = NoOne /\ f = made + 1) \/ \E k \in R : Name(n, k) = f
  BY TakeEffect
<1>3. /\ i \in Nat /\ R \subseteq Missing(n)
      /\ \A k \in R : Name(n, k) \in (Base(n) + 1)..(Base(n) + i)
  BY NamesOfRequested
<1>4. /\ R \subseteq Frames /\ \A k \in R : Pruned(n)[k] = NoOne
  BY <1>3, MissingFrames
<1>5. \A k \in R : Name(n, k) \in Futures /\ Name(n, k) \in Nat /\ Name(n, k) > Base(n) /\ Name(n, k) <= made'
  BY <1>1, <1>3
<1>6. made \in Nat /\ Futures \subseteq Nat /\ (\A f \in Futures : f >= 1) /\ NoOne \notin Nat
  BY ProxyAssumption DEF ProxyAssumption, TypeOK, FutureTypes, Futures
<1>7. \A k \in Frames : Pruned(n)[k] = IF k = n \/ Stale(n, k) THEN NoOne ELSE inflight[k]
  BY DEF Pruned
<1>8. \A k \in Frames : inflight[k] # NoOne =>
        inflight[k] \in Futures /\ inflight[k] <= made /\ about[inflight[k]] = k /\ state[inflight[k]] # "cancelled"
  BY DEF OwnerInv, TypeOK, WindowTypes
<1>9. \A f : f \in Dropped(n) <=> \E j \in Frames : inflight[j] # NoOne /\ j # n /\ Stale(n, j) /\ f = inflight[j]
  BY DEF Dropped, Held
<1>10. \A k \in Frames : inflight'[k] = IF k \in R THEN Name(n, k) ELSE Pruned(n)[k]
  BY <1>1
<1>11. \A k \in Frames : inflight[k] # NoOne /\ (k = n \/ ~Stale(n, k)) => inflight[k] \notin Dropped(n)
  BY <1>9, OnePlace
<1>12. Base(n) = IF inflight[n] # NoOne THEN made ELSE made + 1
  BY DEF Base
<1>13. Taken(n) = IF inflight[n] # NoOne THEN inflight[n] ELSE made + 1
  BY DEF Taken
<1>14. inflight' \in [Frames -> Futures \cup {NoOne}]
  BY <1>1, <1>5, <1>7, <1>8
<1>15. made <= made' /\ \A f \in Futures : f <= made => f <= made'
  <2>1. made' = Base(n) + i /\ made <= Base(n) /\ Base(n) \in Nat /\ i \in Nat /\ made \in Nat
    BY <1>1, <1>3, <1>6
  <2>2. \A f \in Futures : f \in Nat
    BY <1>6
  <2> QED BY ONLY <2>1, <2>2
<1>16. ASSUME NEW k \in Frames, inflight'[k] # NoOne
       PROVE  /\ inflight'[k] <= made' /\ about'[inflight'[k]] = k
              /\ state'[inflight'[k]] # "cancelled" /\ inflight'[k] # Taken(n)
  <2>1. CASE k \in R
    <3>1. inflight'[k] = Name(n, k)
      BY <1>10, <2>1
    <3>2. Name(n, k) # Taken(n)
      BY <1>5, <1>6, <1>8, <1>12, <1>13, <2>1
    <3> QED BY <1>1, <1>5, <2>1, <3>1, <3>2
  <2>2. CASE k \notin R
    <3>1. inflight'[k] = inflight[k] /\ k # n /\ ~Stale(n, k) /\ inflight[k] # NoOne
      BY <1>7, <1>10, <1>16, <2>2
    <3>2. inflight[k] \notin Dropped(n)
      BY <1>11, <3>1
    <3>3. inflight[k] \in Futures /\ inflight[k] <= made /\ about[inflight[k]] = k /\ state[inflight[k]] # "cancelled"
      BY <1>8, <3>1
    <3>4. inflight[k] # Taken(n)
      BY <1>6, <1>13, <3>1, <3>3, OnePlace
    <3>5. inflight[k] <= made'
      BY <1>15, <3>3
    <3> QED BY <1>2, <3>1, <3>2, <3>3, <3>4, <3>5
  <2> QED BY <2>1, <2>2
<1>17. /\ Taken(n) \in Futures /\ Taken(n) <= made' /\ Taken(n) \notin given
       /\ about'[Taken(n)] = n /\ state'[Taken(n)] # "cancelled"
       /\ \A t \in Threads : fut[t] # Taken(n)
  <2>1. CASE inflight[n] # NoOne
    <3>1. Taken(n) = inflight[n] /\ Taken(n) \in Futures /\ Taken(n) <= made /\ about[Taken(n)] = n
          /\ state[Taken(n)] # "cancelled" /\ Taken(n) \notin Dropped(n)
      BY <1>8, <1>11, <1>13, <2>1
    <3>2. Taken(n) \notin given /\ \A t \in Threads : fut[t] # Taken(n)
      BY <2>1, <3>1 DEF OwnerInv
    <3>3. Taken(n) <= made'
      BY <1>15, <3>1
    <3> QED BY <1>2, <3>1, <3>2, <3>3
  <2>2. CASE inflight[n] = NoOne
    <3>1. Taken(n) = made + 1 /\ made + 1 <= made' /\ made + 1 \in 1..made'
      BY <1>1, <1>3, <1>6, <1>12, <1>13, <2>2
    <3>2. \A f \in given : f <= made /\ f \in Nat
      BY <1>6 DEF OwnerInv, TypeOK, FutureTypes
    <3>3. \A t \in Threads : fut[t] # NoOne => fut[t] <= made /\ fut[t] \in Nat
      BY <1>6 DEF OwnerInv, TypeOK, ThreadTypes
    <3>4. made + 1 \in Nat /\ ~(made + 1 <= made)
      BY <1>6
    <3> QED BY <1>1, <1>6, <2>2, <3>1, <3>2, <3>3, <3>4
  <2> QED BY <2>1, <2>2
<1>18. ASSUME NEW f \in Futures, f <= made, \A k \in Frames : inflight[k] # f
       PROVE  about'[f] = about[f] /\ state'[f] = state[f] /\ \A k \in Frames : inflight'[k] # f
  <2>1. f \notin Dropped(n)
    BY <1>9, <1>18
  <2>2. \A k \in R : Name(n, k) # f
    BY <1>1, <1>5, <1>6, <1>18
  <2>3. f # NoOne
    BY <1>6
  <2> QED BY <1>2, <1>7, <1>10, <1>18, <2>1, <2>2, <2>3
<1>19. ASSUME NEW f \in Futures, state'[f] = "open"
       PROVE  \/ f = Taken(n) \/ \E k \in Frames : inflight'[k] = f
              \/ state[f] = "open" /\ \A k \in Frames : inflight[k] # f
  <2>1. CASE f <= made
    <3>1. state[f] = "open" /\ f \notin Dropped(n)
      BY <1>2, <1>19, <2>1
    <3>2. ASSUME NEW k \in Frames, inflight[k] = f PROVE f = Taken(n) \/ inflight'[k] = f
      <4>1. f # NoOne
        BY <1>6
      <4>2. k = n \/ ~Stale(n, k)
        BY <1>9, <3>1, <3>2, <4>1
      <4> QED BY <1>4, <1>7, <1>10, <1>13, <3>2, <4>1, <4>2
    <3> QED BY <3>1, <3>2
  <2>2. CASE ~(f <= made)
    <3>1. made < f /\ f <= made'
      BY <1>1, <1>2, <1>6, <1>19, <2>2
    <3> QED BY <1>2, <1>4, <1>10, <1>13, <3>1
  <2> QED BY <2>1, <2>2
<1> QED BY <1>1, <1>2, <1>14, <1>16, <1>17, <1>18, <1>19, <1>15

\* A fetch that gets its future hands it to its thread.
LEMMA FetchOwners ==
  ASSUME TypeOK, MadeInv, OwnerInv, NEW t \in Threads, NEW n \in Frames, Fetch(t, n)
  PROVE  TypeOK' /\ MadeInv' /\ OwnerInv'
<1> DEFINE i == Cardinality(Ahead(n))
<1>1. i \in 0..Cardinality(Ahead(n))
  BY MissingFrames, FS_Subset, FS_CardinalityType DEF Ahead
<1>2. /\ Take(n, i) /\ fetches < MaxFetches /\ fut[t] = NoOne
      /\ fut' = [fut EXCEPT ![t] = Taken(n)] /\ want' = [want EXCEPT ![t] = n]
      /\ last' = n /\ sought' = (sought \/ (last # NoOne /\ n # last + 1))
      /\ fetches' = fetches + 1 /\ given' = given
  BY DEF Fetch
<1> HIDE DEF i
<1>3. /\ made' \in Nat /\ made <= made' /\ made' <= (fetches + 1) * (Prefetch + 1)
      /\ inflight' \in [Frames -> Futures \cup {NoOne}]
      /\ about' \in [Futures -> Frames] /\ state' \in [Futures -> States]
      /\ \A f \in Futures : f > made' => state'[f] = "none"
      /\ \A k \in Frames : inflight'[k] # NoOne =>
           /\ inflight'[k] <= made' /\ about'[inflight'[k]] = k
           /\ state'[inflight'[k]] # "cancelled" /\ inflight'[k] # Taken(n)
  BY <1>1, <1>2, TakeOwners
<1>4. /\ Taken(n) \in Futures /\ Taken(n) <= made' /\ Taken(n) \notin given
      /\ about'[Taken(n)] = n /\ state'[Taken(n)] # "cancelled"
      /\ \A u \in Threads : fut[u] # Taken(n)
  BY <1>1, <1>2, TakeOwners
<1>5. /\ \A f \in Futures : f <= made /\ (\A k \in Frames : inflight[k] # f) =>
           about'[f] = about[f] /\ state'[f] = state[f] /\ \A k \in Frames : inflight'[k] # f
      /\ \A f \in Futures : state'[f] = "open" =>
           \/ f = Taken(n) \/ \E k \in Frames : inflight'[k] = f
           \/ state[f] = "open" /\ \A k \in Frames : inflight[k] # f
  BY <1>1, <1>2, TakeOwners
<1>6. TypeOK'
  <2>1. fetches' \in 0..MaxFetches
    BY <1>2, ProxyAssumption DEF ProxyAssumption, TypeOK, WindowTypes
  <2> QED BY <1>2, <1>3, <1>4, <2>1 DEF TypeOK, FutureTypes, ThreadTypes, WindowTypes
<1>7. MadeInv'
  BY <1>2, <1>3 DEF MadeInv
<1>8. \A f \in Futures : f <= made => f <= made'
  BY <1>3 DEF TypeOK, FutureTypes, Futures
<1>9. OwnerInv'
  <2>1. NoOne \notin Futures /\ given \subseteq Futures
        /\ \A u \in Threads : fut[u] \in Futures \cup {NoOne}
    BY ProxyAssumption DEF ProxyAssumption, Futures, TypeOK, FutureTypes, ThreadTypes
  <2>2. /\ fut'[t] = Taken(n) /\ want'[t] = n
        /\ \A u \in Threads \ {t} : fut'[u] = fut[u] /\ want'[u] = want[u]
    BY <1>2 DEF TypeOK, ThreadTypes
  <2>3. \A u \in Threads : fut[u] # NoOne =>
          /\ fut[u] <= made /\ fut[u] \notin given /\ (\A k \in Frames : inflight[k] # fut[u])
          /\ (\A v \in Threads : fut[v] = fut[u] => v = u)
          /\ state[fut[u]] # "cancelled" /\ about[fut[u]] = want[u]
    BY DEF OwnerInv, WaitersAreSafe
  <2>4. \A u \in Threads : fut'[u] # NoOne =>
          /\ fut'[u] <= made' /\ fut'[u] \notin given /\ (\A k \in Frames : inflight'[k] # fut'[u])
          /\ state'[fut'[u]] # "cancelled" /\ about'[fut'[u]] = want'[u]
    <3>1. ASSUME NEW u \in Threads \ {t}, fut'[u] # NoOne
          PROVE  /\ fut'[u] <= made' /\ fut'[u] \notin given /\ (\A k \in Frames : inflight'[k] # fut'[u])
                 /\ state'[fut'[u]] # "cancelled" /\ about'[fut'[u]] = want'[u]
      BY <1>5, <1>8, <2>1, <2>2, <2>3, <3>1
    <3>2. \A k \in Frames : inflight'[k] # Taken(n)
      BY <1>3, <1>4, <2>1
    <3> QED BY <1>4, <2>2, <3>1, <3>2
  <2>5. \A u, v \in Threads : fut'[u] # NoOne /\ fut'[v] = fut'[u] => v = u
    BY <1>4, <2>2, <2>3
  <2>6. \A f \in given' : f <= made' /\ state'[f] = "open" /\ \A k \in Frames : inflight'[k] # f
    <3>1. \A f \in given : f \in Futures /\ f <= made /\ state[f] = "open" /\ \A k \in Frames : inflight[k] # f
      BY <2>1 DEF OwnerInv
    <3> QED BY <1>2, <1>5, <1>8, <3>1
  <2>7. ASSUME NEW f \in Futures, state'[f] = "open"
        PROVE  f \in given' \/ (\E k \in Frames : inflight'[k] = f) \/ \E u \in Threads : fut'[u] = f
    <3>1. CASE state[f] = "open" /\ \A k \in Frames : inflight[k] # f
      <4>1. f \in given \/ \E u \in Threads : fut[u] = f
        BY <3>1 DEF OwnerInv
      <4>2. fut[t] # f
        BY <1>2, <2>1
      <4> QED BY <1>2, <2>2, <4>1, <4>2
    <3> QED BY <1>5, <2>2, <2>7, <3>1
  <2> QED BY <1>2, <1>3, <2>4, <2>5, <2>6, <2>7 DEF OwnerInv, WaitersAreSafe
<1> QED BY <1>6, <1>7, <1>9

\* A fetch that raises leaves its future to nobody, if it is under way.
LEMMA FetchRaisesOwners ==
  ASSUME TypeOK, MadeInv, OwnerInv, NEW t \in Threads, NEW n \in Frames, FetchRaises(t, n)
  PROVE  TypeOK' /\ MadeInv' /\ OwnerInv'
<1>1. PICK i \in 0..Cardinality(Ahead(n)) : Take(n, i)
  BY DEF FetchRaises
<1>2. /\ fetches < MaxFetches /\ fut' = fut /\ want' = want
      /\ given' = given \cup {f \in {Taken(n)} : state'[f] = "open"}
      /\ last' = NoOne /\ sought' = TRUE /\ fetches' = fetches + 1
  BY DEF FetchRaises
<1>3. /\ made' \in Nat /\ made <= made' /\ made' <= (fetches + 1) * (Prefetch + 1)
      /\ inflight' \in [Frames -> Futures \cup {NoOne}]
      /\ about' \in [Futures -> Frames] /\ state' \in [Futures -> States]
      /\ \A f \in Futures : f > made' => state'[f] = "none"
      /\ \A k \in Frames : inflight'[k] # NoOne =>
           /\ inflight'[k] <= made' /\ about'[inflight'[k]] = k
           /\ state'[inflight'[k]] # "cancelled" /\ inflight'[k] # Taken(n)
  BY <1>1, <1>2, TakeOwners
<1>4. /\ Taken(n) \in Futures /\ Taken(n) <= made' /\ \A u \in Threads : fut[u] # Taken(n)
  BY <1>1, <1>2, TakeOwners
<1>5. /\ \A f \in Futures : f <= made /\ (\A k \in Frames : inflight[k] # f) =>
           about'[f] = about[f] /\ state'[f] = state[f] /\ \A k \in Frames : inflight'[k] # f
      /\ \A f \in Futures : state'[f] = "open" =>
           \/ f = Taken(n) \/ \E k \in Frames : inflight'[k] = f
           \/ state[f] = "open" /\ \A k \in Frames : inflight[k] # f
  BY <1>1, <1>2, TakeOwners
<1>6. TypeOK'
  <2>1. fetches' \in 0..MaxFetches
    BY <1>2, ProxyAssumption DEF ProxyAssumption, TypeOK, WindowTypes
  <2> QED BY <1>2, <1>3, <1>4, <2>1 DEF TypeOK, FutureTypes, ThreadTypes, WindowTypes
<1>7. MadeInv'
  BY <1>2, <1>3 DEF MadeInv
<1>8. \A f \in Futures : f <= made => f <= made'
  BY <1>3 DEF TypeOK, FutureTypes, Futures
<1>9. OwnerInv'
  <2>1. NoOne \notin Futures /\ given \subseteq Futures
        /\ \A u \in Threads : fut[u] \in Futures \cup {NoOne}
    BY ProxyAssumption DEF ProxyAssumption, Futures, TypeOK, FutureTypes, ThreadTypes
  <2>2. \A u \in Threads : fut[u] # NoOne =>
          /\ fut[u] <= made /\ fut[u] \notin given /\ (\A k \in Frames : inflight[k] # fut[u])
          /\ (\A v \in Threads : fut[v] = fut[u] => v = u)
          /\ state[fut[u]] # "cancelled" /\ about[fut[u]] = want[u]
    BY DEF OwnerInv, WaitersAreSafe
  <2>3. \A u \in Threads : fut[u] # NoOne =>
          /\ fut[u] <= made' /\ fut[u] \notin given' /\ (\A k \in Frames : inflight'[k] # fut[u])
          /\ state'[fut[u]] # "cancelled" /\ about'[fut[u]] = want[u]
    BY <1>2, <1>4, <1>5, <1>8, <2>1, <2>2
  <2>4. \A k \in Frames : inflight'[k] # Taken(n)
    BY <1>3, <1>4, <2>1
  <2>5. \A f \in given' : f <= made' /\ state'[f] = "open" /\ \A k \in Frames : inflight'[k] # f
    <3>1. \A f \in given : f \in Futures /\ f <= made /\ state[f] = "open" /\ \A k \in Frames : inflight[k] # f
      BY <2>1 DEF OwnerInv
    <3> QED BY <1>2, <1>4, <1>5, <1>8, <2>4, <3>1
  <2>6. ASSUME NEW f \in Futures, state'[f] = "open"
        PROVE  f \in given' \/ (\E k \in Frames : inflight'[k] = f) \/ \E u \in Threads : fut[u] = f
    <3>1. CASE state[f] = "open" /\ \A k \in Frames : inflight[k] # f
      BY <1>2, <3>1 DEF OwnerInv
    <3> QED BY <1>2, <1>5, <2>6, <3>1
  <2> QED BY <1>2, <1>3, <2>2, <2>3, <2>5, <2>6 DEF OwnerInv, WaitersAreSafe
<1> QED BY <1>6, <1>7, <1>9

\* The transport and the wait make no futures; a future changes hands at most.
LEMMA WaitOwners ==
  ASSUME TypeOK, MadeInv, OwnerInv,
         (\E f \in Futures : Settle(f)) \/ (\E t \in Threads : Returns(t) \/ TimesOut(t))
  PROVE  TypeOK' /\ MadeInv' /\ OwnerInv'
<1>1. NoOne \notin Futures
  BY ProxyAssumption DEF ProxyAssumption, Futures
<1>2. ASSUME NEW f \in Futures, Settle(f) PROVE TypeOK' /\ MadeInv' /\ OwnerInv'
  <2> USE <1>2 DEF Settle
  <2>1. TypeOK' BY DEF TypeOK, FutureTypes, ThreadTypes, WindowTypes, States
  <2>2. MadeInv' BY DEF MadeInv, TypeOK, FutureTypes
  <2>3. OwnerInv' BY <1>1 DEF OwnerInv, WaitersAreSafe, TypeOK, FutureTypes, ThreadTypes, WindowTypes
  <2> QED BY <2>1, <2>2, <2>3
<1>3. ASSUME NEW t \in Threads, Returns(t) PROVE TypeOK' /\ MadeInv' /\ OwnerInv'
  <2> USE <1>3 DEF Returns
  <2>1. TypeOK' BY DEF TypeOK, FutureTypes, ThreadTypes, WindowTypes
  <2>2. MadeInv' BY DEF MadeInv
  <2>3. OwnerInv' BY <1>1 DEF OwnerInv, WaitersAreSafe, TypeOK, ThreadTypes
  <2> QED BY <2>1, <2>2, <2>3
<1>4. ASSUME NEW t \in Threads, TimesOut(t) PROVE TypeOK' /\ MadeInv' /\ OwnerInv'
  <2> USE <1>4 DEF TimesOut
  <2>1. TypeOK' BY DEF TypeOK, FutureTypes, ThreadTypes, WindowTypes
  <2>2. MadeInv' BY DEF MadeInv
  <2>3. OwnerInv' BY <1>1 DEF OwnerInv, WaitersAreSafe, TypeOK, ThreadTypes
  <2> QED BY <2>1, <2>2, <2>3
<1> QED BY <1>2, <1>3, <1>4

\* A thread's future, one in the window and one given up are different, so an
\* open future has one owner.
LEMMA OwnersDiffer == TypeOK /\ OwnerInv => OneOwner
<1> SUFFICES ASSUME TypeOK, OwnerInv, NEW f \in Futures, state[f] = "open"
             PROVE  Cardinality(Owners(f)) = 1
  BY DEF OneOwner
<1>1. f # NoOne
  BY ProxyAssumption DEF ProxyAssumption, Futures
<1>2. \E owner : Owners(f) = {owner}
  <2>1. CASE f \in given
    <3>1. (\A k \in Frames : inflight[k] # f) /\ (\A t \in Threads : fut[t] # f)
      BY <1>1, <2>1 DEF OwnerInv
    <3> QED BY <2>1, <3>1 DEF Owners
  <2>2. ASSUME NEW k \in Frames, inflight[k] = f PROVE \E owner : Owners(f) = {owner}
    <3>1. f \notin given /\ (\A t \in Threads : fut[t] # f) /\ (\A j \in Frames : inflight[j] = f => j = k)
      BY <1>1, <2>2, OnePlace DEF OwnerInv
    <3>2. Owners(f) = {<<"prefetched", k>>}
      BY <2>2, <3>1 DEF Owners
    <3> QED BY <3>2
  <2>3. ASSUME NEW t \in Threads, fut[t] = f PROVE \E owner : Owners(f) = {owner}
    <3>1. f \notin given /\ (\A k \in Frames : inflight[k] # f) /\ (\A u \in Threads : fut[u] = f => u = t)
      BY <1>1, <2>3 DEF OwnerInv
    <3>2. Owners(f) = {<<"waited on", t>>}
      BY <2>3, <3>1 DEF Owners
    <3> QED BY <3>2
  <2> QED BY <2>1, <2>2, <2>3 DEF OwnerInv
<1> QED BY <1>2, FS_Singleton
-----------------------------------------------------------------------------
\* Pruning makes room for everything that is missing.
LEMMA AllRequested ==
  ASSUME TypeOK, NEW n \in Frames, Prefetch > 0
  PROVE  Requested(n, Cardinality(Ahead(n))) = Missing(n)
<1> USE ProxyAssumption DEF ProxyAssumption
<1> DEFINE S == Missing(n)
           H == Held(Pruned(n))
           W == (n + 1)..(n + Limit)
<1>1. /\ S \in SUBSET Nat /\ IsFiniteSet(S)
      /\ \A k \in S : n < k /\ k <= n + Prefetch /\ Pruned(n)[k] = NoOne
      /\ \A k : Rank(n, k) = RankIn(S, k)
  BY MissingFrames
<1>2. /\ Cardinality(S) \in Nat
      /\ \A k \in S : RankIn(S, k) \in Nat /\ RankIn(S, k) < Cardinality(S)
  BY <1>1, Ranks
<1>3. n \in Nat /\ Limit \in Nat /\ Prefetch <= Limit
  BY DEF Frames, Limit
<1>4. IsFiniteSet(W) /\ Cardinality(W) = Limit
  <2>1. n + 1 \in Int /\ n + Limit \in Int
    BY <1>3
  <2>2. /\ IsFiniteSet(W)
        /\ Cardinality(W) = IF n + 1 > n + Limit THEN 0 ELSE (n + Limit) - (n + 1) + 1
    BY <2>1, FS_Interval
  <2> QED BY <1>3, <2>2
<1>5. S \subseteq W
  BY <1>1, <1>3
<1>6. H \subseteq W
  <2>1. \A k \in H : k \in Frames /\ Pruned(n)[k] # NoOne
    BY DEF Held
  <2>2. \A k \in H : k \in Nat /\ k # n /\ ~(k < n) /\ ~(k > n + Limit)
    BY <2>1 DEF Pruned, Stale, Frames
  <2> QED BY <1>3, <2>2
<1>7. S \cap H = {}
  BY <1>1 DEF Held
<1>8. IsFiniteSet(H) /\ Cardinality(H) \in Nat
  BY <1>4, <1>6, FS_Subset, FS_CardinalityType
<1>9. Cardinality(S \cup H) = Cardinality(S) + Cardinality(H)
  <2>1. Cardinality(S \cap H) = 0
    BY <1>7, FS_EmptySet
  <2>2. Cardinality(S \cup H) = Cardinality(S) + Cardinality(H) - Cardinality(S \cap H)
    BY <1>1, <1>8, FS_Union
  <2> HIDE DEF S, H
  <2> QED BY <1>2, <1>8, <2>1, <2>2
<1>10. Cardinality(S \cup H) <= Limit
  <2>1. S \cup H \in SUBSET W
    BY <1>5, <1>6
  <2> QED BY <1>4, <2>1, FS_Subset
<1>11. Ahead(n) = S
  <2>1. \A k \in S : Cardinality(H) + Rank(n, k) < Limit
    BY <1>1, <1>2, <1>3, <1>8, <1>9, <1>10
  <2> QED BY <2>1 DEF Ahead
<1> QED BY <1>1, <1>2, <1>11 DEF Requested

\* When fetch_frame lets go of the lock the next frames are under way.
LEMMA FetchWindow ==
  ASSUME TypeOK, MadeInv, NEW t \in Threads, NEW n \in Frames, Fetch(t, n)
  PROVE  WindowReady'
<1> DEFINE i == Cardinality(Ahead(n))
           R == Requested(n, i)
<1>1. i \in 0..Cardinality(Ahead(n))
  BY MissingFrames, FS_Subset, FS_CardinalityType DEF Ahead
<1>2. last' = n /\ fetches < MaxFetches /\ Take(n, i)
  BY DEF Fetch
<1>3. /\ inflight' = [k \in Frames |-> IF k \in R THEN Name(n, k) ELSE Pruned(n)[k]]
      /\ Base(n) \in Nat
  <2> HIDE DEF i
  <2> QED BY <1>1, <1>2, TakeEffect
<1>4. SUFFICES ASSUME Prefetch > 0
               PROVE  /\ (n + 1)..Smaller(n + Prefetch, NumFrames - 1) \subseteq Held(inflight')
                      /\ Held(inflight') \subseteq (n + 1)..(n + Limit)
  BY <1>2 DEF WindowReady, Held
<1>5. R = Missing(n)
  BY <1>4, AllRequested
<1>6. \A k \in R : k \in Frames /\ n < k /\ k <= n + Prefetch /\ Name(n, k) \in Nat
  <2> HIDE DEF i
  <2>1. \A k \in R : Name(n, k) \in (Base(n) + 1)..(Base(n) + i) /\ i \in Nat
    BY <1>1, NamesOfRequested
  <2> QED BY <1>3, <1>5, <2>1, MissingFrames
<1> HIDE DEF R, i
<1> USE ProxyAssumption DEF ProxyAssumption
<1>7. ASSUME NEW k \in (n + 1)..Smaller(n + Prefetch, NumFrames - 1) PROVE k \in Held(inflight')
  <2>1. k \in Frames
    BY DEF Smaller, Frames
  <2>2. CASE Pruned(n)[k] = NoOne
    <3>1. k \in R
      BY <1>5, <2>2 DEF Missing
    <3> QED BY <1>3, <1>6, <2>1, <3>1 DEF Held
  <2>3. CASE Pruned(n)[k] # NoOne
    <3>1. k \notin R
      BY <1>5, <2>3, MissingFrames
    <3> QED BY <1>3, <2>1, <2>3, <3>1 DEF Held
  <2> QED BY <2>2, <2>3
<1>8. ASSUME NEW k \in Held(inflight') PROVE k \in (n + 1)..(n + Limit)
  <2>1. k \in Frames /\ k \in Nat /\ n \in Nat /\ Limit \in Nat /\ Prefetch <= Limit
    BY DEF Held, Frames, Limit
  <2>2. CASE k \in R
    BY <1>6, <2>1, <2>2
  <2>3. CASE k \notin R
    <3>1. Pruned(n)[k] # NoOne
      BY <1>3, <1>8, <2>1, <2>3 DEF Held
    <3>2. k # n /\ ~(k < n) /\ ~(k > n + Limit)
      BY <1>4, <2>1, <3>1 DEF Pruned, Stale
    <3> QED BY <2>1, <3>2
  <2> QED BY <2>2, <2>3
<1> QED BY <1>7, <1>8

\* In playback the frames of a fetch come after all that were requested before.
LEMMA FetchPlayback ==
  ASSUME TypeOK, MadeInv, WindowReady, PlaybackInv, NEW t \in Threads, NEW n \in Frames, Fetch(t, n)
  PROVE  PlaybackInv'
<1> DEFINE i == Cardinality(Ahead(n))
           R == Requested(n, i)
<1>1. i \in 0..Cardinality(Ahead(n))
  BY MissingFrames, FS_Subset, FS_CardinalityType DEF Ahead
<1>2. last' = n /\ fetches < MaxFetches /\ Take(n, i) /\ sought' = (sought \/ (last # NoOne /\ n # last + 1))
  BY DEF Fetch
<1> HIDE DEF i
<1> USE ProxyAssumption DEF ProxyAssumption
<1>3. SUFFICES ASSUME ~sought, last = NoOne \/ n = last + 1
               PROVE  /\ \A f \in 1..made' : about'[f] <= n + Prefetch
                      /\ \A f, g \in 1..made' : f < g => about'[f] < about'[g]
  <2>1. n # NoOne
    BY DEF Frames
  <2> QED BY <1>2, <2>1 DEF PlaybackInv
<1>4. /\ made' = Base(n) + i /\ made' \in Nat /\ Base(n) \in Nat /\ made <= Base(n)
      /\ \A f \in 1..made' : f \in Futures
      /\ about' \in [Futures -> Frames]
      /\ \A k \in R : about'[Name(n, k)] = k
      /\ inflight[n] = NoOne => about'[made + 1] = n
      /\ \A f \in Futures : f <= made => about'[f] = about[f]
      /\ \A f \in Futures : made < f /\ f <= made' =>
              (inflight[n] = NoOne /\ f = made + 1) \/ \E k \in R : Name(n, k) = f
  BY <1>1, <1>2, TakeEffect
<1>5. /\ R \subseteq Missing(n) /\ i \in Nat
      /\ \A k \in R : Name(n, k) \in (Base(n) + 1)..(Base(n) + i)
      /\ \A j, k \in R : Name(n, j) < Name(n, k) => j < k
  BY <1>1, NamesOfRequested
<1>6. \A k \in R : k \in Nat /\ k \in Frames /\ n < k /\ k <= n + Prefetch /\ Pruned(n)[k] = NoOne
  BY <1>5, MissingFrames
<1>7. n \in Nat /\ made \in Nat /\ (\A f \in Futures : f \in Nat) /\ NoOne \notin Nat
      /\ (last # NoOne => last \in Nat) /\ Prefetch \in Nat
      /\ \A f \in Futures : about[f] \in Nat /\ about'[f] \in Nat
  BY <1>4, SMTT(30) DEF Frames, TypeOK, FutureTypes, WindowTypes, Futures
<1>8. Base(n) = IF inflight[n] # NoOne THEN made ELSE made + 1
  BY DEF Base
<1>9. ASSUME NEW f \in 1..made PROVE last # NoOne /\ about[f] <= last + Prefetch /\ n = last + 1
  BY <1>3, <1>7 DEF PlaybackInv
<1>10. ASSUME NEW f \in 1..made, inflight[n] = NoOne PROVE about[f] < n
  <2>1. last # NoOne /\ about[f] <= last + Prefetch /\ n = last + 1
    BY <1>9
  <2>2. CASE Prefetch > 0
    <3>1. n \in (last + 1)..Smaller(last + Prefetch, NumFrames - 1)
      BY <1>7, <2>1, <2>2 DEF Smaller, Frames
    <3>2. n \in Held(inflight)
      BY <2>1, <2>2, <3>1 DEF WindowReady
    <3> QED BY <1>10, <3>2 DEF Held
  <2>3. CASE Prefetch = 0
    <3>1. f \in 1..made' /\ f \in Futures
      BY <1>4, <1>5, <1>7
    <3> QED BY <1>7, <2>1, <2>3, <3>1
  <2> QED BY <1>7, <2>2, <2>3
<1>11. ASSUME NEW f \in 1..made, NEW k \in R PROVE about[f] < k
  <2>1. last # NoOne /\ about[f] <= last + Prefetch /\ n = last + 1
    BY <1>9
  <2>2. ASSUME k <= last + Prefetch PROVE FALSE
    <3>1. Prefetch > 0 /\ k \in (last + 1)..Smaller(last + Prefetch, NumFrames - 1)
      BY <1>6, <1>7, <2>1, <2>2 DEF Smaller, Frames
    <3>2. k \in Held(inflight) /\ k \in (last + 1)..(last + Limit)
      BY <2>1, <3>1 DEF WindowReady
    <3>3. Limit \in Nat
      BY DEF Limit
    <3>4. k # n /\ ~Stale(n, k)
      BY <1>6, <1>7, <2>1, <3>2, <3>3 DEF Stale
    <3> QED BY <1>6, <3>2, <3>4 DEF Pruned, Held
  <2>3. f \in 1..made' /\ f \in Futures
    BY <1>4, <1>5, <1>7
  <2> QED BY <1>6, <1>7, <2>1, <2>2, <2>3
<1>12. ASSUME NEW f \in 1..made' PROVE about'[f] <= n + Prefetch
  <2>1. f \in Futures
    BY <1>4
  <2>2. CASE f <= made
    BY <1>4, <1>7, <1>9, <2>1, <2>2
  <2>3. CASE made < f
    BY <1>4, <1>6, <1>7, <2>1, <2>3
  <2> QED BY <1>7, <2>1, <2>2, <2>3
<1>13. ASSUME NEW f \in 1..made', NEW g \in 1..made', f < g PROVE about'[f] < about'[g]
  <2>1. f \in Futures /\ g \in Futures
    BY <1>4
  <2>2. CASE g <= made
    <3>1. f \in 1..made /\ g \in 1..made
      BY <1>7, <1>13, <2>2
    <3> QED BY <1>3, <1>4, <1>13, <2>1, <3>1 DEF PlaybackInv
  <2>3. CASE f <= made /\ made < g
    <3>1. f \in 1..made
      BY <1>7, <2>3
    <3> QED BY <1>4, <1>10, <1>11, <2>1, <2>3, <3>1
  <2>4. CASE made < f
    <3>1. made < g
      BY <1>7, <1>13, <2>1, <2>4
    <3>2. PICK k \in R : Name(n, k) = g
      <4>1. g # made + 1
        BY <1>7, <1>13, <2>1, <2>4
      <4> QED BY <1>4, <2>1, <3>1, <4>1
    <3>3. about'[g] = k
      BY <1>4, <3>2
    <3>4. CASE inflight[n] = NoOne /\ f = made + 1
      BY <1>4, <1>6, <3>3, <3>4
    <3>5. CASE \E j \in R : Name(n, j) = f
      BY <1>4, <1>5, <1>13, <3>2, <3>3, <3>5
    <3> QED BY <1>4, <2>1, <2>4, <3>4, <3>5
  <2> QED BY <1>7, <2>1, <2>2, <2>3, <2>4
<1> QED BY <1>12, <1>13
-----------------------------------------------------------------------------
\* ProxyInv holds at the start, and every step of fetch_frame, of the transport
\* and of the wait preserves it.
LEMMA ProxyInit == Init => ProxyInv
<1> SUFFICES ASSUME Init PROVE ProxyInv
  OBVIOUS
<1> USE ProxyAssumption DEF ProxyAssumption, Init
<1>1. 0 \in Frames /\ NoOne \notin Futures
  BY DEF Frames, Futures
<1>2. TypeOK
  <2>1. FutureTypes BY <1>1 DEF FutureTypes, States
  <2>2. ThreadTypes BY DEF ThreadTypes
  <2>3. WindowTypes
    <3>1. 0 \in 0..MaxFetches OBVIOUS
    <3> QED BY <3>1, Zenon DEF WindowTypes
  <2> QED BY <2>1, <2>2, <2>3 DEF TypeOK
<1>3. MadeInv
  <2>1. 0 <= fetches * (Prefetch + 1)
    OBVIOUS
  <2> QED BY <2>1 DEF MadeInv
<1>4. OwnerInv BY DEF OwnerInv, WaitersAreSafe
<1>5. WindowReady /\ PlaybackInv BY DEF WindowReady, PlaybackInv
<1> QED BY <1>2, <1>3, <1>4, <1>5 DEF ProxyInv

LEMMA ProxyStep == ProxyInv /\ [Next]_vars => ProxyInv'
<1> SUFFICES ASSUME ProxyInv, [Next]_vars PROVE ProxyInv'
  OBVIOUS
<1> USE DEF ProxyInv
<1>1. ASSUME NEW t \in Threads, NEW n \in Frames, Fetch(t, n) PROVE ProxyInv'
  BY <1>1, FetchOwners, FetchWindow, FetchPlayback
<1>2. ASSUME NEW t \in Threads, NEW n \in Frames, FetchRaises(t, n) PROVE ProxyInv'
  <2>1. last' = NoOne /\ sought' = TRUE BY <1>2 DEF FetchRaises
  <2> QED BY <1>2, <2>1, FetchRaisesOwners DEF WindowReady, PlaybackInv
<1>3. CASE (\E f \in Futures : Settle(f)) \/ (\E t \in Threads : Returns(t) \/ TimesOut(t))
  <2>1. UNCHANGED <<inflight, made, about, last, sought>>
    BY <1>3 DEF Settle, Returns, TimesOut
  <2>2. WindowReady' /\ PlaybackInv'
    BY <2>1 DEF WindowReady, PlaybackInv, Held
  <2> QED BY <1>3, <2>2, WaitOwners
<1>4. CASE UNCHANGED vars
  <2> USE <1>4 DEF vars
  <2>1. TypeOK' /\ MadeInv' BY DEF TypeOK, FutureTypes, ThreadTypes, WindowTypes, MadeInv
  <2>2. OwnerInv' BY DEF OwnerInv, WaitersAreSafe
  <2>3. WindowReady' /\ PlaybackInv' BY DEF WindowReady, PlaybackInv, Held
  <2> QED BY <2>1, <2>2, <2>3
<1> QED BY <1>1, <1>2, <1>3, <1>4 DEF Next
-----------------------------------------------------------------------------
\* A frame is from an earlier script when some load that has ended was not ahead
\* of its request.
LEMMA LoadsMet ==
  ASSUME NEW ends, NEW m \in Nat, NEW f
  PROVE  /\ Cardinality({l \in 1..m : ends[l] < f}) \in Nat
         /\ Cardinality({l \in 1..m : ends[l] < f}) < m <=> \E l \in 1..m : ~(ends[l] < f)
<1> DEFINE met == {l \in 1..m : ends[l] < f}
<1>1. IsFiniteSet(1..m) /\ Cardinality(1..m) = m
  <2>1. Cardinality(1..m) = IF 1 > m THEN 0 ELSE m - 1 + 1
    BY FS_Interval
  <2> QED BY <2>1, FS_Interval
<1>2. met \in SUBSET (1..m)
  OBVIOUS
<1>3. /\ Cardinality(met) \in Nat /\ Cardinality(met) <= m
      /\ Cardinality(met) = m => met = 1..m
  BY <1>1, <1>2, FS_Subset, FS_CardinalityType
<1>4. met = 1..m => Cardinality(met) = m
  BY <1>1
<1>5. met = 1..m <=> ~ \E l \in 1..m : ~(ends[l] < f)
  OBVIOUS
<1> HIDE DEF met
<1>6. Cardinality(met) < m <=> met # 1..m
  BY <1>3, <1>4
<1>7. Cardinality(met) \in Nat /\ (Cardinality(met) < m <=> \E l \in 1..m : ~(ends[l] < f))
  BY <1>3, <1>5, <1>6
<1> QED BY <1>7 DEF met

LEMMA EarlierScript ==
  ASSUME loads \in Nat, NEW f
  PROVE  /\ Script(f) \in Nat
         /\ Script(f) < loads <=> \E l \in 1..loads : ~(served[l] < f)
BY LoadsMet DEF Script

\* Taking frame n leaves no other stale frames in the window than there were.
LEMMA TakeStale ==
  ASSUME TypeOK, MadeInv, OwnerInv, SessionInv, fetches < MaxFetches,
         NEW n \in Frames, NEW i \in 0..Cardinality(Ahead(n)), Take(n, i),
         UNCHANGED <<served, loads>>
  PROVE  StaleHeld' \subseteq StaleHeld \ {n}
<1>1. /\ Base(n) \in Nat /\ made <= Base(n) /\ made \in Nat
      /\ inflight' = [k \in Frames |-> IF k \in Requested(n, i) THEN Name(n, k) ELSE Pruned(n)[k]]
  BY TakeEffect DEF TypeOK, FutureTypes
<1>2. /\ i \in Nat
      /\ \A k \in Requested(n, i) : Name(n, k) \in (Base(n) + 1)..(Base(n) + i)
  BY NamesOfRequested
<1>3. loads \in Nat /\ (\A l \in 1..loads : served[l] <= made /\ served[l] \in Nat)
  BY SessionAssumption DEF SessionInv, SessionAssumption
<1>4. \A f : Script(f)' = Script(f)
  BY DEF Script
<1> SUFFICES ASSUME NEW k \in StaleHeld' PROVE k \in StaleHeld \ {n}
  OBVIOUS
<1>5. k \in Frames /\ inflight'[k] # NoOne /\ Script(inflight'[k]) < loads
  BY <1>4 DEF StaleHeld, Held
<1>6. ASSUME k \in Requested(n, i) PROVE FALSE
  <2>1. inflight'[k] = Name(n, k) /\ Name(n, k) \in (Base(n) + 1)..(Base(n) + i)
    BY <1>1, <1>2, <1>5, <1>6
  <2>2. \A l \in 1..loads : served[l] < Name(n, k)
    BY <1>1, <1>3, <2>1
  <2> QED BY <1>3, <1>5, <2>1, <2>2, EarlierScript
<1>7. inflight'[k] = inflight[k] /\ k # n
  BY <1>1, <1>5, <1>6 DEF Pruned
<1> QED BY <1>5, <1>7 DEF StaleHeld, Held

\* What was made are futures, and each is for a frame.
LEMMA MadeFutures ==
  ASSUME TypeOK, MadeInv, NEW f \in 1..made
  PROVE  f \in Futures /\ f \in Nat /\ about[f] \in Nat
<1> DEFINE before == fetches * (Prefetch + 1)
           room   == MaxFetches * (Prefetch + 1)
<1>1. fetches \in Nat /\ MaxFetches \in Nat /\ Prefetch \in Nat /\ fetches <= MaxFetches
  BY ProxyAssumption DEF ProxyAssumption, TypeOK, WindowTypes
<1>2. before \in Nat /\ room \in Nat /\ before <= room
  <2>1. CASE fetches < MaxFetches
    <3>1. /\ before \in Nat /\ (fetches + 1) * (Prefetch + 1) = before + (Prefetch + 1)
          /\ (fetches + 1) * (Prefetch + 1) <= room
      BY <1>1, <2>1, RoomForFutures
    <3>2. room \in Nat
      BY <1>1
    <3> HIDE DEF before, room
    <3> QED BY <1>1, <3>1, <3>2
  <2>2. CASE fetches = MaxFetches
    BY <1>1, <2>2
  <2> QED BY <1>1, <2>1, <2>2
<1>3. made \in Nat /\ made <= before
  BY DEF MadeInv, TypeOK, FutureTypes
<1> HIDE DEF before, room
<1>4. f \in 1..room
  BY <1>2, <1>3
<1>5. f \in Futures
  BY <1>4 DEF Futures, room
<1> QED BY <1>3, <1>5 DEF TypeOK, FutureTypes, Frames

\* The stale frames in the window are finitely many.
LEMMA StaleFinite == IsFiniteSet(StaleHeld) /\ Cardinality(StaleHeld) \in Nat
<1>1. 0 \in Int /\ NumFrames - 1 \in Int
  BY ProxyAssumption DEF ProxyAssumption
<1>2. StaleHeld \in SUBSET (0..(NumFrames - 1))
  BY DEF StaleHeld, Held, Frames
<1> QED BY <1>1, <1>2, FS_Interval, FS_Subset, FS_CardinalityType

\* A fetch that is handed a stale frame has taken it out of the window.
LEMMA FetchesStale ==
  ASSUME ProxyInv, SessionInv, NEW t \in Threads, NEW n \in Frames, Fetches(t, n)
  PROVE  SessionInv'
<1> DEFINE i == Cardinality(Ahead(n))
<1>1. i \in 0..Cardinality(Ahead(n))
  BY MissingFrames, FS_Subset, FS_CardinalityType DEF Ahead
<1>2. fetches < MaxFetches /\ Take(n, i) /\ UNCHANGED <<served, loads, old>>
  BY DEF Fetches, Fetch
<1> HIDE DEF i
<1> USE DEF ProxyInv
<1>3. made \in Nat /\ made' \in Nat /\ made <= made'
  BY <1>1, <1>2, TakeOwners DEF TypeOK, FutureTypes
<1>4. StaleHeld' \subseteq StaleHeld \ {n}
  BY <1>1, <1>2, TakeStale
<1>5. /\ Cardinality(StaleHeld) \in Nat /\ Cardinality(StaleHeld') \in Nat
      /\ Cardinality(StaleHeld') <= IF n \in StaleHeld THEN Cardinality(StaleHeld) - 1 ELSE Cardinality(StaleHeld)
  <2>1. StaleHeld' \in SUBSET (StaleHeld \ {n})
    BY <1>4
  <2>2. /\ IsFiniteSet(StaleHeld \ {n})
        /\ Cardinality(StaleHeld \ {n}) =
             IF n \in StaleHeld THEN Cardinality(StaleHeld) - 1 ELSE Cardinality(StaleHeld)
    BY StaleFinite, FS_RemoveElement
  <2>3. Cardinality(StaleHeld') <= Cardinality(StaleHeld \ {n}) /\ Cardinality(StaleHeld') \in Nat
    BY <2>1, <2>2, FS_Subset, FS_CardinalityType
  <2> QED BY <2>2, <2>3, StaleFinite
<1>6. loads \in Nat /\ stale \in Nat /\ old \in Nat /\ stale + Cardinality(StaleHeld) <= old
      /\ \A l \in 1..loads : served[l] <= made /\ served[l] \in Nat
  BY SessionAssumption DEF SessionInv, SessionAssumption
<1>7. stale' = IF n \in StaleHeld THEN stale + 1 ELSE stale
  <2>1. stale' = IF loads > 0 /\ inflight[n] # NoOne /\ Script(Taken(n)) < loads THEN stale + 1 ELSE stale
    BY DEF Fetches
  <2>2. inflight[n] # NoOne => Taken(n) = inflight[n]
    BY DEF Taken
  <2>3. Script(inflight[n]) < loads => loads > 0
    BY <1>6, EarlierScript
  <2> QED BY <2>1, <2>2, <2>3 DEF StaleHeld, Held
<1>8. stale' \in Nat /\ stale' + Cardinality(StaleHeld') <= old
  BY <1>5, <1>6, <1>7
<1>9. \A l \in 1..loads : served[l] <= made'
  BY <1>3, <1>6
<1> QED BY <1>2, <1>8, <1>9 DEF SessionInv

\* When a load ends, what the window holds of earlier scripts is counted anew.
LEMMA LoadEndsStale == ProxyInv /\ SessionInv /\ LoadEnds => SessionInv'
<1> SUFFICES ASSUME ProxyInv, SessionInv, LoadEnds PROVE SessionInv'
  OBVIOUS
<1>1. PICK k \in Served : /\ served' = [served EXCEPT ![loads + 1] = k]
                          /\ old' = Cardinality({n \in Held(inflight) : inflight[n] <= k})
  BY DEF LoadEnds
<1>2. loads < MaxLoads /\ loads' = loads + 1 /\ stale' = 0 /\ UNCHANGED <<inflight, made>>
  BY DEF LoadEnds, vars
<1>3. made \in Nat /\ k \in Nat /\ k <= made /\ \A l \in 1..loads : served[l] <= k
  BY DEF ProxyInv, TypeOK, FutureTypes, Served
<1>4. loads \in Nat /\ MaxLoads \in Nat /\ served \in [1..MaxLoads -> Nat]
  BY SessionAssumption DEF SessionAssumption, SessionInv
<1>5. /\ \A l \in 1..loads : served'[l] = served[l] /\ served[l] \in Nat
      /\ served'[loads + 1] = k /\ loads' \in 0..MaxLoads /\ served' \in [1..MaxLoads -> Nat]
      /\ \A l \in 1..loads' : l \in 1..loads \/ l = loads + 1
  BY <1>1, <1>2, <1>3, <1>4
<1>6. \A l \in 1..loads' : served'[l] <= k /\ served'[l] \in Nat
  BY <1>3, <1>5
<1> DEFINE kept == {n \in Held(inflight) : inflight[n] <= k}
<1>7. IsFiniteSet(kept) /\ Cardinality(kept) \in Nat
  <2>1. 0 \in Int /\ NumFrames - 1 \in Int
    BY ProxyAssumption DEF ProxyAssumption
  <2>2. kept \in SUBSET (0..(NumFrames - 1))
    BY DEF Held, Frames
  <2> QED BY <2>1, <2>2, FS_Interval, FS_Subset, FS_CardinalityType
<1>8. StaleHeld' \subseteq kept
  <2> SUFFICES ASSUME NEW n \in StaleHeld' PROVE n \in kept
    OBVIOUS
  <2>1. n \in Frames /\ inflight[n] # NoOne /\ Script(inflight[n])' < loads'
    BY <1>2 DEF StaleHeld, Held, Script
  <2>2. inflight[n] \in Nat
    BY <2>1 DEF ProxyInv, TypeOK, WindowTypes, Futures
  <2>3. \E l \in 1..loads' : ~(served'[l] < inflight[n])
    <3>1. loads' \in Nat
      BY <1>5
    <3>2. Cardinality({l \in 1..loads' : served'[l] < inflight[n]}) < loads'
      BY <1>2, <2>1 DEF Script
    <3> QED BY <3>1, <3>2, LoadsMet
  <2> QED BY <1>3, <1>6, <2>1, <2>2, <2>3 DEF Held
<1>9. Cardinality(StaleHeld') <= Cardinality(kept) /\ Cardinality(StaleHeld') \in Nat
  <2>1. StaleHeld' \in SUBSET kept
    BY <1>8
  <2> QED BY <1>7, <2>1, FS_Subset, FS_CardinalityType
<1>10. \A l \in 1..loads' : served'[l] <= made'
  BY <1>2, <1>3, <1>6
<1> QED BY <1>1, <1>2, <1>5, <1>7, <1>9, <1>10 DEF SessionInv

\* The window and the count keep their balance in every step of a session.
LEMMA SessionStep ==
  ProxyInv /\ SessionInv /\ [SessionNext]_<<vars, sessionVars>> => ProxyInv' /\ SessionInv'
<1> SUFFICES ASSUME ProxyInv, SessionInv, [SessionNext]_<<vars, sessionVars>>
             PROVE  ProxyInv' /\ SessionInv'
  OBVIOUS
<1>1. ProxyInv'
  BY ProxyStep DEF SessionNext, Fetches, LoadEnds, Next
<1>2. ASSUME NEW t \in Threads, NEW n \in Frames, Fetches(t, n) PROVE SessionInv'
  BY <1>2, FetchesStale
<1>3. ASSUME NEW t \in Threads, NEW n \in Frames, FetchRaises(t, n), UNCHANGED sessionVars
      PROVE  SessionInv'
  <2>1. PICK i \in 0..Cardinality(Ahead(n)) : Take(n, i)
    BY <1>3 DEF FetchRaises
  <2>2. fetches < MaxFetches /\ UNCHANGED <<served, loads, old, stale>>
    BY <1>3 DEF FetchRaises, sessionVars
  <2> USE DEF ProxyInv
  <2>3. made \in Nat /\ made' \in Nat /\ made <= made'
    BY <2>1, <2>2, TakeOwners DEF TypeOK, FutureTypes
  <2>4. StaleHeld' \in SUBSET StaleHeld
    BY <2>1, <2>2, TakeStale
  <2>5. Cardinality(StaleHeld') \in Nat /\ Cardinality(StaleHeld') <= Cardinality(StaleHeld)
        /\ Cardinality(StaleHeld) \in Nat
    BY <2>4, StaleFinite, FS_Subset, FS_CardinalityType
  <2>6. stale \in Nat /\ old \in Nat /\ stale + Cardinality(StaleHeld) <= old
        /\ \A l \in 1..loads : served[l] <= made /\ served[l] \in Nat
    BY SessionAssumption DEF SessionInv, SessionAssumption
  <2>7. stale + Cardinality(StaleHeld') <= old
    BY <2>5, <2>6
  <2>8. \A l \in 1..loads : served[l] <= made'
    BY <2>3, <2>6
  <2> QED BY <2>2, <2>7, <2>8 DEF SessionInv
<1>4. ASSUME UNCHANGED <<inflight, made, sessionVars>> PROVE SessionInv'
  BY <1>4 DEF SessionInv, StaleHeld, Held, Script, sessionVars
<1>5. ASSUME NEW t \in Threads, Returns(t) \/ TimesOut(t), UNCHANGED sessionVars PROVE SessionInv'
  BY <1>4, <1>5 DEF Returns, TimesOut
<1>6. ASSUME NEW f \in Futures, Settle(f), UNCHANGED sessionVars PROVE SessionInv'
  BY <1>4, <1>6 DEF Settle
<1>7. CASE UNCHANGED <<vars, sessionVars>>
  BY <1>1, <1>4, <1>7 DEF vars
<1>8. CASE LoadEnds
  BY <1>1, <1>8, LoadEndsStale
<1> QED BY <1>1, <1>2, <1>3, <1>5, <1>6, <1>7, <1>8 DEF SessionNext

\* Both invariants hold throughout.
LEMMA SessionInvariant == SessionSpec => [](ProxyInv /\ SessionInv)
<1>1. SessionInit => ProxyInv /\ SessionInv
  <2> SUFFICES ASSUME SessionInit PROVE ProxyInv /\ SessionInv
    OBVIOUS
  <2> USE DEF SessionInit
  <2>1. ProxyInv BY ProxyInit
  <2>2. StaleHeld = {} BY DEF Init, StaleHeld, Held
  <2>3. Cardinality(StaleHeld) = 0 BY <2>2, FS_EmptySet
  <2>4. made \in Nat BY <2>1 DEF ProxyInv, TypeOK, FutureTypes
  <2> QED BY <2>1, <2>3, <2>4, SessionAssumption DEF SessionInv, SessionAssumption
<1> QED BY <1>1, SessionStep, PTL DEF SessionSpec

\* Every variable of the node keeps its type; there are futures enough for every
\* call of fetch_frame.
THEOREM NodeTypeCorrect == SessionSpec => []TypeOK
<1>1. ProxyInv => TypeOK BY DEF ProxyInv
<1> QED BY <1>1, SessionInvariant, PTL

\* Old prefetches never use up the backlog that the next frames need.
THEOREM NextFramesUnderWay == SessionSpec => []WindowReady
<1>1. ProxyInv => WindowReady BY DEF ProxyInv
<1> QED BY <1>1, SessionInvariant, PTL

\* No thread waits on a future that another thread's pruning has cancelled, and
\* each gets the frame it asked for.
THEOREM ThreadsGetTheirFrames == SessionSpec => []WaitersAreSafe
<1>1. ProxyInv => WaitersAreSafe BY DEF ProxyInv, OwnerInv
<1> QED BY <1>1, SessionInvariant, PTL

\* A request under way has one owner.
THEOREM RequestsHaveOneOwner == SessionSpec => []OneOwner
<1>1. ProxyInv => OneOwner BY OwnersDiffer DEF ProxyInv
<1> QED BY <1>1, SessionInvariant, PTL

\* Played forward, no frame is requested twice.
THEOREM PlaybackRequestsOnce == SessionSpec => []PlaybackAsksOnce
<1>1. ProxyInv => PlaybackAsksOnce
  <2> SUFFICES ASSUME ProxyInv, ~sought, NEW f \in 1..made, NEW g \in 1..made, about[f] = about[g]
               PROVE  f = g
    BY DEF PlaybackAsksOnce
  <2> USE DEF ProxyInv
  <2>1. ~(f < g) /\ ~(g < f)
    BY MadeFutures DEF PlaybackInv
  <2>2. f \in Int /\ g \in Int
    BY DEF TypeOK, FutureTypes
  <2> QED BY <2>1, <2>2
<1> QED BY <1>1, SessionInvariant, PTL

\* Played forward, a later frame never comes from an earlier script.
THEOREM ScriptsAdvance == SessionSpec => []PlayedForward
<1>1. ProxyInv /\ SessionInv => PlayedForward
  <2> SUFFICES ASSUME ProxyInv, SessionInv, ~sought,
                      NEW f \in 1..made, NEW g \in 1..made, about[f] < about[g]
               PROVE  Script(f) <= Script(g)
    BY DEF PlayedForward
  <2>1. f \in Nat /\ g \in Nat /\ about[f] \in Nat /\ about[g] \in Nat
    BY MadeFutures DEF ProxyInv
  <2>2. ~(g < f) /\ f # g
    BY <2>1 DEF ProxyInv, PlaybackInv
  <2>3. loads \in Nat /\ \A l \in 1..loads : served[l] \in Nat
    BY SessionAssumption DEF SessionInv, SessionAssumption
  <2>4. {l \in 1..loads : served[l] < f} \in SUBSET {l \in 1..loads : served[l] < g}
    <3>1. \A l \in 1..loads : served[l] < f => served[l] < g
      BY <2>1, <2>2, <2>3
    <3> QED BY <3>1
  <2>5. IsFiniteSet({l \in 1..loads : served[l] < g})
    <3>1. IsFiniteSet(1..loads) BY <2>3, FS_Interval
    <3> QED BY <3>1, FS_Subset
  <2> QED BY <2>4, <2>5, FS_Subset DEF Script
<1> QED BY <1>1, SessionInvariant, PTL

\* No more frames of an earlier script are shown than were prefetched of it.
THEOREM StaleFramesAreBounded == SessionSpec => []StaleFramesRunOut
<1>1. SessionInv => StaleFramesRunOut
  BY StaleFinite DEF SessionInv, StaleFramesRunOut
<1> QED BY <1>1, SessionInvariant, PTL
=============================================================================
