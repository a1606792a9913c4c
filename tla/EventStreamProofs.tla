-------------------------- MODULE EventStreamProofs --------------------------
(***************************************************************************)
(* Proofs about EventStream: the invariant StreamInv is inductive for any  *)
(* number of clients, events and loads and any length of the history.      *)
(***************************************************************************)
EXTENDS EventStream, FiniteSetTheorems, TLAPS

\* A set that is listed has each of its elements in one place.
LEMMA Listed ==
  ASSUME NEW S, IsFiniteSet(S)
  PROVE  /\ SetToSeq(S) \in [1..Cardinality(S) -> S] /\ Cardinality(S) \in Nat
         /\ \A i, j \in 1..Cardinality(S) : SetToSeq(S)[i] = SetToSeq(S)[j] => i = j
         /\ \A c \in S : \E i \in 1..Cardinality(S) : SetToSeq(S)[i] = c
<1> DEFINE n == Cardinality(S)
<1>1. n \in Nat
  BY FS_CardinalityType
<1>2. \E f \in [1..n -> S] : IsInjective(f)
  BY FS_CardinalityType DEF ExistsBijection, Bijection, Injection
<1>3. SetToSeq(S) \in [1..n -> S] /\ IsInjective(SetToSeq(S))
  BY <1>2 DEF SetToSeq
<1>4. SetToSeq(S) \in Surjection(1..n, S)
  <2>1. IsFiniteSet(1..n) /\ Cardinality(1..n) = n
    BY <1>1, FS_Interval
  <2> QED
    BY <1>3, <2>1, FS_Injection DEF Injection
<1> QED
  BY <1>1, <1>3, <1>4 DEF IsInjective, Surjection

\* What a task joins at the end of a queue changes nothing before it.
LEMMA Joined ==
  ASSUME NEW S, NEW s \in Seq(S), NEW t \in S
  PROVE  /\ Append(s, t) \in Seq(S) /\ Len(s) \in Nat
         /\ DOMAIN s = 1..Len(s) /\ DOMAIN Append(s, t) = 1..(Len(s) + 1)
         /\ \A i \in DOMAIN s : i \in DOMAIN Append(s, t) /\ Append(s, t)[i] = s[i]
         /\ Len(s) + 1 \in DOMAIN Append(s, t) /\ Append(s, t)[Len(s) + 1] = t
OBVIOUS

\* The first of a queue has one thing less to do and goes to the end, if it has
\* something left; the others move up.
Rotation(s, q) ==
  /\ q \in Seq(Tasks) /\ Len(s) \in Nat /\ 1 \in DOMAIN s /\ 1 \in DOMAIN s[1].todo
  /\ \A i \in DOMAIN q :
       \/ i + 1 \in DOMAIN s /\ q[i] = s[i + 1]
       \/ /\ i = Len(s) /\ Len(s[1].todo) > 1 /\ q[i].client = s[1].client
          /\ Len(q[i].todo) = Len(s[1].todo) - 1 /\ q[i].todo # <<>>
          /\ \A j \in DOMAIN q[i].todo : j + 1 \in DOMAIN s[1].todo /\ q[i].todo[j] = s[1].todo[j + 1]
  /\ \A i \in DOMAIN s : i # 1 => i - 1 \in DOMAIN q /\ q[i - 1] = s[i]
  /\ \A j \in DOMAIN s[1].todo : j # 1 =>
       Len(s) \in DOMAIN q /\ j - 1 \in DOMAIN q[Len(s)].todo /\ q[Len(s)].todo[j - 1] = s[1].todo[j]

\* That is what taking the first and putting back its rest does.
LEMMA Rotated ==
  ASSUME NEW s \in Seq(Tasks), s # <<>>, s[1].todo # <<>>,
         NEW q, q = IF Tail(Head(s).todo) = <<>> THEN Tail(s)
                    ELSE Append(Tail(s), [Head(s) EXCEPT !.todo = Tail(Head(s).todo)])
  PROVE  Rotation(s, q)
<1> DEFINE M == [to : Clients, what : Nat]
           n == Len(s)
           todo == s[1].todo
           rest == Tail(todo)
           t == [s[1] EXCEPT !.todo = rest]
<1>1. s[1] \in Tasks /\ Head(s) = s[1] /\ Tail(s) \in Seq(Tasks) /\ n \in Nat \ {0}
  OBVIOUS
<1>2. todo \in Seq(M) /\ todo # <<>> /\ DOMAIN s = 1..n
  BY <1>1 DEF Tasks
<1>3. /\ rest \in Seq(M) /\ Len(todo) \in Nat \ {0} /\ Len(rest) = Len(todo) - 1
      /\ \A j \in 1..(Len(todo) - 1) : rest[j] = todo[j + 1]
      /\ DOMAIN rest = 1..(Len(todo) - 1) /\ DOMAIN todo = 1..Len(todo)
  <2> HIDE DEF M, todo
  <2> QED
    BY <1>2
<1>4. /\ DOMAIN Tail(s) = 1..(n - 1) /\ Len(Tail(s)) = n - 1
      /\ \A i \in 1..(n - 1) : Tail(s)[i] = s[i + 1]
  BY <1>1
<1>5. q = IF rest = <<>> THEN Tail(s) ELSE Append(Tail(s), t)
  BY <1>1
<1>6. t \in Tasks /\ t.todo = rest /\ t.client = s[1].client
  BY <1>1, <1>3 DEF Tasks
<1>7. /\ \A j \in DOMAIN rest : j + 1 \in DOMAIN todo /\ rest[j] = todo[j + 1]
      /\ \A j \in DOMAIN todo : j # 1 => j - 1 \in DOMAIN rest /\ rest[j - 1] = todo[j]
      /\ 1 \in DOMAIN todo
  <2> HIDE DEF rest, todo
  <2> DEFINE m == Len(todo)
  <2>1. m \in Nat \ {0} /\ DOMAIN rest = 1..(m - 1) /\ DOMAIN todo = 1..m
        /\ \A j \in 1..(m - 1) : rest[j] = todo[j + 1]
    BY <1>3
  <2> HIDE DEF m
  <2> QED
    BY ONLY <2>1
<1> HIDE DEF n, t, rest, todo
<1>8. CASE rest = <<>>
  <2>1. q = Tail(s) /\ Len(todo) = 1 /\ Len(rest) = 0 /\ DOMAIN q = 1..(n - 1)
    BY <1>3, <1>4, <1>5, <1>8
  <2>2. /\ \A i \in DOMAIN q : i + 1 \in DOMAIN s /\ q[i] = s[i + 1]
        /\ \A i \in DOMAIN s : i # 1 => i - 1 \in DOMAIN q /\ q[i - 1] = s[i]
        /\ 1 \in DOMAIN s
    BY ONLY <1>1, <1>2, <1>4, <2>1
  <2>3. \A j \in DOMAIN todo : j = 1
    BY ONLY <1>3, <2>1
  <2> QED
    BY <1>1, <1>7, <2>1, <2>2, <2>3 DEF todo, n, Rotation
<1>9. CASE rest # <<>>
  <2>1. q = Append(Tail(s), t) /\ Len(todo) > 1
    BY <1>3, <1>5, <1>9, SMTT(30)
  <2>2. /\ q \in Seq(Tasks) /\ DOMAIN q = 1..((n - 1) + 1) /\ q[(n - 1) + 1] = t
        /\ \A i \in DOMAIN Tail(s) : i \in DOMAIN q /\ q[i] = Tail(s)[i]
    BY ONLY <1>1, <1>4, <1>6, <2>1, Joined
  <2>3. DOMAIN q = 1..n /\ q[n] = t /\ \A i \in 1..(n - 1) : q[i] = s[i + 1]
    BY ONLY <1>1, <1>4, <2>2
  <2>4. /\ \A i \in DOMAIN s : i # 1 => i - 1 \in DOMAIN q /\ q[i - 1] = s[i]
        /\ \A i \in DOMAIN q : i # n => i + 1 \in DOMAIN s /\ q[i] = s[i + 1]
        /\ 1 \in DOMAIN s /\ n \in DOMAIN q
    BY ONLY <1>1, <1>2, <2>3
  <2>5. q[n].todo = rest /\ q[n].client = s[1].client
    BY <1>6, <2>3
  <2> QED
    BY <1>1, <1>3, <1>7, <1>9, <2>1, <2>2, <2>4, <2>5 DEF todo, n, Rotation
<1> QED
  BY <1>8, <1>9
-----------------------------------------------------------------------------
(* What the event loop puts into the queue *)

\* The recipients of a broadcast: each subscriber once.
LEMMA RecipientsListed ==
  ASSUME StreamTypes
  PROVE  /\ Len(Recipients) = Cardinality(subscribers) /\ Len(Recipients) \in Nat
         /\ DOMAIN Recipients = 1..Len(Recipients)
         /\ \A i \in 1..Len(Recipients) : Recipients[i] \in subscribers
         /\ \A i, j \in 1..Len(Recipients) : Recipients[i] = Recipients[j] => i = j
         /\ \A c \in subscribers : \E i \in 1..Len(Recipients) : Recipients[i] = c
<1>1. IsFiniteSet(subscribers)
  BY DEF StreamTypes
<1>2. /\ Recipients \in [1..Cardinality(subscribers) -> subscribers] /\ Cardinality(subscribers) \in Nat
      /\ \A i, j \in 1..Cardinality(subscribers) : Recipients[i] = Recipients[j] => i = j
      /\ \A c \in subscribers : \E i \in 1..Cardinality(subscribers) : Recipients[i] = c
  BY <1>1, Listed DEF Recipients
<1>3. Len(Recipients) = Cardinality(subscribers)
  BY <1>2
<1> QED
  BY <1>2, <1>3

\* A broadcast is a task with the first of the posted events for everyone.
LEMMA BroadcastTask ==
  ASSUME StreamTypes, NumberInv, Broadcast, subscribers # {}
  PROVE  \E t \in Tasks :
           /\ sendq' = Append(sendq, t)
           /\ Shaped(t) /\ IsBroadcast(t) /\ InTurn(t) /\ t.todo[1].what = posted[1]
           /\ Len(t.todo) = Len(Recipients)
           /\ \A c \in subscribers : \E j \in DOMAIN t.todo : t.todo[j].to = c /\ t.todo[j].what = posted[1]
<1> DEFINE R == Recipients
           todo == [i \in DOMAIN R |-> [to |-> R[i], what |-> Head(posted)]]
           t == [client |-> NoOne, todo |-> todo]
           N == Len(R)
<1>1. /\ N \in Nat /\ DOMAIN R = 1..N /\ \A i \in 1..N : R[i] \in Clients
      /\ \A c \in subscribers : \E i \in 1..N : R[i] = c
  BY RecipientsListed DEF StreamTypes
<1>2. N \in Nat \ {0}
  BY <1>1
<1>3. Head(posted) = posted[1] /\ posted[1] \in 1..emitted /\ posted[1] \in Nat \ {0}
  <2>1. posted \in Seq(Nat) /\ posted # <<>> /\ emitted \in Nat
    BY DEF StreamTypes, Broadcast
  <2>2. Head(posted) = posted[1] /\ 1 \in DOMAIN posted
    BY <2>1
  <2> QED
    BY <2>1, <2>2 DEF NumberInv
<1>4. sendq' = Append(sendq, t)
  BY DEF Broadcast, Waits
<1> HIDE DEF R, N
<1>5. /\ todo \in Seq([to : Clients, what : Nat]) /\ DOMAIN todo = 1..N /\ Len(todo) = N
      /\ \A j \in 1..N : todo[j].to = R[j] /\ todo[j].what = posted[1]
  BY <1>1, <1>2, <1>3
<1> HIDE DEF todo
<1>6. t \in Tasks /\ t.todo = todo /\ t.client = NoOne
  BY <1>5 DEF Tasks
<1> HIDE DEF t
<1>7. IsBroadcast(t) /\ t.todo[1].what = posted[1]
  BY <1>2, <1>3, <1>5, <1>6 DEF IsBroadcast, Ok
<1>8. Shaped(t)
  <2>1. emitted \in Nat /\ posted[1] \in 0..emitted
    BY <1>3 DEF StreamTypes
  <2> QED
    BY <1>2, <1>5, <1>6, <1>7, <2>1 DEF Shaped
<1>9. InTurn(t)
  <2>1. Len(R) - Len(t.todo) = 0 /\ \A j \in DOMAIN t.todo : t.todo[j].to = R[0 + j]
    BY <1>1, <1>5, <1>6 DEF N
  <2> QED
    BY <2>1 DEF InTurn, R
<1>10. ASSUME NEW c \in subscribers
       PROVE  \E j \in DOMAIN t.todo : t.todo[j].to = c /\ t.todo[j].what = posted[1]
  BY <1>1, <1>5, <1>6
<1>11. Len(t.todo) = Len(Recipients)
  BY <1>5, <1>6 DEF R, N
<1> QED
  BY <1>4, <1>6, <1>7, <1>8, <1>9, <1>10, <1>11

\* A reply is a task of its own, or the first part of that of a new subscriber.
LEMMA ReplyTask ==
  ASSUME StreamTypes, NEW c \in Clients, NEW who \in {c, NoOne}, Waits(who, <<[to |-> c, what |-> Ok]>>)
  PROVE  \E t \in Tasks : /\ sendq' = Append(sendq, t) /\ Shaped(t) /\ ~IsBroadcast(t)
                          /\ t.client = who /\ t.todo[1].what = Ok
<1> DEFINE t == [client |-> who, todo |-> <<[to |-> c, what |-> Ok]>>]
<1>1. t \in Tasks /\ sendq' = Append(sendq, t)
  BY DEF Tasks, Waits, Ok
<1>2. ~IsBroadcast(t) /\ t.client = who /\ t.todo[1].what = Ok
  BY DEF IsBroadcast
<1>3. Shaped(t)
  BY <1>2 DEF Shaped, StreamTypes, Ok
<1> HIDE DEF t
<1> QED
  BY <1>1, <1>2, <1>3

\* The history goes to the one who read it.
LEMMA HistoryTask ==
  ASSUME StreamTypes, NumberInv, ReadHistory, history # <<>>
  PROVE  \E t \in Tasks :
           /\ sendq' = Append(sendq, t) /\ Shaped(t) /\ ~IsBroadcast(t) /\ t.client = reading
           /\ \A e \in ToSet(history) : \E j \in DOMAIN t.todo : t.todo[j].to = reading /\ t.todo[j].what = e
<1> DEFINE todo == [i \in DOMAIN history |-> [to |-> reading, what |-> history[i]]]
           t == [client |-> reading, todo |-> todo]
<1>1. reading \in Replaying /\ reading \in Clients /\ reading # NoOne
  BY StreamAssumption DEF ReadHistory, StreamTypes
<1>2. /\ history \in Seq(Nat) /\ emitted \in Nat /\ \A i \in DOMAIN history : history[i] \in 0..emitted
  BY DEF StreamTypes, NumberInv
<1>3. sendq' = Append(sendq, t)
  BY DEF ReadHistory, Waits
<1>4. /\ todo \in Seq([to : Clients, what : Nat]) /\ DOMAIN todo = DOMAIN history /\ todo # <<>>
      /\ \A j \in DOMAIN todo : todo[j].to = reading /\ todo[j].what = history[j]
  <2>1. Len(history) \in Nat \ {0} /\ DOMAIN history = 1..Len(history) /\ \A i \in DOMAIN history : history[i] \in Nat
    BY <1>2
  <2>2. todo \in [1..Len(history) -> [to : Clients, what : Nat]]
    BY <1>1, <2>1
  <2> QED
    BY <2>1, <2>2, SMTT(30)
<1> HIDE DEF todo
<1>5. t \in Tasks /\ t.todo = todo /\ t.client = reading
  BY <1>1, <1>4 DEF Tasks
<1> HIDE DEF t
<1>6. ~IsBroadcast(t)
  BY <1>1, <1>5 DEF IsBroadcast
<1>7. Shaped(t)
  BY <1>1, <1>2, <1>4, <1>5, <1>6 DEF Shaped
<1>8. \A e \in ToSet(history) : \E j \in DOMAIN t.todo : t.todo[j].to = reading /\ t.todo[j].what = e
  BY <1>4, <1>5 DEF ToSet
<1> QED
  BY <1>3, <1>5, <1>6, <1>7, <1>8

\* Send moves the queue on.
LEMMA SentOn ==
  ASSUME StreamTypes, TaskInv, Send
  PROVE  Rotation(sendq, sendq')
<1>1. sendq \in Seq(Tasks) /\ sendq # <<>>
  BY DEF StreamTypes, Send
<1>2. sendq[1].todo # <<>>
  BY <1>1 DEF TaskInv, Shaped
<1>3. sendq' = IF Tail(Head(sendq).todo) = <<>> THEN Tail(sendq)
               ELSE Append(Tail(sendq), [Head(sendq) EXCEPT !.todo = Tail(Head(sendq).todo)])
  BY DEF Send
<1> QED
  BY <1>1, <1>2, <1>3, Rotated

\* The message that is sent, and what becomes of it.
LEMMA SentWhat ==
  ASSUME StreamTypes, TaskInv, Send
  PROVE  /\ reading = NoOne /\ sendq[1] \in Tasks /\ sendq[1].todo[1] \in [to : Clients, what : Nat]
         /\ Deliver(sendq[1].todo[1])
         /\ IF sendq[1].todo[1].what = Ok /\ sendq[1].client \in Replaying
              THEN reading' = sendq[1].client /\ subscription' = subscription
              ELSE reading' = NoOne /\ (subscription' = subscription \/ Done(sendq[1].client))
         /\ UNCHANGED <<loadVars, posted, subscribers, client, changed>>
<1>1. sendq \in Seq(Tasks) /\ sendq # <<>> /\ Head(sendq) = sendq[1] /\ sendq[1] \in Tasks /\ 1 \in DOMAIN sendq
  BY DEF StreamTypes, Send
<1>2. sendq[1].todo \in Seq([to : Clients, what : Nat]) /\ sendq[1].todo # <<>>
  BY <1>1 DEF Tasks, TaskInv, Shaped
<1>3. Head(sendq[1].todo) = sendq[1].todo[1] /\ sendq[1].todo[1] \in [to : Clients, what : Nat]
  <2> DEFINE M == [to : Clients, what : Nat]
             todo == sendq[1].todo
  <2>1. todo \in Seq(M) /\ todo # <<>>
    BY <1>2
  <2> HIDE DEF M, todo
  <2>2. Head(todo) = todo[1] /\ todo[1] \in M
    BY ONLY <2>1
  <2> QED
    BY <2>2 DEF M, todo
<1> QED
  BY <1>1, <1>3 DEF Send, LoopFree
-----------------------------------------------------------------------------
(* Types, numbers and tasks *)

\* In the beginning nothing has happened.
LEMMA StartsStill == Init => StreamInv
<1> SUFFICES ASSUME Init PROVE StreamInv
  OBVIOUS
<1>1. IsFiniteSet(subscribers)
  BY FS_EmptySet DEF Init
<1>2. StreamTypes
  <2>1. <<>> \in Seq(Nat) /\ <<>> \in Seq(Tasks)
    OBVIOUS
  <2>2. got \in [Clients -> Seq(Nat)]
    BY <2>1 DEF Init
  <2> QED
    BY <1>1, <2>1, <2>2 DEF Init, StreamTypes
<1>3. NumberInv /\ TaskInv /\ MissInv /\ OrderInv /\ TurnInv /\ GotInv
  BY DEF Init, NumberInv, TaskInv, MissInv, OrderInv, TurnInv, GotInv
<1> QED
  BY <1>2, <1>3 DEF StreamInv

\* What a client receives is put after what it has.
LEMMA Delivered ==
  ASSUME StreamTypes, NEW m \in [to : Clients, what : Nat], Deliver(m)
  PROVE  /\ got' \in [Clients -> Seq(Nat)]
         /\ \A c \in Clients : got'[c] = got[c] \/ (got'[c] = Append(got[c], m.what) /\ m.to = c /\ m.what # Ok)
         /\ m.what # Ok /\ client[m.to] # "gone" => got'[m.to] = Append(got[m.to], m.what)
<1>1. got \in [Clients -> Seq(Nat)] /\ m.to \in Clients /\ m.what \in Nat
  BY DEF StreamTypes
<1>2. Append(got[m.to], m.what) \in Seq(Nat)
  BY <1>1
<1> QED
  BY <1>1, <1>2 DEF Deliver

\* The queue is a queue of tasks when another task has joined it.
LEMMA JoinTyped ==
  ASSUME StreamTypes, NEW t \in Tasks, sendq' = Append(sendq, t)
  PROVE  sendq' \in Seq(Tasks)
<1>1. sendq \in Seq(Tasks)
  BY DEF StreamTypes
<1> QED
  BY <1>1, Joined

\* An event is noted, by the thread of the script or by another one.
Noting(e) == (NoteOwn /\ e = own) \/ (e \in noting /\ Note(e))

LEMMA NotedWhat ==
  ASSUME StreamTypes, NEW e, Noting(e)
  PROVE  /\ e \in 1..emitted /\ e \in Nat /\ history \in Seq(Nat)
         /\ history' = Append(history, e) \/ history' = Tail(Append(history, e))
         /\ e \in Noted /\ own' \in {own, NoOne} /\ noting' \subseteq noting
         /\ UNCHANGED <<emitted, late, loads, loading, serverVars>>
<1>0. emitted \in Nat /\ history \in Seq(Nat) /\ own \in (1..emitted) \cup {NoOne} /\ noting \subseteq 1..emitted
  BY DEF StreamTypes
<1>1. e \in 1..emitted /\ e \in Nat /\ e # NoOne
  <2>1. e \in 1..emitted
    BY <1>0 DEF Noting, NoteOwn
  <2>2. e \in Nat
    BY <1>0, <2>1
  <2> QED
    BY <2>1, <2>2, StreamAssumption DEF StreamAssumption
<1>2. e \in Noted
  BY <1>1 DEF Noting, Noted
<1>3. history' = Append(history, e) \/ history' = Tail(Append(history, e))
  BY DEF Noting, NoteOwn, Note, Kept
<1>4. own' \in {own, NoOne} /\ noting' \subseteq noting
      /\ UNCHANGED <<emitted, late, loads, loading, serverVars>>
  BY DEF Noting, NoteOwn, Note
<1> QED
  BY <1>0, <1>1, <1>2, <1>3, <1>4

\* Every step keeps the types.
LEMMA StepKeepsTypes ==
  ASSUME StreamTypes, NumberInv, TaskInv, Next
  PROVE  StreamTypes'
<1> USE StreamAssumption
<1>1. CASE BeginLoad
  BY <1>1 DEF BeginLoad, serverVars, StreamTypes
<1>2. CASE Emit
  <2>1. emitted + 1 \in Nat /\ posted \in Seq(Nat) /\ emitted \in Nat
    BY DEF StreamTypes
  <2>2. posted' \in Seq(Nat)
    BY <1>2, <2>1 DEF Emit, Post
  <2>3. /\ noting' \subseteq 1..emitted' /\ emitted' \in Nat /\ own' \in (1..emitted') \cup {NoOne}
        /\ ~loading => own' = NoOne /\ noting' \subseteq late'
    <3>1. emitted' = emitted + 1 /\ loading' = loading /\ 1..emitted \subseteq 1..emitted'
      BY <1>2, <2>1 DEF Emit, Post
    <3>2. own' \in {own, emitted + 1} /\ (~loading => own' = own)
          /\ noting' \subseteq noting \cup {emitted + 1}
          /\ (~loading => late \subseteq late' /\ (noting' = noting \/ emitted + 1 \in late'))
      BY <1>2 DEF Emit
    <3>3. /\ own \in (1..emitted) \cup {NoOne} /\ noting \subseteq 1..emitted
          /\ ~loading => own = NoOne /\ noting \subseteq late
      BY DEF StreamTypes
    <3>4. emitted + 1 \in 1..emitted'
      BY <2>1, <3>1
    <3> QED BY <2>1, <3>1, <3>2, <3>3, <3>4
  <2> QED
    BY <1>2, <2>2, <2>3 DEF Emit, Post, StreamTypes
<1>3. CASE EndLoad
  BY <1>3 DEF EndLoad, serverVars, StreamTypes
<1>4. CASE Teardown
  BY <1>4 DEF Teardown, serverVars, StreamTypes
<1>5. ASSUME NEW e, Noting(e) PROVE StreamTypes'
  <2>1. /\ history \in Seq(Nat) /\ e \in Nat /\ own' \in {own, NoOne} /\ noting' \subseteq noting
        /\ history' = Append(history, e) \/ history' = Tail(Append(history, e))
        /\ UNCHANGED <<emitted, late, loads, loading, serverVars>>
    BY <1>5, NotedWhat
  <2>2. Append(history, e) \in Seq(Nat) /\ Append(history, e) # <<>>
    BY <2>1
  <2>3. Tail(Append(history, e)) \in Seq(Nat)
    BY <2>2
  <2>4. history' \in Seq(Nat)
    BY <2>1, <2>2, <2>3
  <2> QED
    BY <2>1, <2>4 DEF serverVars, StreamTypes
<1>6. CASE Broadcast
  <2>1. Tail(posted) \in Seq(Nat)
    BY <1>6 DEF Broadcast, StreamTypes
  <2>2. sendq' \in Seq(Tasks)
    <3>1. CASE subscribers = {}
      BY <1>6, <3>1 DEF Broadcast, StreamTypes
    <3>2. CASE subscribers # {}
      BY <1>6, <3>2, BroadcastTask, JoinTyped
    <3> QED
      BY <3>1, <3>2
  <2> QED
    BY <1>6, <2>1, <2>2 DEF Broadcast, loadVars, StreamTypes
<1>7. CASE Send
  <2>1. sendq' \in Seq(Tasks)
    BY <1>7, SentOn DEF Rotation
  <2>2. got' \in [Clients -> Seq(Nat)]
    BY <1>7, SentWhat, Delivered
  <2>3. reading' \in Replaying \cup {NoOne}
    BY <1>7, SentWhat
  <2>4. subscription' \in [Clients -> {"none", "asked", "done", "left"}]
    BY <1>7, SentWhat DEF Done, StreamTypes
  <2> QED
    BY <1>7, <2>1, <2>2, <2>3, <2>4, SentWhat DEF loadVars, StreamTypes
<1>8. CASE ReadHistory
  <2>1. sendq' \in Seq(Tasks)
    <3>1. CASE history = <<>>
      BY <1>8, <3>1 DEF ReadHistory, StreamTypes
    <3>2. CASE history # <<>>
      BY <1>8, <3>2, HistoryTask, JoinTyped
    <3> QED
      BY <3>1, <3>2
  <2>2. subscription' \in [Clients -> {"none", "asked", "done", "left"}]
    BY <1>8 DEF ReadHistory, Done, StreamTypes
  <2> QED
    BY <1>8, <2>1, <2>2 DEF ReadHistory, loadVars, StreamTypes
<1>9. ASSUME NEW c \in Clients, Subscribe(c) PROVE StreamTypes'
  <2>1. sendq' \in Seq(Tasks)
    BY <1>9, ReplyTask, JoinTyped DEF Subscribe
  <2>2. IsFiniteSet(subscribers')
    BY <1>9, FS_AddElement DEF Subscribe, StreamTypes
  <2> QED
    BY <1>9, <2>1, <2>2 DEF Subscribe, loadVars, StreamTypes
<1>10. ASSUME NEW c \in Clients, Unsubscribe(c) PROVE StreamTypes'
  <2>1. sendq' \in Seq(Tasks)
    BY <1>10, ReplyTask, JoinTyped DEF Unsubscribe
  <2>2. IsFiniteSet(subscribers')
    BY <1>10, FS_RemoveElement DEF Unsubscribe, StreamTypes
  <2> QED
    BY <1>10, <2>1, <2>2 DEF Unsubscribe, loadVars, StreamTypes
<1>11. ASSUME NEW c \in Clients, Leave(c) \/ Return(c) PROVE StreamTypes'
  <2>1. got \in [Clients -> Seq(Nat)] /\ <<>> \in Seq(Nat)
    BY DEF StreamTypes
  <2>2. got' \in [Clients -> Seq(Nat)]
    BY <1>11, <2>1 DEF Leave, Return
  <2> QED
    BY <1>11, <2>2 DEF Leave, Return, loadVars, StreamTypes
<1> QED
  BY <1>1, <1>2, <1>3, <1>4, <1>5, <1>6, <1>7, <1>8, <1>9, <1>10, <1>11 DEF Next, Noting

\* Events that are kept anywhere have been emitted.
LEMMA StepKeepsNumbers ==
  ASSUME StreamTypes, NumberInv, TaskInv, Next
  PROVE  NumberInv'
<1>0. emitted \in Nat /\ emitted' \in Nat /\ 1..emitted \subseteq 1..emitted'
  <2>1. emitted' \in {emitted, emitted + 1}
    BY SentWhat DEF Next, BeginLoad, Emit, Post, NoteOwn, EndLoad, Teardown, Note, Broadcast, ReadHistory, Subscribe,
                    Unsubscribe, Leave, Return, serverVars, loadVars
  <2> QED
    BY <2>1 DEF StreamTypes
<1>1. ASSUME NEW i \in DOMAIN posted' PROVE posted'[i] \in 1..emitted'
  <2>1. CASE posted' = posted
    BY <1>0, <1>1, <2>1 DEF NumberInv
  <2>2. CASE Emit
    <3>1. posted \in Seq(Nat) /\ emitted + 1 \in Nat /\ posted' = Append(posted, emitted + 1)
      BY <2>2 DEF Emit, Post, StreamTypes
    <3>2. (i \in DOMAIN posted /\ posted'[i] = posted[i]) \/ posted'[i] = emitted + 1
      BY <1>1, <3>1
    <3> QED
      BY <1>0, <2>2, <3>2 DEF Emit, Post, NumberInv
  <2>3. CASE Broadcast
    <3>1. posted \in Seq(Nat) /\ posted # <<>> /\ posted' = Tail(posted)
      BY <2>3 DEF Broadcast, StreamTypes
    <3>2. i + 1 \in DOMAIN posted /\ posted'[i] = posted[i + 1]
      BY <1>1, <3>1
    <3> QED
      BY <1>0, <3>2 DEF NumberInv
  <2> QED
    BY <2>1, <2>2, <2>3, SentWhat DEF Next, BeginLoad, NoteOwn, EndLoad, Teardown, Note, ReadHistory, Subscribe,
                                      Unsubscribe, Leave, Return, serverVars
<1>2. ASSUME NEW i \in DOMAIN history' PROVE history'[i] \in 1..emitted'
  <2>1. CASE history' = history
    BY <1>0, <1>2, <2>1 DEF NumberInv
  <2>2. CASE history' = <<>>
    BY <1>2, <2>2
  <2>3. ASSUME NEW e, Noting(e) PROVE history'[i] \in 1..emitted'
    <3> DEFINE all == Append(history, e)
    <3>1. history \in Seq(Nat) /\ e \in Nat /\ e \in 1..emitted
      BY <2>3, NotedWhat
    <3>2. history' = all \/ history' = Tail(all)
      BY <2>3, NotedWhat
    <3>3. \A k \in DOMAIN history : history[k] \in 1..emitted
      BY DEF NumberInv
    <3>4. all \in Seq(Nat) /\ all # <<>> /\ \A k \in DOMAIN all : all[k] \in 1..emitted
      <4>1. all \in Seq(Nat) /\ all # <<>>
        BY ONLY <3>1
      <4>2. ASSUME NEW k \in DOMAIN all PROVE all[k] \in 1..emitted
        <5>1. (k \in DOMAIN history /\ all[k] = history[k]) \/ all[k] = e
          BY ONLY <3>1, <4>2
        <5> QED
          BY ONLY <3>1, <3>3, <5>1
      <4> QED
        BY <4>1, <4>2
    <3> HIDE DEF all
    <3>5. CASE history' = all
      BY <1>0, <1>2, <3>4, <3>5
    <3>6. CASE history' = Tail(all)
      <4>1. i + 1 \in DOMAIN all /\ Tail(all)[i] = all[i + 1]
        BY <1>2, <3>4, <3>6
      <4> QED
        BY <1>0, <3>4, <3>6, <4>1
    <3> QED
      BY <3>2, <3>5, <3>6
  <2> QED
    BY <2>1, <2>2, <2>3, SentWhat DEF Next, BeginLoad, Emit, Post, Noting, EndLoad, Teardown, Broadcast, ReadHistory,
                                      Subscribe, Unsubscribe, Leave, Return, loadVars
<1>3. ASSUME NEW c \in Clients, NEW i \in DOMAIN got'[c] PROVE got'[c][i] \in 1..emitted'
  <2>1. CASE got' = got
    BY <1>0, <1>3, <2>1 DEF NumberInv
  <2>2. ASSUME NEW d \in Clients, Leave(d) PROVE got'[c][i] \in 1..emitted'
    <3>1. got'[c] = got[c] \/ got'[c] = <<>>
      BY <2>2 DEF Leave, StreamTypes
    <3>2. CASE got'[c] = got[c]
      BY <1>0, <1>3, <3>2 DEF NumberInv
    <3>3. CASE got'[c] = <<>>
      BY <1>3, <3>3
    <3> QED
      BY <3>1, <3>2, <3>3
  <2>3. CASE Send
    <3> DEFINE m == sendq[1].todo[1]
    <3>1. /\ m \in [to : Clients, what : Nat]
          /\ got'[c] = got[c] \/ (got'[c] = Append(got[c], m.what) /\ m.what # Ok)
      BY <2>3, SentWhat, Delivered
    <3>2. m.what \in 0..emitted
      BY <2>3, SentOn DEF Rotation, TaskInv, Shaped
    <3> HIDE DEF m
    <3>3. CASE got'[c] = got[c]
      BY <1>0, <1>3, <3>3 DEF NumberInv
    <3>4. CASE got'[c] = Append(got[c], m.what) /\ m.what # Ok
      <4>1. got[c] \in Seq(Nat) /\ m.what \in Nat /\ m.what \in 1..emitted
        BY <1>0, <3>1, <3>2, <3>4 DEF Ok, StreamTypes
      <4>2. (i \in DOMAIN got[c] /\ got'[c][i] = got[c][i]) \/ got'[c][i] = m.what
        BY <1>3, <3>4, <4>1
      <4> QED
        BY <1>0, <4>1, <4>2 DEF NumberInv
    <3> QED
      BY <3>1, <3>3, <3>4
  <2> QED
    BY <2>1, <2>2, <2>3 DEF Next, BeginLoad, Emit, Post, NoteOwn, EndLoad, Teardown, Note, Broadcast, ReadHistory,
                            Subscribe, Unsubscribe, Return, serverVars
<1> QED
  BY <1>1, <1>2, <1>3 DEF NumberInv

\* A task that has something to do has a first thing to do.
LEMMA FirstThing ==
  ASSUME NEW task \in Tasks, task.todo # <<>>
  PROVE  1 \in DOMAIN task.todo
<1> DEFINE M == [to : Clients, what : Nat]
           todo == task.todo
<1>1. todo \in Seq(M) /\ todo # <<>>
  BY DEF Tasks
<1> HIDE DEF M, todo
<1>2. 1 \in DOMAIN todo
  BY ONLY <1>1
<1> QED
  BY <1>2 DEF todo

\* After a message is sent the queue holds what it held before, less that one.
LEMMA SentFrom ==
  ASSUME StreamTypes, TaskInv, Send, NEW i \in DOMAIN sendq'
  PROVE  \E k \in DOMAIN sendq :
           /\ sendq'[i].client = sendq[k].client /\ sendq'[i].todo # <<>> /\ 1 \in DOMAIN sendq'[i].todo
           /\ \A j \in DOMAIN sendq'[i].todo : \E l \in DOMAIN sendq[k].todo : sendq'[i].todo[j] = sendq[k].todo[l]
           /\ IsBroadcast(sendq'[i]) <=> IsBroadcast(sendq[k])
<1>1. /\ sendq' \in Seq(Tasks) /\ 1 \in DOMAIN sendq /\ 1 \in DOMAIN sendq[1].todo
      /\ \/ i + 1 \in DOMAIN sendq /\ sendq'[i] = sendq[i + 1]
         \/ /\ sendq'[i].client = sendq[1].client /\ sendq'[i].todo # <<>>
            /\ \A j \in DOMAIN sendq'[i].todo :
                 j + 1 \in DOMAIN sendq[1].todo /\ sendq'[i].todo[j] = sendq[1].todo[j + 1]
  BY SentOn DEF Rotation
<1>2. sendq'[i] \in Tasks
  BY <1>1
<1>3. CASE i + 1 \in DOMAIN sendq /\ sendq'[i] = sendq[i + 1]
  <2>1. sendq[i + 1].todo # <<>>
    BY <1>3 DEF TaskInv, Shaped
  <2> QED
    BY <1>2, <1>3, <2>1, FirstThing
<1>4. CASE /\ sendq'[i].client = sendq[1].client /\ sendq'[i].todo # <<>>
           /\ \A j \in DOMAIN sendq'[i].todo :
                j + 1 \in DOMAIN sendq[1].todo /\ sendq'[i].todo[j] = sendq[1].todo[j + 1]
  <2>1. 1 \in DOMAIN sendq'[i].todo
    BY <1>2, <1>4, FirstThing
  <2>2. Shaped(sendq[1])
    BY <1>1 DEF TaskInv
  <2>3. 2 \in DOMAIN sendq[1].todo /\ sendq'[i].todo[1] = sendq[1].todo[2]
    BY <1>4, <2>1
  <2>4. IsBroadcast(sendq'[i]) <=> IsBroadcast(sendq[1])
    BY <1>1, <1>4, <2>2, <2>3, StreamAssumption DEF IsBroadcast, Shaped
  <2> QED
    BY <1>1, <1>4, <2>1, <2>4
<1> QED
  BY <1>1, <1>3, <1>4

\* Tasks keep their shape as more events are emitted.
LEMMA ShapesStay ==
  ASSUME StreamTypes, emitted' \in {emitted, emitted + 1}, \A i \in DOMAIN sendq' : Shaped(sendq'[i])
  PROVE  TaskInv'
<1>1. emitted \in Nat /\ 0..emitted \subseteq 0..emitted'
  BY DEF StreamTypes
<1> QED
  BY <1>1 DEF TaskInv, Shaped, IsBroadcast

\* Where a task joins the others, each old task is where it was.
LEMMA JoinFrom ==
  ASSUME StreamTypes, NEW t \in Tasks, sendq' = Append(sendq, t)
  PROVE  /\ \A i \in DOMAIN sendq' : \/ i \in DOMAIN sendq /\ sendq'[i] = sendq[i]
                                     \/ i = Len(sendq) + 1 /\ sendq'[i] = t
         /\ \A i \in DOMAIN sendq : i \in DOMAIN sendq' /\ sendq'[i] = sendq[i] /\ i < Len(sendq) + 1
         /\ Len(sendq) + 1 \in DOMAIN sendq' /\ sendq'[Len(sendq) + 1] = t
<1>1. sendq \in Seq(Tasks)
  BY DEF StreamTypes
<1>2. Len(sendq) \in Nat /\ DOMAIN sendq = 1..Len(sendq) /\ DOMAIN sendq' = 1..(Len(sendq) + 1)
      /\ \A i \in DOMAIN sendq : i \in DOMAIN sendq' /\ sendq'[i] = sendq[i]
      /\ Len(sendq) + 1 \in DOMAIN sendq' /\ sendq'[Len(sendq) + 1] = t
  BY <1>1, Joined
<1> DEFINE n == Len(sendq)
<1>3. n \in Nat /\ DOMAIN sendq = 1..n /\ DOMAIN sendq' = 1..(n + 1)
  BY <1>2
<1> HIDE DEF n
<1>4. /\ \A i \in DOMAIN sendq' : i \in DOMAIN sendq \/ i = n + 1
      /\ \A i \in DOMAIN sendq : i < n + 1
  BY ONLY <1>3
<1> QED
  BY <1>2, <1>4 DEF n

\* Every task that joins has the right shape.
LEMMA StepJoins ==
  ASSUME StreamTypes, NumberInv, TaskInv, Next
  PROVE  sendq' = sendq \/ Send \/ \E t \in Tasks : sendq' = Append(sendq, t) /\ Shaped(t)
<1>1. CASE Broadcast
  <2>1. CASE subscribers = {}
    BY <1>1, <2>1 DEF Broadcast
  <2>2. CASE subscribers # {}
    BY <1>1, <2>2, BroadcastTask
  <2> QED
    BY <2>1, <2>2
<1>2. CASE ReadHistory
  <2>1. CASE history = <<>>
    BY <1>2, <2>1 DEF ReadHistory
  <2>2. CASE history # <<>>
    BY <1>2, <2>2, HistoryTask
  <2> QED
    BY <2>1, <2>2
<1>3. ASSUME NEW c \in Clients, Subscribe(c) PROVE \E t \in Tasks : sendq' = Append(sendq, t) /\ Shaped(t)
  BY <1>3, ReplyTask DEF Subscribe
<1>4. ASSUME NEW c \in Clients, Unsubscribe(c) PROVE \E t \in Tasks : sendq' = Append(sendq, t) /\ Shaped(t)
  BY <1>4, ReplyTask DEF Unsubscribe
<1> QED
  BY <1>1, <1>2, <1>3, <1>4 DEF Next, BeginLoad, Emit, Post, NoteOwn, EndLoad, Teardown, Note, Leave, Return, serverVars

\* What the tasks have to send keeps its shape.
LEMMA StepKeepsTasks ==
  ASSUME StreamTypes, NumberInv, TaskInv, Next
  PROVE  TaskInv'
<1>1. emitted' \in {emitted, emitted + 1}
  BY SentWhat DEF Next, BeginLoad, Emit, Post, NoteOwn, EndLoad, Teardown, Note, Broadcast, ReadHistory, Subscribe,
                  Unsubscribe, Leave, Return, serverVars, loadVars
<1>2. CASE sendq' = sendq
  BY <1>1, <1>2, ShapesStay DEF TaskInv
<1>3. CASE Send
  <2>1. ASSUME NEW i \in DOMAIN sendq' PROVE Shaped(sendq'[i])
    <3>1. PICK k \in DOMAIN sendq :
             /\ sendq'[i].client = sendq[k].client /\ sendq'[i].todo # <<>> /\ 1 \in DOMAIN sendq'[i].todo
             /\ \A j \in DOMAIN sendq'[i].todo :
                  \E l \in DOMAIN sendq[k].todo : sendq'[i].todo[j] = sendq[k].todo[l]
             /\ IsBroadcast(sendq'[i]) <=> IsBroadcast(sendq[k])
      BY <1>3, <2>1, SentFrom
    <3>2. Shaped(sendq[k])
      BY DEF TaskInv
    <3> QED
      BY <3>1, <3>2 DEF Shaped
  <2> QED
    BY <1>1, <2>1, ShapesStay
<1>4. ASSUME NEW t \in Tasks, sendq' = Append(sendq, t), Shaped(t) PROVE TaskInv'
  <2>1. ASSUME NEW i \in DOMAIN sendq' PROVE Shaped(sendq'[i])
    BY <1>4, <2>1, JoinFrom DEF TaskInv
  <2> QED
    BY <1>1, <2>1, ShapesStay
<1> QED
  BY <1>2, <1>3, <1>4, StepJoins
-----------------------------------------------------------------------------
(* Nothing is missed *)

\* What is provided for stays so when a task joins and nothing else is taken.
LEMMA JoinProvides ==
  ASSUME StreamTypes, NEW c \in Clients, NEW e, Provided(c, e), got' = got,
         NEW t \in Tasks, sendq' = Append(sendq, t), posted' = posted, reading' = reading
  PROVE  Provided(c, e)'
<1>1. \A i \in DOMAIN sendq : i \in DOMAIN sendq' /\ sendq'[i] = sendq[i]
  BY JoinFrom
<1> QED
  BY <1>1 DEF Provided, Received, Carried, WillRead

\* The one message that is sent is received, or has the history read.
LEMMA SendProvides ==
  ASSUME StreamTypes, TaskInv, Send,
         NEW c \in Clients, c \in Replaying, client[c] # "gone", NEW e \in 1..emitted, Provided(c, e)
  PROVE  Provided(c, e)'
<1> DEFINE m == sendq[1].todo[1]
<1>1. /\ reading = NoOne /\ m \in [to : Clients, what : Nat] /\ Deliver(m) /\ posted' = posted
      /\ IF m.what = Ok /\ sendq[1].client \in Replaying THEN reading' = sendq[1].client ELSE reading' = NoOne
  BY SentWhat
<1>2. /\ got[c] \in Seq(Nat) /\ m.what \in Nat /\ (got'[c] = got[c] \/ got'[c] = Append(got[c], m.what))
      /\ (m.what # Ok /\ m.to = c => got'[c] = Append(got[c], m.what))
  BY <1>1, Delivered DEF StreamTypes
<1>3. /\ 1 \in DOMAIN sendq
      /\ \A i \in DOMAIN sendq : i # 1 => i - 1 \in DOMAIN sendq' /\ sendq'[i - 1] = sendq[i]
      /\ \A j \in DOMAIN sendq[1].todo : j # 1 =>
           /\ Len(sendq) \in DOMAIN sendq'
           /\ j - 1 \in DOMAIN sendq'[Len(sendq)].todo /\ sendq'[Len(sendq)].todo[j - 1] = sendq[1].todo[j]
  BY SentOn DEF Rotation
<1> HIDE DEF m
<1>4. CASE e \in Received(c)
  <2>1. \A i \in DOMAIN got[c] : i \in DOMAIN got'[c] /\ got'[c][i] = got[c][i]
    BY <1>2, Joined
  <2> QED
    BY <1>4, <2>1 DEF Provided, Received
<1>5. CASE Contains(posted, e)
  BY <1>1, <1>5 DEF Provided, Contains
<1>6. CASE Carried(c, e)
  <2>0. PICK i \in DOMAIN sendq : \E j \in DOMAIN sendq[i].todo :
               sendq[i].todo[j].to = c /\ sendq[i].todo[j].what = e
    BY <1>6 DEF Carried
  <2>1. PICK j \in DOMAIN sendq[i].todo : sendq[i].todo[j].to = c /\ sendq[i].todo[j].what = e
    BY <2>0
  <2>2. CASE i # 1
    BY <1>3, <2>1, <2>2 DEF Provided, Carried
  <2>3. CASE i = 1 /\ j # 1
    BY <1>3, <2>1, <2>3 DEF Provided, Carried
  <2>4. CASE i = 1 /\ j = 1
    <3>1. m.to = c /\ m.what = e /\ e # Ok
      BY <2>1, <2>4 DEF m, Ok
    <3>2. Len(got[c]) + 1 \in DOMAIN got'[c] /\ got'[c][Len(got[c]) + 1] = e
      BY <1>2, <3>1, Joined
    <3> QED
      BY <3>2 DEF Provided, Received
  <2> QED
    BY <2>2, <2>3, <2>4
<1>7. CASE WillRead(c)
  <2>1. PICK i \in DOMAIN sendq : sendq[i].client = c /\ sendq[i].todo[1].what = Ok
    BY <1>1, <1>7, StreamAssumption DEF WillRead
  <2>2. CASE i # 1
    BY <1>3, <2>1, <2>2 DEF Provided, WillRead
  <2>3. CASE i = 1
    BY <1>1, <2>1, <2>3 DEF Provided, WillRead, m
  <2> QED
    BY <2>2, <2>3
<1> QED
  BY <1>4, <1>5, <1>6, <1>7 DEF Provided

\* A broadcast carries its event to every subscriber; the others stay posted.
LEMMA BroadcastProvides ==
  ASSUME StreamTypes, NumberInv, Broadcast, NEW c \in Clients, c \in subscribers, NEW e, Provided(c, e)
  PROVE  Provided(c, e)'
<1>1. PICK t \in Tasks :
        /\ sendq' = Append(sendq, t)
        /\ \A d \in subscribers : \E j \in DOMAIN t.todo : t.todo[j].to = d /\ t.todo[j].what = posted[1]
  BY BroadcastTask
<1>2. /\ \A i \in DOMAIN sendq : i \in DOMAIN sendq' /\ sendq'[i] = sendq[i]
      /\ Len(sendq) + 1 \in DOMAIN sendq' /\ sendq'[Len(sendq) + 1] = t
  BY <1>1, JoinFrom
<1>3. got' = got /\ reading' = reading
  BY DEF Broadcast
<1>4. CASE Contains(posted, e)
  <2>1. posted \in Seq(Nat) /\ posted # <<>> /\ posted' = Tail(posted)
    BY DEF Broadcast, StreamTypes
  <2>2. PICK i \in 1..Len(posted) : posted[i] = e
    BY <1>4 DEF Contains
  <2>3. CASE i = 1
    BY <1>1, <1>2, <2>2, <2>3 DEF Provided, Carried
  <2>4. CASE i # 1
    <3>1. i - 1 \in 1..Len(posted') /\ posted'[i - 1] = e
      BY <2>1, <2>2, <2>4
    <3> QED
      BY <3>1 DEF Provided, Contains
  <2> QED
    BY <2>3, <2>4
<1>5. CASE ~Contains(posted, e)
  BY <1>2, <1>3, <1>5 DEF Provided, Received, Carried, WillRead
<1> QED
  BY <1>4, <1>5

\* Who reads the history gets all of it; the loop waits for the lock, so that
\* what is still to be noted is late.
LEMMA ReadProvides ==
  ASSUME StreamTypes, NumberInv, ReadHistory, NEW c \in Clients, NEW e \in Noted \ late, Provided(c, e)
  PROVE  Provided(c, e)'
<1>1. own = NoOne /\ noting \subseteq late /\ got' = got /\ posted' = posted /\ reading' = NoOne
  BY DEF ReadHistory, LockFree, StreamTypes
<1>0. e \in ToSet(history)
  BY <1>1 DEF Noted
<1>2. history # <<>>
  <2>1. e \in ToSet(history)
    BY <1>0
  <2> QED
    BY <2>1 DEF ToSet
<1>3. PICK t \in Tasks :
        /\ sendq' = Append(sendq, t)
        /\ \A x \in ToSet(history) : \E j \in DOMAIN t.todo : t.todo[j].to = reading /\ t.todo[j].what = x
  BY <1>2, HistoryTask
<1>4. /\ \A i \in DOMAIN sendq : i \in DOMAIN sendq' /\ sendq'[i] = sendq[i]
      /\ Len(sendq) + 1 \in DOMAIN sendq' /\ sendq'[Len(sendq) + 1] = t
  BY <1>3, JoinFrom
<1>5. CASE reading = c
  BY <1>0, <1>1, <1>3, <1>4, <1>5 DEF Provided, Carried
<1>6. CASE reading # c
  BY <1>1, <1>4, <1>6 DEF Provided, Received, Carried, WillRead
<1> QED
  BY <1>5, <1>6

\* Every step keeps what the replaying subscribers lack on its way.
LEMMA StepKeepsProvided ==
  ASSUME StreamTypes, NumberInv, TaskInv, MissInv, Next
  PROVE  MissInv'
<1> SUFFICES ASSUME NEW c \in subscribers' \cap Replaying, client'[c] # "gone",
                    subscription'[c] \in {"asked", "done"}, NEW e \in (Noted \ late)'
             PROVE  Provided(c, e)'
  BY DEF MissInv
<1>0. c \in Clients /\ c \in Replaying /\ c # NoOne
  BY StreamAssumption
<1> DEFINE Old == /\ c \in subscribers /\ client[c] # "gone" /\ subscription[c] \in {"asked", "done"}
                  /\ e \in Noted \ late
           Same == UNCHANGED <<sendq, posted, reading>> /\ got'[c] = got[c]
<1>a. ASSUME Old PROVE Provided(c, e)
  BY <1>0, <1>a DEF MissInv
<1>b. ASSUME Old, Same PROVE Provided(c, e)'
  BY <1>a, <1>b DEF Provided, Received, Carried, WillRead, Contains
<1>c. ASSUME NEW x \in Noted PROVE x \in 1..emitted
  BY DEF StreamTypes, NumberInv, Noted, ToSet
<1>d. UNCHANGED <<own, noting, late, history>> => (Noted \ late)' = Noted \ late
  BY DEF Noted, ToSet
<1>e. ASSUME ~loading, UNCHANGED <<own, noting>>, late' = late \cap noting, history' = <<>> PROVE FALSE
  <2>1. ToSet(history)' = {} /\ own = NoOne /\ noting \subseteq late
    BY <1>e DEF ToSet, StreamTypes
  <2>2. (Noted \ late)' = {}
    BY <1>e, <2>1 DEF Noted
  <2> QED
    BY <2>2
<1>1. CASE BeginLoad
  BY <1>1, <1>e DEF BeginLoad
<1>2. CASE Emit
  <2>1. posted \in Seq(Nat) /\ emitted + 1 \in Nat /\ posted' = Append(posted, emitted + 1)
        /\ got' = got /\ sendq' = sendq /\ reading' = reading
    BY <1>2 DEF Emit, Post, StreamTypes
  <2>2. /\ \A i \in 1..Len(posted) : i \in 1..Len(posted') /\ posted'[i] = posted[i]
        /\ Len(posted) + 1 \in 1..Len(posted') /\ posted'[Len(posted) + 1] = emitted + 1
    BY <2>1
  <2>3. CASE e = emitted + 1
    BY <2>2, <2>3 DEF Provided, Contains
  <2>4. CASE e # emitted + 1
    <3>1. Old
      BY <1>2, <2>4, StreamAssumption DEF Emit, Post, serverVars, Noted, ToSet
    <3> QED
      BY <1>a, <2>1, <2>2, <3>1 DEF Provided, Received, Carried, WillRead, Contains
  <2> QED
    BY <2>3, <2>4
<1>3. CASE EndLoad
  BY <1>b, <1>3 DEF EndLoad, serverVars, Noted, ToSet
<1>4. CASE Teardown
  BY <1>4, <1>e DEF Teardown
<1>5. ASSUME NEW x, Noting(x) PROVE Provided(c, e)'
  <2>0. /\ x \in Nat /\ history \in Seq(Nat)
        /\ history' = Append(history, x) \/ history' = Tail(Append(history, x))
        /\ x \in Noted /\ own' \in {own, NoOne} /\ noting' \subseteq noting
        /\ UNCHANGED <<emitted, late, loads, loading, serverVars>>
    BY <1>5, NotedWhat
  <2>1. ToSet(history)' \subseteq ToSet(history) \cup {x}
    <3> DEFINE all == Append(history, x)
    <3>2. all \in Seq(Nat) /\ all # <<>>
      BY ONLY <2>0
    <3>3. \A k \in DOMAIN all : all[k] \in ToSet(history) \cup {x}
      <4> SUFFICES ASSUME NEW k \in DOMAIN all PROVE all[k] \in ToSet(history) \cup {x}
        OBVIOUS
      <4>1. (k \in DOMAIN history /\ all[k] = history[k]) \/ all[k] = x
        BY ONLY <2>0
      <4> QED
        BY <4>1 DEF ToSet
    <3>4. history' = all \/ history' = Tail(all)
      BY <2>0
    <3> HIDE DEF all
    <3>5. \A k \in DOMAIN Tail(all) : k + 1 \in DOMAIN all /\ Tail(all)[k] = all[k + 1]
      BY ONLY <3>2
    <3>6. \A k \in DOMAIN history' : history'[k] \in ToSet(history) \cup {x}
      BY ONLY <3>3, <3>4, <3>5
    <3> QED
      BY ONLY <3>6, Zenon DEF ToSet
  <2>2. e \in Noted \ late
    <3>1. e \in (({own'} \ {NoOne}) \cup noting') \cup ToSet(history)' /\ e \notin late
      BY <2>0 DEF Noted, ToSet
    <3> QED
      BY <2>0, <2>1, <3>1 DEF Noted
  <2> QED
    BY <1>b, <2>0, <2>2 DEF serverVars
<1>6. CASE Broadcast
  BY <1>0, <1>a, <1>d, <1>6, BroadcastProvides DEF Broadcast, loadVars
<1>7. CASE Send
  <2>1. Old
    <3>1. /\ UNCHANGED <<loadVars, subscribers, client>>
          /\ subscription' = subscription \/ Done(sendq[1].client)
      BY <1>7, SentWhat
    <3>2. subscription \in [Clients -> {"none", "asked", "done", "left"}] /\ subscribers \subseteq Clients
      BY DEF StreamTypes
    <3>3. subscription'[c] \in {"asked", "done"} => subscription[c] \in {"asked", "done"}
      BY <3>1, <3>2 DEF Done
    <3> QED
      BY <1>d, <3>1, <3>3 DEF loadVars
  <2> QED
    BY <1>0, <1>a, <1>c, <1>7, <2>1, SendProvides
<1>8. CASE ReadHistory
  <2>1. Old
    BY <1>8, <1>d DEF ReadHistory, Done, loadVars, StreamTypes
  <2> QED
    BY <1>0, <1>a, <1>8, <2>1, ReadProvides
<1>9. ASSUME NEW d \in Clients, Subscribe(d) PROVE Provided(c, e)'
  <2>1. PICK t \in Tasks : sendq' = Append(sendq, t) /\ t.client = d /\ t.todo[1].what = Ok
    BY <1>9, ReplyTask DEF Subscribe
  <2>2. CASE d = c
    BY <2>1, <2>2, JoinFrom DEF Provided, WillRead
  <2>3. CASE d # c
    <3>1. Old /\ got' = got /\ posted' = posted /\ reading' = reading
      BY <1>9, <1>d, <2>3 DEF Subscribe, loadVars, StreamTypes
    <3> QED
      BY <1>0, <1>a, <2>1, <3>1, JoinProvides
  <2> QED
    BY <2>2, <2>3
<1>10. ASSUME NEW d \in Clients, Unsubscribe(d) PROVE Provided(c, e)'
  <2>1. PICK t \in Tasks : sendq' = Append(sendq, t)
    BY <1>10, ReplyTask DEF Unsubscribe
  <2>2. Old /\ got' = got /\ posted' = posted /\ reading' = reading
    BY <1>10, <1>d DEF Unsubscribe, loadVars, StreamTypes
  <2> QED
    BY <1>0, <1>a, <2>1, <2>2, JoinProvides
<1>11. ASSUME NEW d \in Clients, Leave(d) \/ Return(d) PROVE Provided(c, e)'
  <2>1. d # c
    BY <1>0, <1>11 DEF Leave, Return, StreamTypes
  <2>2. Old /\ Same
    BY <1>0, <1>11, <1>d, <2>1 DEF Leave, Return, loadVars, StreamTypes
  <2> QED
    BY <1>b, <2>2
<1> QED
  BY <1>1, <1>2, <1>3, <1>4, <1>5, <1>6, <1>7, <1>8, <1>9, <1>10, <1>11 DEF Next, Noting
-----------------------------------------------------------------------------
(* Everything in order *)

\* Broadcasts are begun in the order their events are posted.
LEMMA StepKeepsOrder ==
  ASSUME StreamTypes, NumberInv, TaskInv, OrderInv, Next
  PROVE  OrderInv'
<1>0. posted \in Seq(Nat) /\ emitted \in Nat /\ \A i \in DOMAIN posted : posted[i] \in 1..emitted
  BY DEF StreamTypes, NumberInv
<1>1. CASE Emit
  <2>1. posted' = Append(posted, emitted + 1) /\ sendq' = sendq
    BY <1>1 DEF Emit, Post
  <2>2. \A j \in DOMAIN posted' : \/ j \in DOMAIN posted /\ posted'[j] = posted[j]
                                  \/ j = Len(posted) + 1 /\ posted'[j] = emitted + 1
    BY ONLY <1>0, <2>1
  <2>3. ASSUME NEW i \in DOMAIN posted', NEW j \in DOMAIN posted', i < j PROVE posted'[i] < posted'[j]
    <3>1. Len(posted) \in Nat /\ DOMAIN posted = 1..Len(posted) /\ DOMAIN posted' = 1..(Len(posted) + 1)
      BY ONLY <1>0, <2>1
    <3>2. i \in DOMAIN posted /\ posted'[i] = posted[i]
      BY <2>2, <2>3, <3>1
    <3>3. CASE j \in DOMAIN posted /\ posted'[j] = posted[j]
      BY <2>3, <3>2, <3>3 DEF OrderInv
    <3>4. CASE posted'[j] = emitted + 1
      BY <1>0, <3>2, <3>4
    <3> QED
      BY <2>2, <3>3, <3>4
  <2>4. ASSUME NEW i \in DOMAIN sendq, NEW j \in DOMAIN posted', IsBroadcast(sendq[i])
        PROVE  sendq[i].todo[1].what < posted'[j]
    <3>1. sendq[i].todo[1].what \in 0..emitted
      <4>1. sendq[i] \in Tasks /\ sendq[i].todo # <<>>
        BY DEF StreamTypes, TaskInv, Shaped
      <4> QED
        BY <4>1, FirstThing DEF TaskInv, Shaped
    <3>2. CASE j \in DOMAIN posted /\ posted'[j] = posted[j]
      BY <2>4, <3>2 DEF OrderInv
    <3>3. CASE posted'[j] = emitted + 1
      BY <1>0, <3>1, <3>3
    <3> QED
      BY <2>2, <3>2, <3>3
  <2> QED
    BY <2>1, <2>3, <2>4 DEF OrderInv
<1>2. CASE Broadcast
  <2>1. posted # <<>> /\ posted' = Tail(posted)
    BY <1>2 DEF Broadcast
  <2>2. \A j \in DOMAIN posted' : /\ j \in Nat /\ j + 1 \in DOMAIN posted /\ 1 \in DOMAIN posted /\ 1 < j + 1
                                 /\ posted'[j] = posted[j + 1]
    BY ONLY <1>0, <2>1
  <2>3. ASSUME NEW i \in DOMAIN posted', NEW j \in DOMAIN posted', i < j PROVE posted'[i] < posted'[j]
    <3>1. i + 1 < j + 1
      BY <2>2, <2>3
    <3> QED
      BY <2>2, <3>1 DEF OrderInv
  <2>4. ASSUME NEW i \in DOMAIN sendq', NEW j \in DOMAIN posted', IsBroadcast(sendq'[i])
        PROVE  sendq'[i].todo[1].what < posted'[j]
    <3>1. CASE i \in DOMAIN sendq /\ sendq'[i] = sendq[i]
      BY <2>2, <2>4, <3>1 DEF OrderInv
    <3>2. CASE subscribers # {} /\ ~(i \in DOMAIN sendq /\ sendq'[i] = sendq[i])
      <4>1. PICK t \in Tasks : sendq' = Append(sendq, t) /\ t.todo[1].what = posted[1]
        BY <1>2, <3>2, BroadcastTask
      <4>2. sendq'[i] = t
        BY <3>2, <4>1, JoinFrom
      <4> QED
        BY <2>2, <4>1, <4>2 DEF OrderInv
    <3>3. CASE subscribers = {}
      BY <1>2, <3>1, <3>3 DEF Broadcast
    <3> QED
      BY <3>1, <3>2, <3>3
  <2> QED
    BY <2>3, <2>4 DEF OrderInv
<1>3. CASE Send
  <2>1. posted' = posted
    BY <1>3, SentWhat
  <2>2. ASSUME NEW i \in DOMAIN sendq', IsBroadcast(sendq'[i]), NEW j \in DOMAIN posted
        PROVE  sendq'[i].todo[1].what < posted[j]
    <3>1. PICK k \in DOMAIN sendq :
             /\ 1 \in DOMAIN sendq'[i].todo /\ IsBroadcast(sendq[k])
             /\ \A l \in DOMAIN sendq'[i].todo : \E h \in DOMAIN sendq[k].todo : sendq'[i].todo[l] = sendq[k].todo[h]
      BY <1>3, <2>2, SentFrom
    <3>2. sendq'[i].todo[1].what = sendq[k].todo[1].what
      BY <3>1 DEF TaskInv, Shaped
    <3> QED
      BY <3>1, <3>2 DEF OrderInv
  <2> QED
    BY <2>1, <2>2 DEF OrderInv
<1>4. ASSUME NEW t \in Tasks, sendq' = Append(sendq, t), ~IsBroadcast(t), posted' = posted PROVE OrderInv'
  <2>1. \A i \in DOMAIN sendq' : IsBroadcast(sendq'[i]) => i \in DOMAIN sendq /\ sendq'[i] = sendq[i]
    BY <1>4, JoinFrom
  <2> QED
    BY <1>4, <2>1 DEF OrderInv
<1>5. CASE sendq' = sendq /\ posted' = posted
  BY <1>5 DEF OrderInv
<1>6. CASE ReadHistory
  <2>1. CASE history = <<>>
    BY <1>5, <1>6, <2>1 DEF ReadHistory
  <2>2. CASE history # <<>>
    BY <1>4, <1>6, <2>2, HistoryTask DEF ReadHistory
  <2> QED
    BY <2>1, <2>2
<1>7. ASSUME NEW c \in Clients, Subscribe(c) PROVE OrderInv'
  BY <1>4, <1>7, ReplyTask DEF Subscribe
<1>8. ASSUME NEW c \in Clients, Unsubscribe(c) PROVE OrderInv'
  BY <1>4, <1>8, ReplyTask DEF Unsubscribe
<1> QED
  BY <1>1, <1>2, <1>3, <1>5, <1>6, <1>7, <1>8
     DEF Next, BeginLoad, NoteOwn, EndLoad, Teardown, Note, Leave, Return, serverVars

\* The subscribers only change unnoticed when no event is on its way to them.
LEMMA NoBroadcasts ==
  ASSUME StreamTypes, TaskInv, ~Broadcasting
  PROVE  posted = <<>> /\ \A i \in DOMAIN sendq : ~IsBroadcast(sendq[i])
<1> SUFFICES ASSUME NEW i \in DOMAIN sendq PROVE ~IsBroadcast(sendq[i])
  BY DEF Broadcasting
<1> DEFINE M == [to : Clients, what : Nat]
           todo == sendq[i].todo
<1>1. todo \in Seq(M) /\ todo # <<>>
  <2>1. sendq[i] \in Tasks /\ Shaped(sendq[i])
    BY DEF StreamTypes, TaskInv
  <2> QED
    BY <2>1 DEF Tasks, Shaped
<1> HIDE DEF M, todo
<1>2. Head(todo) = todo[1]
  BY ONLY <1>1
<1> QED
  BY <1>2 DEF Broadcasting, IsBroadcast, todo

\* A task that is no broadcast disturbs none.
LEMMA JoinKeepsTurn ==
  ASSUME StreamTypes, NEW t \in Tasks, sendq' = Append(sendq, t), ~IsBroadcast(t),
         \/ TurnInv /\ changed' = changed /\ subscribers' = subscribers
         \/ \A i \in DOMAIN sendq : ~IsBroadcast(sendq[i])
  PROVE  TurnInv'
<1>1. \A i \in DOMAIN sendq' : IsBroadcast(sendq'[i]) => i \in DOMAIN sendq /\ sendq'[i] = sendq[i]
  BY JoinFrom
<1>2. CASE \A i \in DOMAIN sendq : ~IsBroadcast(sendq[i])
  BY <1>1, <1>2 DEF TurnInv
<1>3. CASE TurnInv /\ changed' = changed /\ subscribers' = subscribers
  <2>1. Recipients' = Recipients
    BY <1>3 DEF Recipients
  <2> QED
    BY <1>1, <1>3, <2>1, SMTT(30) DEF TurnInv, InTurn
<1> QED
  BY <1>2, <1>3

\* A new broadcast is behind all the others, and has the most left.
LEMMA BroadcastKeepsTurn ==
  ASSUME StreamTypes, NumberInv, TaskInv, OrderInv, TurnInv, Broadcast
  PROVE  TurnInv'
<1> SUFFICES ASSUME ~changed' PROVE TurnInv'
  BY DEF TurnInv
<1>1. ~changed /\ changed' = changed /\ subscribers' = subscribers /\ Recipients' = Recipients
  BY DEF Broadcast, Recipients
<1>2. CASE subscribers = {}
  BY <1>1, <1>2 DEF Broadcast, TurnInv, InTurn
<1>3. CASE subscribers # {}
  <2>1. PICK t \in Tasks :
           /\ sendq' = Append(sendq, t)
           /\ IsBroadcast(t) /\ InTurn(t) /\ t.todo[1].what = posted[1] /\ Len(t.todo) = Len(Recipients)
    BY <1>3, BroadcastTask
  <2>2. /\ \A i \in DOMAIN sendq' : \/ i \in DOMAIN sendq /\ sendq'[i] = sendq[i]
                                    \/ i = Len(sendq) + 1 /\ sendq'[i] = t
        /\ \A i \in DOMAIN sendq : i < Len(sendq) + 1
    BY <2>1, JoinFrom
  <2>3. ASSUME NEW i \in DOMAIN sendq, IsBroadcast(sendq[i]) PROVE Behind(sendq[i], t)
    <3>1. 1 \in DOMAIN posted
      BY DEF StreamTypes, Broadcast
    <3>2. sendq[i].todo[1].what < t.todo[1].what
      BY <2>1, <2>3, <3>1 DEF OrderInv
    <3>3. Len(Recipients) - Len(sendq[i].todo) \in Nat
      BY <1>1, <2>3 DEF TurnInv, InTurn
    <3>4. Len(sendq[i].todo) \in Nat /\ Len(Recipients) \in Nat
      BY RecipientsListed DEF StreamTypes, Tasks
    <3>5. Len(sendq[i].todo) <= Len(t.todo)
      BY ONLY <2>1, <3>3, <3>4
    <3> QED
      BY <3>2, <3>5 DEF Behind
  <2>4. \A i \in DOMAIN sendq' : IsBroadcast(sendq'[i]) => InTurn(sendq'[i])
    BY <1>1, <2>1, <2>2 DEF TurnInv
  <2>5. ASSUME NEW i \in DOMAIN sendq', NEW k \in DOMAIN sendq', i < k, IsBroadcast(sendq'[i]), IsBroadcast(sendq'[k])
        PROVE  \/ Behind(sendq'[i], sendq'[k])
               \/ Behind(sendq'[k], sendq'[i]) /\ Len(sendq'[k].todo) # Len(sendq'[i].todo)
    <3>1. i \in DOMAIN sendq /\ sendq'[i] = sendq[i]
      <4>1. sendq \in Seq(Tasks)
        BY DEF StreamTypes
      <4>2. i \in Nat /\ k \in Nat /\ i < k /\ k <= Len(sendq) + 1 /\ Len(sendq) \in Nat
        BY <2>1, <2>5, <4>1, Joined
      <4>3. i # Len(sendq) + 1
        BY ONLY <4>2
      <4> QED
        BY <2>2, <4>3
    <3>2. CASE k \in DOMAIN sendq /\ sendq'[k] = sendq[k]
      BY <1>1, <2>5, <3>1, <3>2 DEF TurnInv
    <3>3. CASE sendq'[k] = t
      BY <2>3, <2>5, <3>1, <3>3
    <3> QED
      BY <2>2, <3>2, <3>3
  <2>6. \A i \in DOMAIN sendq' : InTurn(sendq'[i]) => InTurn(sendq[i])'
    BY <1>1 DEF InTurn
  <2> QED
    BY <2>4, <2>5, <2>6 DEF TurnInv
<1> QED
  BY <1>2, <1>3

\* When the first broadcast goes to the end it has one less to go: of those it
\* was as far as, it is ahead now and behind in the queue.
LEMMA SendKeepsTurn ==
  ASSUME StreamTypes, TaskInv, TurnInv, Send
  PROVE  TurnInv'
<1> SUFFICES ASSUME ~changed' PROVE TurnInv'
  BY DEF TurnInv
<1> DEFINE n == Len(sendq)
<1>1. ~changed /\ Recipients' = Recipients
  BY SentWhat DEF Recipients
<1>2. /\ sendq' \in Seq(Tasks) /\ n \in Nat /\ 1 \in DOMAIN sendq /\ 1 \in DOMAIN sendq[1].todo
      /\ \A i \in DOMAIN sendq' :
           \/ i + 1 \in DOMAIN sendq /\ sendq'[i] = sendq[i + 1]
           \/ /\ i = n /\ sendq'[i].client = sendq[1].client /\ Len(sendq'[i].todo) = Len(sendq[1].todo) - 1
              /\ \A j \in DOMAIN sendq'[i].todo :
                   j + 1 \in DOMAIN sendq[1].todo /\ sendq'[i].todo[j] = sendq[1].todo[j + 1]
  BY SentOn DEF Rotation
<1> DEFINE Moved(i) == i + 1 \in DOMAIN sendq /\ sendq'[i] = sendq[i + 1]
           Rest(i) == /\ Len(sendq'[i].todo) = Len(sendq[1].todo) - 1 /\ IsBroadcast(sendq[1])
                      /\ sendq'[i].todo[1].what = sendq[1].todo[1].what
                      /\ \A j \in DOMAIN sendq'[i].todo :
                           j + 1 \in DOMAIN sendq[1].todo /\ sendq'[i].todo[j] = sendq[1].todo[j + 1]
<1>3. ASSUME NEW i \in DOMAIN sendq', IsBroadcast(sendq'[i]), ~Moved(i) PROVE i = n /\ Rest(i)
  <2>1. PICK k \in DOMAIN sendq : 1 \in DOMAIN sendq'[i].todo /\ sendq'[i].client = sendq[k].client
    BY <1>3, SentFrom
  <2>2. /\ i = n /\ sendq'[i].client = sendq[1].client /\ Len(sendq'[i].todo) = Len(sendq[1].todo) - 1
        /\ \A j \in DOMAIN sendq'[i].todo :
             j + 1 \in DOMAIN sendq[1].todo /\ sendq'[i].todo[j] = sendq[1].todo[j + 1]
    BY <1>2, <1>3
  <2>3. Shaped(sendq[1])
    BY <1>2 DEF TaskInv
  <2>4. IsBroadcast(sendq[1]) /\ sendq'[i].todo[1].what = sendq[1].todo[1].what
    BY <1>2, <1>3, <2>1, <2>2, <2>3, StreamAssumption DEF Shaped, IsBroadcast
  <2> QED
    BY <2>2, <2>4
<1>4. \A k \in DOMAIN sendq : Len(sendq[k].todo) \in Nat /\ DOMAIN sendq[k].todo = 1..Len(sendq[k].todo)
  BY DEF StreamTypes, Tasks
<1>5. \A k \in DOMAIN sendq' : Len(sendq'[k].todo) \in Nat /\ DOMAIN sendq'[k].todo = 1..Len(sendq'[k].todo)
  BY <1>2 DEF Tasks
<1>6. ASSUME NEW i \in DOMAIN sendq', IsBroadcast(sendq'[i]) PROVE InTurn(sendq[i])'
  <2>1. CASE Moved(i)
    BY <1>1, <1>6, <2>1 DEF TurnInv, InTurn
  <2>2. CASE Rest(i)
    <3> DEFINE R == Recipients
               N == Len(R)
               old == sendq[1].todo
               new == sendq'[i].todo
    <3>1. InTurn(sendq[1])
      BY <1>1, <1>2, <2>2 DEF TurnInv
    <3>2. N - Len(old) \in Nat /\ \A j \in DOMAIN old : old[j].to = R[(N - Len(old)) + j]
      BY <3>1 DEF InTurn
    <3>3. N \in Nat /\ Len(old) \in Nat /\ Len(new) \in Nat /\ Len(new) = Len(old) - 1
          /\ DOMAIN old = 1..Len(old) /\ DOMAIN new = 1..Len(new)
      BY <1>2, <1>4, <1>5, <2>2, RecipientsListed
    <3>4. \A j \in DOMAIN new : j + 1 \in DOMAIN old /\ new[j] = old[j + 1]
      BY <2>2
    <3> HIDE DEF R, N, old, new
    <3>5. N - Len(new) \in Nat
      BY ONLY <3>2, <3>3
    <3>6. ASSUME NEW j \in DOMAIN new PROVE new[j].to = R[(N - Len(new)) + j]
      <4>1. (N - Len(old)) + (j + 1) = (N - Len(new)) + j
        BY ONLY <3>3, <3>6
      <4> QED
        BY <3>2, <3>4, <4>1
    <3> QED
      BY <1>1, <3>5, <3>6 DEF InTurn, R, N, new
  <2> QED
    BY <1>3, <1>6, <2>1, <2>2
<1>7. ASSUME NEW i \in DOMAIN sendq', NEW k \in DOMAIN sendq', i < k, IsBroadcast(sendq'[i]), IsBroadcast(sendq'[k])
      PROVE  \/ Behind(sendq'[i], sendq'[k])
             \/ Behind(sendq'[k], sendq'[i]) /\ Len(sendq'[k].todo) # Len(sendq'[i].todo)
  <2>0. DOMAIN sendq = 1..n /\ DOMAIN sendq' = 1..Len(sendq') /\ i \in Nat /\ k \in Nat /\ 1 <= i
    BY <1>2 DEF StreamTypes
  <2>1. Moved(i)
    <3>1. CASE i = n
      <4>1. k + 1 \notin DOMAIN sendq /\ k # n
        BY ONLY <1>2, <1>7, <2>0, <3>1
      <4> QED
        BY <1>3, <1>7, <4>1
    <3> QED
      BY <1>3, <1>7, <3>1
  <2>2. CASE Moved(k)
    <3>1. i + 1 < k + 1
      BY <1>7, <2>0
    <3> QED
      BY <1>1, <1>7, <2>1, <2>2, <3>1 DEF TurnInv
  <2>3. CASE Rest(k)
    <3> DEFINE first == sendq[1]
               other == sendq[i + 1]
    <3>1. 1 < i + 1
      BY <2>0
    <3>2. Behind(first, other) \/ (Behind(other, first) /\ Len(other.todo) # Len(first.todo))
      BY <1>1, <1>2, <1>7, <2>1, <2>3, <3>1 DEF TurnInv
    <3>3. Len(first.todo) \in Nat /\ Len(other.todo) \in Nat /\ Len(sendq'[k].todo) = Len(first.todo) - 1
          /\ sendq'[i] = other /\ sendq'[k].todo[1].what = first.todo[1].what
      BY <1>2, <1>4, <2>1, <2>3
    <3> HIDE DEF first, other
    <3>4. CASE Behind(first, other)
      <4>1. Len(sendq'[k].todo) <= Len(other.todo) /\ Len(sendq'[k].todo) # Len(other.todo)
        BY <3>3, <3>4 DEF Behind
      <4> QED
        BY <3>3, <3>4, <4>1 DEF Behind
    <3>5. CASE Behind(other, first) /\ Len(other.todo) # Len(first.todo)
      <4>1. Len(other.todo) <= Len(sendq'[k].todo)
        BY <3>3, <3>5 DEF Behind
      <4> QED
        BY <3>3, <3>5, <4>1 DEF Behind
    <3> QED
      BY <3>2, <3>4, <3>5
  <2> QED
    BY <1>3, <1>7, <2>2, <2>3
<1> QED
  BY <1>6, <1>7 DEF TurnInv

\* Every step keeps the turns.
LEMMA StepKeepsTurn ==
  ASSUME StreamTypes, NumberInv, TaskInv, OrderInv, TurnInv, Next
  PROVE  TurnInv'
<1>1. CASE UNCHANGED <<sendq, subscribers, changed>>
  <2>1. Recipients' = Recipients
    BY <1>1 DEF Recipients
  <2> QED
    BY <1>1, <2>1 DEF TurnInv, InTurn
<1>2. CASE Broadcast
  BY <1>2, BroadcastKeepsTurn
<1>3. CASE Send
  BY <1>3, SendKeepsTurn
<1>4. CASE ReadHistory
  <2>1. CASE history = <<>>
    BY <1>1, <1>4, <2>1 DEF ReadHistory
  <2>2. CASE history # <<>>
    BY <1>4, <2>2, HistoryTask, JoinKeepsTurn DEF ReadHistory
  <2> QED
    BY <2>1, <2>2
<1>5. ASSUME NEW c \in Clients, Subscribe(c) \/ Unsubscribe(c) PROVE TurnInv'
  <2> SUFFICES ASSUME ~changed' PROVE TurnInv'
    BY DEF TurnInv
  <2>1. \A i \in DOMAIN sendq : ~IsBroadcast(sendq[i])
    BY <1>5, NoBroadcasts DEF Subscribe, Unsubscribe
  <2>2. PICK t \in Tasks : sendq' = Append(sendq, t) /\ ~IsBroadcast(t)
    BY <1>5, ReplyTask DEF Subscribe, Unsubscribe
  <2> QED
    BY <2>1, <2>2, JoinKeepsTurn
<1> QED
  BY <1>1, <1>2, <1>3, <1>4, <1>5
     DEF Next, BeginLoad, Emit, Post, NoteOwn, EndLoad, Teardown, Note, Leave, Return, serverVars

\* What is sent to a client that does not replay is an event of a broadcast,
\* and later than all it has got; what else is on its way to it is later still.
LEMMA SendKeepsGot ==
  ASSUME StreamTypes, NumberInv, TaskInv, OrderInv, TurnInv, GotInv, Send
  PROVE  GotInv'
<1> SUFFICES ASSUME ~changed', NEW c \in Clients \ Replaying, NEW i \in DOMAIN got'[c]
             PROVE  /\ \A j \in DOMAIN got'[c] : i < j => got'[c][i] < got'[c][j]
                    /\ \A j \in DOMAIN posted' : got'[c][i] < posted'[j]
                    /\ \A k \in DOMAIN sendq' : \A j \in DOMAIN sendq'[k].todo :
                         IsBroadcast(sendq'[k]) /\ sendq'[k].todo[j].to = c => got'[c][i] < sendq'[k].todo[j].what
  BY DEF GotInv
<1> DEFINE m == sendq[1].todo[1]
<1>1. ~changed /\ posted' = posted /\ m \in [to : Clients, what : Nat]
      /\ got[c] \in Seq(Nat)
      /\ (got'[c] = got[c] \/ (got'[c] = Append(got[c], m.what) /\ m.to = c /\ m.what # Ok))
  <2>1. ~changed /\ posted' = posted /\ m \in [to : Clients, what : Nat] /\ Deliver(m)
    BY SentWhat
  <2>2. got[c] \in Seq(Nat)
    BY DEF StreamTypes
  <2> HIDE DEF m
  <2> QED
    BY <2>1, <2>2, Delivered
<1>2. /\ 1 \in DOMAIN sendq /\ 1 \in DOMAIN sendq[1].todo /\ sendq' \in Seq(Tasks) /\ Len(sendq) \in Nat
      /\ \A k \in DOMAIN sendq' :
           \/ k + 1 \in DOMAIN sendq /\ sendq'[k] = sendq[k + 1]
           \/ \A j \in DOMAIN sendq'[k].todo :
                j + 1 \in DOMAIN sendq[1].todo /\ sendq'[k].todo[j] = sendq[1].todo[j + 1]
  BY SentOn DEF Rotation
<1>3. ASSUME NEW x \in DOMAIN got[c], NEW k \in DOMAIN sendq', NEW j \in DOMAIN sendq'[k].todo,
             IsBroadcast(sendq'[k]), sendq'[k].todo[j].to = c
      PROVE  got[c][x] < sendq'[k].todo[j].what
  <2>1. PICK h \in DOMAIN sendq :
           /\ \A l \in DOMAIN sendq'[k].todo : \E g \in DOMAIN sendq[h].todo : sendq'[k].todo[l] = sendq[h].todo[g]
           /\ IsBroadcast(sendq[h])
    BY <1>3, SentFrom
  <2> QED
    BY <1>1, <1>3, <2>1 DEF GotInv
<1>4. CASE got'[c] = got[c]
  BY <1>1, <1>3, <1>4 DEF GotInv
<1>5. CASE got'[c] = Append(got[c], m.what) /\ m.to = c /\ m.what # Ok
  <2>1. IsBroadcast(sendq[1])
    <3>1. Shaped(sendq[1]) /\ sendq[1] \in Tasks
      BY <1>2 DEF TaskInv, StreamTypes
    <3> QED
      BY <1>2, <1>5, <3>1 DEF Shaped, IsBroadcast
  <2>2. \A x \in DOMAIN got[c] : got[c][x] < m.what
    BY <1>1, <1>2, <1>5, <2>1 DEF GotInv
  <2>3. \A j \in DOMAIN posted : m.what < posted[j]
    BY <1>2, <2>1 DEF OrderInv
  <2>4. ASSUME NEW k \in DOMAIN sendq', NEW j \in DOMAIN sendq'[k].todo,
               IsBroadcast(sendq'[k]), sendq'[k].todo[j].to = c
        PROVE  m.what < sendq'[k].todo[j].what
    <3> DEFINE N == Len(Recipients)
               old == sendq[1].todo
    <3>1. /\ N \in Nat /\ \A a, b \in 1..N : Recipients[a] = Recipients[b] => a = b
      BY RecipientsListed
    <3>2. InTurn(sendq[1])
      BY <1>1, <1>2, <2>1 DEF TurnInv
    <3>3. old \in Seq([to : Clients, what : Nat])
      <4>1. sendq[1] \in Tasks
        BY <1>2 DEF StreamTypes
      <4> QED
        BY <4>1 DEF Tasks
    <3>4. Len(old) \in Nat /\ DOMAIN old = 1..Len(old)
      BY <3>3
    <3>5. N - Len(old) \in Nat /\ \A a \in DOMAIN old : old[a].to = Recipients[(N - Len(old)) + a]
      BY <3>2 DEF InTurn
    <3>6. Recipients[(N - Len(old)) + 1] = c
      BY <1>2, <1>5, <3>5
    <3> HIDE DEF N
    <3>7. CASE k + 1 \in DOMAIN sendq /\ sendq'[k] = sendq[k + 1]
      <4> DEFINE todo == sendq[k + 1].todo
      <4>1. InTurn(sendq[k + 1]) /\ Shaped(sendq[k + 1]) /\ sendq[k + 1] \in Tasks
        BY <1>1, <2>4, <3>7 DEF TurnInv, TaskInv, StreamTypes
      <4>2. 1 < k + 1
        BY <1>2
      <4>3. Behind(sendq[1], sendq[k + 1]) \/ (Behind(sendq[k + 1], sendq[1]) /\ Len(todo) # Len(old))
        BY <1>1, <1>2, <2>1, <2>4, <3>7, <4>2 DEF TurnInv
      <4>4. sendq'[k].todo[j].what = todo[1].what
        BY <2>4, <3>7, <4>1 DEF Shaped
      <4>5. CASE Behind(sendq[1], sendq[k + 1])
        BY <4>4, <4>5 DEF Behind
      <4>6. CASE Behind(sendq[k + 1], sendq[1]) /\ Len(todo) # Len(old)
        <5>1. Len(todo) \in Nat /\ j \in 1..Len(todo)
          BY <2>4, <3>7, <4>1 DEF Tasks
        <5>2. N - Len(todo) \in Nat /\ Recipients[(N - Len(todo)) + j] = c
          BY <2>4, <3>7, <4>1 DEF InTurn, N
        <5>3. Len(todo) <= Len(old)
          BY <4>6 DEF Behind
        <5> HIDE DEF todo, old
        <5>4. /\ (N - Len(todo)) + j \in 1..N /\ (N - Len(old)) + 1 \in 1..N
              /\ (N - Len(todo)) + j # (N - Len(old)) + 1
          <6>1. 1 \in 1..Len(old)
            BY <1>2, <3>4 DEF old
          <6> QED
            BY ONLY <3>1, <3>4, <3>5, <4>6, <5>1, <5>2, <5>3, <6>1
        <5> QED
          BY <3>1, <3>6, <5>2, <5>4
      <4> QED
        BY <4>3, <4>5, <4>6
    <3>8. CASE j + 1 \in DOMAIN old /\ sendq'[k].todo[j] = old[j + 1]
      <4>1. Recipients[(N - Len(old)) + (j + 1)] = c
        BY <2>4, <3>5, <3>8
      <4>2. j \in Nat \ {0}
        <5>1. sendq'[k] \in Tasks
          BY <1>2
        <5>2. sendq'[k].todo \in Seq([to : Clients, what : Nat])
          BY <5>1 DEF Tasks
        <5> QED
          BY <2>4, <5>2
      <4> HIDE DEF old
      <4>3. (N - Len(old)) + (j + 1) \in 1..N /\ (N - Len(old)) + 1 \in 1..N
            /\ (N - Len(old)) + (j + 1) # (N - Len(old)) + 1
        <5>1. j + 1 \in 1..Len(old)
          BY <3>4, <3>8
        <5> QED
          BY ONLY <3>1, <3>4, <3>5, <4>2, <5>1
      <4> QED
        BY <3>1, <3>6, <4>1, <4>3
    <3> QED
      BY <1>2, <2>4, <3>7, <3>8
  <2> HIDE DEF m
  <2>5. \A x \in DOMAIN got'[c] : \/ x \in DOMAIN got[c] /\ got'[c][x] = got[c][x]
                                  \/ x = Len(got[c]) + 1 /\ got'[c][x] = m.what
    BY ONLY <1>1, <1>5
  <2>6. \A x \in DOMAIN got[c] : x < Len(got[c]) + 1 /\ x \in Nat /\ Len(got[c]) \in Nat
    BY ONLY <1>1
  <2>7. CASE i \in DOMAIN got[c] /\ got'[c][i] = got[c][i]
    BY <1>1, <1>3, <2>2, <2>5, <2>7 DEF GotInv
  <2>8. CASE i = Len(got[c]) + 1 /\ got'[c][i] = m.what
    <3>1. ASSUME NEW j \in DOMAIN got'[c] PROVE ~(i < j)
      <4>1. j = Len(got[c]) + 1 \/ (j < Len(got[c]) + 1 /\ j \in Nat /\ Len(got[c]) \in Nat)
        BY <2>5, <2>6, <3>1
      <4>2. Len(got[c]) \in Nat
        BY <1>1
      <4> QED
        BY <2>8, <4>1, <4>2
    <3> QED
      BY <1>1, <2>3, <2>4, <2>8, <3>1
  <2> QED
    BY <2>5, <2>7, <2>8
<1> QED
  BY <1>1, <1>4, <1>5

\* A task that is no broadcast concerns nobody who does not replay.
LEMMA JoinKeepsGot ==
  ASSUME StreamTypes, GotInv, NEW t \in Tasks, sendq' = Append(sendq, t), ~IsBroadcast(t),
         got' = got, posted' = posted, changed => changed'
  PROVE  GotInv'
<1>1. \A i \in DOMAIN sendq' : IsBroadcast(sendq'[i]) => i \in DOMAIN sendq /\ sendq'[i] = sendq[i]
  BY JoinFrom
<1> QED
  BY <1>1 DEF GotInv

\* An event that is broadcast is later than what was got, as it was when posted.
LEMMA BroadcastKeepsGot ==
  ASSUME StreamTypes, NumberInv, GotInv, Broadcast
  PROVE  GotInv'
<1>1. got' = got /\ changed' = changed /\ posted \in Seq(Nat) /\ posted # <<>> /\ posted' = Tail(posted)
  BY DEF Broadcast, StreamTypes
<1>2. 1 \in DOMAIN posted /\ \A j \in DOMAIN posted' : j + 1 \in DOMAIN posted /\ posted'[j] = posted[j + 1]
  BY ONLY <1>1
<1>3. CASE subscribers = {}
  <2>1. sendq' = sendq
    BY <1>3 DEF Broadcast
  <2> QED
    BY <1>1, <1>2, <2>1 DEF GotInv
<1>4. CASE subscribers # {}
  <2>1. PICK t \in Tasks :
           sendq' = Append(sendq, t) /\ Shaped(t) /\ IsBroadcast(t) /\ t.todo[1].what = posted[1]
    BY <1>4, BroadcastTask
  <2>2. \A i \in DOMAIN sendq' : (i \in DOMAIN sendq /\ sendq'[i] = sendq[i]) \/ sendq'[i] = t
    BY <2>1, JoinFrom
  <2>3. \A j \in DOMAIN t.todo : t.todo[j].what = posted[1]
    BY <2>1 DEF Shaped
  <2> QED
    BY <1>1, <1>2, <2>2, <2>3 DEF GotInv
<1> QED
  BY <1>3, <1>4

\* Every step keeps what is received in order.
LEMMA StepKeepsGot ==
  ASSUME StreamTypes, NumberInv, TaskInv, OrderInv, TurnInv, GotInv, Next
  PROVE  GotInv'
<1>1. CASE UNCHANGED <<sendq, posted, got, changed>>
  BY <1>1 DEF GotInv
<1>2. CASE Emit
  <2>1. posted \in Seq(Nat) /\ emitted \in Nat /\ posted' = Append(posted, emitted + 1)
        /\ UNCHANGED <<sendq, got, changed>>
    BY <1>2 DEF Emit, Post, StreamTypes
  <2>2. \A j \in DOMAIN posted' : (j \in DOMAIN posted /\ posted'[j] = posted[j]) \/ posted'[j] = emitted + 1
    BY ONLY <2>1
  <2>3. \A c \in Clients : \A i \in DOMAIN got[c] : got[c][i] < emitted + 1
    BY <2>1 DEF NumberInv
  <2> QED
    BY <2>1, <2>2, <2>3 DEF GotInv
<1>3. CASE Broadcast
  BY <1>3, BroadcastKeepsGot
<1>4. CASE Send
  BY <1>4, SendKeepsGot
<1>5. CASE ReadHistory
  <2>1. CASE history = <<>>
    BY <1>1, <1>5, <2>1 DEF ReadHistory
  <2>2. CASE history # <<>>
    BY <1>5, <2>2, HistoryTask, JoinKeepsGot DEF ReadHistory
  <2> QED
    BY <2>1, <2>2
<1>6. ASSUME NEW c \in Clients, Subscribe(c) \/ Unsubscribe(c) PROVE GotInv'
  <2>1. PICK t \in Tasks : sendq' = Append(sendq, t) /\ ~IsBroadcast(t)
    BY <1>6, ReplyTask DEF Subscribe, Unsubscribe
  <2>2. got' = got /\ posted' = posted /\ (changed => changed')
    BY <1>6 DEF Subscribe, Unsubscribe
  <2> QED
    BY <2>1, <2>2, JoinKeepsGot
<1>7. ASSUME NEW d \in Clients, Leave(d) PROVE GotInv'
  <2>1. UNCHANGED <<sendq, posted, changed>> /\ \A c \in Clients : got'[c] = got[c] \/ got'[c] = <<>>
    BY <1>7 DEF Leave, StreamTypes
  <2>2. \A c \in Clients : \A i \in DOMAIN got'[c] : got'[c] = got[c]
    BY <2>1
  <2> QED
    BY <2>1, <2>2 DEF GotInv
<1> QED
  BY <1>1, <1>2, <1>3, <1>4, <1>5, <1>6, <1>7
     DEF Next, BeginLoad, NoteOwn, EndLoad, Teardown, Note, Return, serverVars
-----------------------------------------------------------------------------
(* The theorems *)

\* The invariant holds in every state of every behaviour.
THEOREM StreamInvariant == Spec => []StreamInv
<1>1. StreamInv /\ [Next]_vars => StreamInv'
  <2> SUFFICES ASSUME StreamInv, [Next]_vars PROVE StreamInv'
    OBVIOUS
  <2>1. CASE Next
    BY <2>1, StepKeepsTypes, StepKeepsNumbers, StepKeepsTasks, StepKeepsProvided, StepKeepsOrder,
       StepKeepsTurn, StepKeepsGot DEF StreamInv
  <2>2. CASE UNCHANGED vars
    <3>1. UNCHANGED <<loadVars, serverVars>>
      BY <2>2 DEF vars
    <3>2. UNCHANGED <<emitted, own, noting, late, loads, loading, history, posted, subscribers, sendq, reading,
                      subscription, client, got, changed>>
      BY <3>1 DEF loadVars, serverVars
    <3>3. StreamTypes' /\ NumberInv' /\ TaskInv'
      BY <3>2 DEF StreamInv, StreamTypes, NumberInv, TaskInv, Shaped, IsBroadcast
    <3>4. MissInv'
      <4>1. ASSUME NEW c, NEW e, Provided(c, e) PROVE Provided(c, e)'
        BY <3>2, <4>1 DEF Provided, Received, Carried, WillRead, Contains
      <4>2. ToSet(history)' = ToSet(history)
        BY <3>2 DEF ToSet
      <4> QED
        BY <3>2, <4>1, <4>2 DEF StreamInv, MissInv, Noted
    <3>5. OrderInv' /\ GotInv'
      BY <3>2 DEF StreamInv, OrderInv, GotInv, IsBroadcast
    <3>6. TurnInv'
      BY <3>2 DEF StreamInv, TurnInv, InTurn, Recipients, IsBroadcast, Behind
    <3> QED
      BY <3>3, <3>4, <3>5, <3>6 DEF StreamInv
  <2> QED
    BY <2>1, <2>2
<1> QED
  BY <1>1, StartsStill, PTL DEF Spec

\* A subscriber that asked for the history has all of it once everything that
\* was on its way has arrived, but for what other threads noted after the load in
\* which they posted it: nothing falls between the history and the broadcasts,
\* whatever the interleaving of loads, threads and subscriptions.
THEOREM HistoryIsComplete == Spec => []NothingMissed
<1>1. ASSUME StreamInv PROVE NothingMissed
  <2> SUFFICES ASSUME Settled, NEW c \in subscribers \cap Replaying, Listening(c),
                      NEW e \in ToSet(history) \ late
               PROVE  e \in Received(c)
    BY DEF NothingMissed
  <2>1. posted = <<>> /\ sendq = <<>> /\ reading = NoOne /\ c # NoOne
    BY StreamAssumption DEF Settled
  <2>2. Provided(c, e)
    BY <1>1 DEF StreamInv, MissInv, Listening, Noted
  <2>3. ~Contains(posted, e)
    BY <2>1 DEF Contains
  <2>4. ~Carried(c, e) /\ ~WillRead(c)
    BY <2>1 DEF Carried, WillRead
  <2> QED
    BY <2>2, <2>3, <2>4 DEF Provided
<1> QED
  BY <1>1, StreamInvariant, PTL

\* Subscribers without replay get the events in the order they were posted, each
\* of them once, although the task of each event queues for the send lock again
\* after every client it has served.
THEOREM EventsInOrder == Spec => []LiveInOrder
<1>1. StreamInv => LiveInOrder
  BY DEF StreamInv, GotInv, LiveInOrder
<1> QED
  BY <1>1, StreamInvariant, PTL
=============================================================================
