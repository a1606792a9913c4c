--------------------------- MODULE FramePipeProofs ---------------------------
(***************************************************************************)
(* What pipe() writes and requests, for a clip of any length, any prefetch *)
(* and backlog, and requests that are settled in any order.                *)
(***************************************************************************)
EXTENDS FramePipe, FiniteSetTheorems, TLAPS

\* The frames of a run and their number.
LEMMA RunLength ==
  ASSUME NEW first \in Nat, NEW end \in Nat, first <= end
  PROVE  Cardinality(first..(end - 1)) = end - first
<1>1. first \in Int /\ end - 1 \in Int
  OBVIOUS
<1>2. Cardinality(first..(end - 1)) = IF first > end - 1 THEN 0 ELSE (end - 1) - first + 1
  BY <1>1, FS_Interval
<1> QED BY <1>2

\* The run is extended by one frame, which is requested once.
Counts(end) == [k \in Frames |-> IF k < end THEN 1 ELSE 0]
LEMMA RunGrows ==
  ASSUME NEW first \in Nat, NEW end \in Frames, first <= end
  PROVE  /\ (first..(end - 1)) \cup {end} = first..((end + 1) - 1)
         /\ [Counts(end) EXCEPT ![end] = @ + 1] = Counts(end + 1)
<1>1. end \in Nat /\ \A k \in Frames : k \in Nat
  BY PipeAssumption DEF Frames, PipeAssumption
<1>2. (first..(end - 1)) \cup {end} = first..((end + 1) - 1)
  BY <1>1
<1>3. \A k \in Frames : IF k = end THEN Counts(end)[k] + 1 = Counts(end + 1)[k]
                        ELSE Counts(end)[k] = Counts(end + 1)[k]
  BY <1>1 DEF Counts
<1>4. [Counts(end) EXCEPT ![end] = @ + 1]
        = [k \in Frames |-> IF k = end THEN Counts(end)[k] + 1 ELSE Counts(end)[k]]
  BY DEF Counts
<1>5. Counts(end + 1) = [k \in Frames |-> Counts(end + 1)[k]]
  BY DEF Counts
<1>6. [k \in Frames |-> IF k = end THEN Counts(end)[k] + 1 ELSE Counts(end)[k]]
        = [k \in Frames |-> Counts(end + 1)[k]]
  BY <1>3
<1> QED BY <1>2, <1>4, <1>5, <1>6

\* The frame the run starts at, and the one after its end.
First == IF pos = "loop" THEN n ELSE n + 1
RunEnd == First + Cardinality(inflight)

\* As long as the thread is in the loop the run lies in the clip.
LEMMA RunInClip ==
  ASSUME PipeInv, pos \in {"loop", "wait"}
  PROVE  /\ First \in Nat /\ RunEnd \in Nat /\ First <= RunEnd /\ RunEnd <= NumFrames
         /\ inflight = First..(RunEnd - 1)
         /\ asked = Counts(RunEnd)
<1> USE PipeAssumption DEF PipeAssumption, PipeInv, TypeOK, Frames
<1>1. First \in Nat /\ First <= NumFrames
  BY DEF First
<1>2. IsFiniteSet(inflight)
  <2>1. IsFiniteSet(0..(NumFrames - 1)) BY FS_Interval
  <2> QED BY <2>1, FS_Subset
<1>3. RunEnd \in Nat /\ First <= RunEnd
  BY <1>1, <1>2, FS_CardinalityType DEF RunEnd
<1>4. /\ inflight = First..(RunEnd - 1)
      /\ asked = Counts(RunEnd)
  BY DEF Unbroken, First, RunEnd, Counts
<1>5. RunEnd <= NumFrames
  <2>1. CASE RunEnd = First BY <1>1, <2>1
  <2>2. CASE RunEnd # First
    <3>1. RunEnd - 1 \in inflight BY <1>1, <1>3, <1>4, <2>2
    <3> QED BY <1>3, <3>1
  <2> QED BY <2>1, <2>2
<1> QED BY <1>1, <1>3, <1>4, <1>5

\* The run is known by its ends.
LEMMA UnbrokenByEnds ==
  ASSUME NEW first \in Nat, NEW end \in Nat, first <= end,
         first = First', inflight' = first..(end - 1),
         asked' = Counts(end)
  PROVE  Unbroken'
<1>1. Cardinality(inflight') = end - first
  BY RunLength
<1>2. first + Cardinality(inflight') = end
  BY <1>1
<1> QED BY <1>2 DEF Unbroken, First, Counts
-----------------------------------------------------------------------------
\* A request is made for the frame after the run.
LEMMA FillInv == PipeInv /\ Fill => PipeInv'
<1> SUFFICES ASSUME PipeInv, Fill PROVE PipeInv'
  OBVIOUS
<1>1. /\ First \in Nat /\ RunEnd \in Nat /\ First <= RunEnd
      /\ inflight = First..(RunEnd - 1) /\ asked = Counts(RunEnd)
  BY RunInClip DEF Fill
<1>2. RunEnd = NextToRequest /\ First' = First
  BY DEF First, RunEnd, NextToRequest, Fill
<1>3. RunEnd \in Frames
  BY <1>1, <1>2, PipeAssumption DEF Fill, Fills, Frames, PipeAssumption
<1>4. inflight' = inflight \cup {RunEnd} /\ asked' = [asked EXCEPT ![RunEnd] = @ + 1]
  BY <1>2 DEF Fill, Requests
<1>5. inflight' = First..((RunEnd + 1) - 1) /\ asked' = Counts(RunEnd + 1)
  BY <1>1, <1>3, <1>4, RunGrows
<1>6. RunEnd + 1 \in Nat /\ First <= RunEnd + 1
  BY <1>1
<1>7. Unbroken'
  BY <1>1, <1>2, <1>5, <1>6, UnbrokenByEnds
<1>8. TypeOK'
  BY <1>3, <1>4 DEF PipeInv, TypeOK, Fill
<1> QED BY <1>7, <1>8 DEF PipeInv, WrittenInOrder, Fill

\* The frame to write next is the first of the run, or the run is empty.
LEMMA TakeInv == PipeInv /\ Take => PipeInv'
<1> SUFFICES ASSUME PipeInv, Take PROVE PipeInv'
  OBVIOUS
<1>1. /\ First \in Nat /\ RunEnd \in Nat /\ First <= RunEnd
      /\ inflight = First..(RunEnd - 1) /\ asked = Counts(RunEnd)
  BY RunInClip DEF Take
<1>2. First = n /\ First' = n + 1 /\ n \in Frames /\ n \in Nat
  BY <1>1, PipeAssumption DEF First, Frames, Take, PipeInv, TypeOK, PipeAssumption
<1>3. Unbroken'
  <2>1. CASE n \in inflight
    <3>1. n + 1 <= RunEnd /\ inflight' = (n + 1)..(RunEnd - 1) /\ asked' = asked
      BY <1>1, <1>2, <2>1 DEF Take
    <3> QED BY <1>1, <1>2, <3>1, UnbrokenByEnds
  <2>2. CASE n \notin inflight
    <3>1. RunEnd = n
      BY <1>1, <1>2, <2>2
    <3>2. inflight' = (n + 1)..((n + 1) - 1)
      BY <1>1, <1>2, <3>1 DEF Take
    <3>3. asked' = Counts(n + 1)
      BY <1>1, <1>2, <2>2, <3>1, RunGrows DEF Take, Requests
    <3> QED BY <1>2, <3>2, <3>3, UnbrokenByEnds
  <2> QED BY <2>1, <2>2
<1>4. TypeOK'
  BY DEF PipeInv, TypeOK, Take, Requests
<1> QED BY <1>3, <1>4, PipeAssumption DEF PipeInv, WrittenInOrder, Take

\* The frame that has arrived is the next one on stdout.
LEMMA WriteInv == PipeInv /\ Write => PipeInv'
<1> SUFFICES ASSUME PipeInv, Write PROVE PipeInv'
  OBVIOUS
<1> USE PipeAssumption DEF PipeAssumption, PipeInv, TypeOK, Write
<1>1. /\ First = n + 1 /\ First' = n + 1
      /\ First \in Nat /\ RunEnd \in Nat /\ First <= RunEnd
      /\ inflight = First..(RunEnd - 1)
      /\ asked = Counts(RunEnd)
  BY RunInClip DEF First
<1>2. Unbroken'
  BY <1>1, UnbrokenByEnds
<1>3. WrittenInOrder'
  BY DEF WrittenInOrder
<1>4. TypeOK'
  BY DEF Frames
<1> QED BY <1>2, <1>3, <1>4

\* Every other step leaves the run as it is, or leaves the loop.
LEMMA OtherPipeInv ==
  PipeInv /\ (Abort \/ End \/ (\E k \in Frames : Settle(k)) \/ UNCHANGED vars) => PipeInv'
<1> SUFFICES ASSUME PipeInv, Abort \/ End \/ (\E k \in Frames : Settle(k)) \/ UNCHANGED vars
             PROVE  PipeInv'
  OBVIOUS
<1> USE DEF PipeInv, TypeOK, vars, Abort, End, Settle
<1>1. TypeOK' OBVIOUS
<1>2. WrittenInOrder' BY DEF WrittenInOrder
<1>3. Unbroken' BY DEF Unbroken
<1> QED BY <1>1, <1>2, <1>3

\* PipeInv holds throughout.
LEMMA PipeInvariant == Spec => []PipeInv
<1>1. Init => PipeInv
  <2> SUFFICES ASSUME Init PROVE PipeInv
    OBVIOUS
  <2> USE PipeAssumption DEF PipeAssumption, Init, Frames
  <2>1. TypeOK BY DEF TypeOK, Frames
  <2>2. WrittenInOrder BY DEF WrittenInOrder
  <2>3. Unbroken BY FS_EmptySet DEF Unbroken
  <2> QED BY <2>1, <2>2, <2>3 DEF PipeInv
<1>2. PipeInv /\ [Next]_vars => PipeInv'
  BY FillInv, TakeInv, WriteInv, OtherPipeInv DEF Next, Stopped
<1> QED BY <1>1, <1>2, PTL DEF Spec

\* Every variable of the pipe keeps its type.
THEOREM PipeTypeCorrect == Spec => []TypeOK
<1>1. PipeInv => TypeOK BY DEF PipeInv
<1> QED BY <1>1, PipeInvariant, PTL

\* In whatever order requests are settled, stdout gets the frames in theirs.
THEOREM FramesWrittenInOrder == Spec => []WrittenInOrder
<1>1. PipeInv => WrittenInOrder BY DEF PipeInv
<1> QED BY <1>1, PipeInvariant, PTL

\* The window is an unbroken run and each of its frames was requested once.
THEOREM WindowUnbroken == Spec => []Unbroken
<1>1. PipeInv => Unbroken BY DEF PipeInv
<1> QED BY <1>1, PipeInvariant, PTL

\* A pipe that ends well has written the whole clip, the safety half of
\* Completes.
THEOREM WholeClipWritten == Spec => [](pos = "ended" => Len(written) = NumFrames)
<1>1. PipeInv => (pos = "ended" => Len(written) = NumFrames)
  BY PipeAssumption DEF PipeAssumption, PipeInv, TypeOK, WrittenInOrder
<1> QED BY <1>1, PipeInvariant, PTL
=============================================================================
