----------------------------- MODULE FramePipe ------------------------------
(***************************************************************************)
(* cli.py, pipe(): one thread writes every frame of the clip to stdout, in *)
(* order, with requests for the next frames under way.  Requests are       *)
(* settled by the transport in any order.  Contents are left out.          *)
(***************************************************************************)
EXTENDS Naturals, FiniteSets, Sequences

CONSTANTS NumFrames, \* clip_info.num_frames
          Prefetch,  \* --prefetch
          Backlog    \* --backlog

ASSUME PipeAssumption == NumFrames \in Nat /\ Prefetch \in Nat /\ Backlog \in Nat

VARIABLES
  pos,       \* where the thread is in the loop
  n,         \* the frame to write next
  inflight,  \* frames with a future in inflight
  asked,     \* asked[k]: how many requests for frame k were made
  answered,  \* frames with a future that has a result
  failed,    \* frames with a future that has an exception or an error header
  written    \* the frames on stdout

vars == <<pos, n, inflight, asked, answered, failed, written>>

Frames == 0..(NumFrames - 1)
\* max(prefetch_count, backlog)
Limit == IF Backlog >= Prefetch THEN Backlog ELSE Prefetch

Init ==
  /\ pos = "loop" /\ n = 0 /\ inflight = {}
  /\ asked = [k \in Frames |-> 0] /\ answered = {} /\ failed = {}
  /\ written = <<>>

\* Fault: off by one, frame n is not among them.
NextAfterRun == n + Cardinality(inflight) + 1

\* The frame the inner loop would request now.
NextToRequest == n + Cardinality(inflight)

\* Fault: the end of the clip is not looked at.
FillsPastEnd == /\ Prefetch > 0 /\ Cardinality(inflight) < Limit
                /\ NextToRequest <= n + Prefetch /\ NextToRequest \notin inflight

Fills == /\ Prefetch > 0 /\ Cardinality(inflight) < Limit
         /\ NextToRequest < NumFrames /\ NextToRequest <= n + Prefetch
         /\ NextToRequest \notin inflight

Requests(k) == asked' = [asked EXCEPT ![k] = @ + 1]

\* One turn of the inner loop.
Fill ==
  /\ pos = "loop" /\ n < NumFrames /\ Fills
  /\ inflight' = inflight \cup {NextToRequest}
  /\ Requests(NextToRequest)
  /\ UNCHANGED <<pos, n, answered, failed, written>>

\* Fault: a prefetched frame is requested again.
TakeAnew ==
  /\ pos = "loop" /\ n < NumFrames /\ ~Fills
  /\ pos' = "wait" /\ inflight' = inflight \ {n} /\ Requests(n)
  /\ UNCHANGED <<n, answered, failed, written>>

\* The inner loop is left; frame n is taken out, or requested only now.
Take ==
  /\ pos = "loop" /\ n < NumFrames /\ ~Fills
  /\ pos' = "wait"
  /\ inflight' = inflight \ {n}
  /\ IF n \in inflight THEN UNCHANGED asked ELSE Requests(n)
  /\ UNCHANGED <<n, answered, failed, written>>

\* Fault: frames are written as they arrive.
WriteAsArrived ==
  /\ pos = "wait"
  /\ \E k \in answered \ {written[i] : i \in DOMAIN written} : written' = Append(written, k)
  /\ n' = n + 1 /\ pos' = "loop"
  /\ UNCHANGED <<inflight, asked, answered, failed>>

\* The frame has arrived and is written and flushed.
Write ==
  /\ pos = "wait" /\ n \in answered
  /\ written' = Append(written, n)
  /\ n' = n + 1 /\ pos' = "loop"
  /\ UNCHANGED <<inflight, asked, answered, failed>>

\* Fault: the wait has no timeout.
AbortOnError ==
  /\ pos = "wait" /\ n \in failed /\ pos' = "aborted"
  /\ UNCHANGED <<n, inflight, asked, answered, failed, written>>

\* The frame failed or the wait timed out: pipe ends with the exception.
Abort ==
  /\ pos = "wait" /\ n \notin answered
  /\ pos' = "aborted"
  /\ UNCHANGED <<n, inflight, asked, answered, failed, written>>

End ==
  /\ pos = "loop" /\ n = NumFrames
  /\ pos' = "ended"
  /\ UNCHANGED <<n, inflight, asked, answered, failed, written>>

\* The transport settles a request.
Settle(k) ==
  /\ asked[k] > 0 /\ k \notin answered \cup failed
  /\ \/ answered' = answered \cup {k} /\ UNCHANGED failed
     \/ failed' = failed \cup {k} /\ UNCHANGED answered
  /\ UNCHANGED <<pos, n, inflight, asked, written>>

Stopped == pos \in {"ended", "aborted"} /\ UNCHANGED vars

Next == Fill \/ Take \/ Write \/ Abort \/ End \/ Stopped \/ \E k \in Frames : Settle(k)

\* The thread goes on: a wait ends with the frame, an error or its timeout.
Fairness == WF_vars(Fill \/ Take \/ Write \/ Abort \/ End)

Spec == Init /\ [][Next]_vars /\ Fairness
-----------------------------------------------------------------------------
TypeOK ==
  /\ pos \in {"loop", "wait", "ended", "aborted"} /\ n \in 0..NumFrames
  /\ inflight \in SUBSET Frames /\ asked \in [Frames -> Nat]
  /\ answered \in SUBSET Frames /\ failed \in SUBSET Frames
  /\ written \in Seq(Frames)

\* However replies are ordered, stdout gets the frames one after the other.
WrittenInOrder == written = [k \in 1..n |-> k - 1]

\* What is in flight is an unbroken run of frames that starts at the frame to
\* write next, so counting from its length finds the next frame to request, and
\* the loop never stops early at a frame it has already requested: the frames up
\* to the end of the run were requested once each, and no others.
Unbroken ==
  LET first == IF pos = "loop" THEN n ELSE n + 1
      end   == first + Cardinality(inflight)
  IN pos \in {"loop", "wait"} =>
       /\ inflight = first..(end - 1)
       /\ asked = [k \in Frames |-> IF k < end THEN 1 ELSE 0]

\* The inductive invariant behind these: besides them, where the thread is tells
\* whether there is a frame left to write.
PipeInv == /\ TypeOK /\ WrittenInOrder /\ Unbroken
           /\ pos = "wait" => n < NumFrames
           /\ pos = "ended" => n = NumFrames

\* pipe ends, and when it ends well the whole clip has been written.
Completes == /\ <>(pos \in {"ended", "aborted"})
             /\ [](pos = "ended" => Len(written) = NumFrames)
=============================================================================
