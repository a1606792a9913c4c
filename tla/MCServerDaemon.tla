--------------------------- MODULE MCServerDaemon ---------------------------
EXTENDS ServerDaemon, TLC

CONSTANTS f1, f2, q1, x1, a, b

\* Client a asks for a frame, cancels it and, restarted under its old identity,
\* counts from 1 again with q1; client b asks for a frame of its own.
MCClient == (f1 :> a) @@ (x1 :> a) @@ (q1 :> a) @@ (f2 :> b)
MCReqId  == (f1 :> 1) @@ (x1 :> 0) @@ (q1 :> 1) @@ (f2 :> 1)
MCTarget == x1 :> 1
=============================================================================
