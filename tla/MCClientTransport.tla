------------------------- MODULE MCClientTransport -------------------------
EXTENDS ClientTransport, TLC

\* Requests and callers are interchangeable; used by the safety runs only.
MCSymmetry == Permutations(Requests) \cup Permutations(Callers)
=============================================================================
