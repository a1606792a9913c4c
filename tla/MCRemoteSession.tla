-------------------------- MODULE MCRemoteSession --------------------------
EXTENDS RemoteSession, TLC

\* Threads are interchangeable.
MCSymmetry == Permutations(Threads)
=============================================================================
