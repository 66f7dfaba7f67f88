------------------------- MODULE MCConcurrentQueue -------------------------
\* TLC instance of ConcurrentQueue.  No symmetry: the run checks liveness.
EXTENDS ConcurrentQueue
CONSTANTS t1, t2, t3
=============================================================================
