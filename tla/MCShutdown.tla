----------------------------- MODULE MCShutdown -----------------------------
\* A small instance of Shutdown for TLC.
EXTENDS Shutdown

CONSTANTS a, x, y, l1, l2, w1, w2

\* One listener has all the connections; the other only has to be woken.
HomeOne == [c \in Conns |-> l1]
=============================================================================
