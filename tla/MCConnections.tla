---------------------------- MODULE MCConnections -----------------------------
\* Connections on two connections, two semaphores and two incarnations.
EXTENDS Connections

CONSTANTS c1, c2, m1, m2

MCConns == {c1, c2}
MCSems == {m1, m2}
\* Two connections are enough to exceed either limit.
MCCapacity == [m \in MCSems |-> 1]
=============================================================================
