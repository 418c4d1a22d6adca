--------------------------- MODULE MCSocksAdmission ---------------------------
\* SocksAdmission on two connections and two semaphores of one slot.
EXTENDS SocksAdmission

CONSTANTS m1, m2

TwoSems == {m1, m2}
OneEach == [m \in TwoSems |-> 1]
=============================================================================
