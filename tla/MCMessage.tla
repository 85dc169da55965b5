----------------------------- MODULE MCMessage ------------------------------
\* Processes p1 and p2 share a core, p3 has its own, p4 is a free slot.
EXTENDS Message

CONSTANTS c1, c2, p1, p2, p3, p4

MCCoreOf == [p \in Proc |-> IF p = p3 THEN c2 ELSE c1]
=============================================================================
