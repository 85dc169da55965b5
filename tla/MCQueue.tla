------------------------------ MODULE MCQueue -------------------------------
\* Three cores: c1 and c2 are each the home of one queue, c3 only enqueues.
EXTENDS Queue

CONSTANTS c1, c2, c3

MCHome == [q \in Queues |-> IF q = 0 THEN c1 ELSE c2]
=============================================================================
