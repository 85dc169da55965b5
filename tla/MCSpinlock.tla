----------------------------- MODULE MCSpinlock -----------------------------
\* Two cores, two threads on the first and one on the second.
EXTENDS Spinlock

CONSTANTS c1, c2, t1, t2, t3

MCCoreOf == [t \in {t1, t2, t3} |-> IF t = t3 THEN c2 ELSE c1]
=============================================================================
