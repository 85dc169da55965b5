------------------------------ MODULE LockSpec ------------------------------
(***************************************************************************)
(* What the spinlocks of system/spinlock.c promise their callers: a lock   *)
(* has at most one owner, it is taken in one step when nobody owns it, and *)
(* only its owner gives it back.                                           *)
(***************************************************************************)
CONSTANTS Thread,   \* threads of execution
          Lock,     \* lock identifiers
          None      \* "no owner"

VARIABLE owner      \* owner[l] is the thread that owns lock l, or None

TypeOK == owner \in [Lock -> Thread \cup {None}]

Init == owner = [l \in Lock |-> None]

Acquire(t, l) ==
  /\ owner[l] = None
  /\ owner' = [owner EXCEPT ![l] = t]

Release(t, l) ==
  /\ owner[l] = t
  /\ owner' = [owner EXCEPT ![l] = None]

Next == \E t \in Thread, l \in Lock : Acquire(t, l) \/ Release(t, l)

Spec == Init /\ [][Next]_owner
=============================================================================
