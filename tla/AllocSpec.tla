----------------------------- MODULE AllocSpec ------------------------------
(***************************************************************************)
(* What the heap promises: blocks handed out never overlap, lie in the     *)
(* region of the caller's core, and a request fails only when that region  *)
(* has no free stretch that is large enough.  A free fails only if it is   *)
(* not of a block handed out.                                              *)
(***************************************************************************)
EXTENDS Integers

CONSTANTS Core, Region(_), Size, Need(_), ALIGN, SYSERR, OK

VARIABLES owned,   \* blocks handed out: [addr, size], size as requested
          call     \* the last call and its result

allocvars == <<owned, call>>

\* A free stretch of n bytes at an aligned address of core c's region.
Gap(c, a, n) ==
  /\ a % ALIGN = 0
  /\ a .. a + n - 1 \subseteq Region(c)
  /\ \A b \in owned : (b.addr .. b.addr + Need(b.size) - 1) \cap (a .. a + n - 1) = {}

Init == owned = {} /\ call = <<>>

Allocate(c, n) ==
  /\ n # 0
  /\ \E a \in Region(c) :
       /\ Gap(c, a, Need(n))
       /\ owned' = owned \cup {[addr |-> a, size |-> n]}
       /\ call' = <<"get", c, n, a>>

Fail(c, n) ==
  /\ n = 0 \/ \A a \in Region(c) : ~Gap(c, a, Need(n))
  /\ call' = <<"get", c, n, SYSERR>>
  /\ UNCHANGED owned

Free(b) == owned' = owned \ {b} /\ call' = <<"free", b.addr, b.size, OK>>

\* Freeing what is not a block handed out has no effect.
Refuse(a, n) ==
  /\ [addr |-> a, size |-> n] \notin owned
  /\ call' = <<"free", a, n, SYSERR>>
  /\ UNCHANGED owned

Next ==
  \/ \E c \in Core, n \in Size : Allocate(c, n) \/ Fail(c, n)
  \/ \E b \in owned : Free(b)
  \/ \E c \in Core : \E a \in Region(c), n \in Size : Refuse(a, n)

Spec == Init /\ [][Next]_allocvars
=============================================================================
