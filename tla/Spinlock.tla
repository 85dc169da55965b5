------------------------------ MODULE Spinlock ------------------------------
(***************************************************************************)
(* The spinlock table of system/spinlock.c over the exclusive-monitor      *)
(* instructions of system/spinlock_util.S.                                 *)
(*                                                                         *)
(* A thread is bound to a core (a process never changes core_affinity      *)
(* once ready() has set it) and takes steps only while its core runs it.   *)
(* A core has one local exclusive monitor: ldrex arms it for an address,   *)
(* any store to that address by a thread of another core, any strex of     *)
(* this core, and any return from an exception open it again.              *)
(*                                                                         *)
(* holds and known describe the callers: the locks each thread has taken,  *)
(* and the lock identifiers lock_create() has returned and nobody freed.   *)
(***************************************************************************)
EXTENDS Naturals, FiniteSets

CONSTANTS NLOCK,      \* size of locktab
          Core,       \* the processor cores
          Thread,     \* threads of execution
          CoreOf,     \* the core each thread is bound to
          Creators,   \* threads that call lock_create()
          None        \* no core, open monitor, no owner

Lock == 0 .. NLOCK - 1

ASSUME SpinlockAssumption ==
  /\ NLOCK \in Nat \ {0}
  /\ CoreOf \in [Thread -> Core]
  /\ Creators \subseteq Thread
  /\ None \notin Core \cup Lock \cup Thread
  /\ \A c \in Core : \E t \in Thread : CoreOf[t] = c

VARIABLES state,      \* state[l]
          lock,       \* lock[l], the lock word
          core,       \* core[l]
          nextlock,   \* static nextlock of lock_alloc()
          monitor,    \* monitor[c]: the lock word armed by ldrex, or None
          running,    \* running[c]: the thread core c executes
          pc,         \* the next instruction of each thread
          arg,        \* the lock the thread's call works on
          tries,      \* loop counter i of lock_alloc()
          holds,      \* callers: locks taken and not yet given back
          known       \* callers: live results of lock_create()

vars == <<state, lock, core, nextlock, monitor, running, pc, arg, tries, holds, known>>

-----------------------------------------------------------------------------
Running(t) == running[CoreOf[t]] = t

\* A thread that is past its successful strex and before its unlocking store.
Owns(t, l) == l \in holds[t] \/ (arg[t] = l /\ pc[t] \in {"owner", "unlock"})

Acquiring(t, l) == arg[t] = l /\ pc[t] \in {"ldrex", "strex"}

\* A store to a lock word opens every monitor armed for it.
Opened(l) == [c \in Core |-> IF monitor[c] = l THEN None ELSE monitor[c]]

Goto(t, label) == pc' = [pc EXCEPT ![t] = label]

\* platforminit(): every entry free and unlocked; static nextlock = 0.
Init ==
  /\ state = [l \in Lock |-> "FREE"]
  /\ lock = [l \in Lock |-> "UNLOCKED"]
  /\ core = [l \in Lock |-> None]
  /\ nextlock = 0
  /\ monitor = [c \in Core |-> None]
  /\ running \in [Core -> Thread]
  /\ \A c \in Core : CoreOf[running[c]] = c
  /\ pc = [t \in Thread |-> "out"]
  /\ arg = [t \in Thread |-> 0]
  /\ tries = [t \in Thread |-> 0]
  /\ holds = [t \in Thread |-> {}]
  /\ known = {}

-----------------------------------------------------------------------------
(* lock_acquire() *)

\* Entry: isbadlock() passes; no caller takes a lock it already holds.
lock_acquire(t, l) ==
  /\ Running(t) /\ pc[t] = "out"
  /\ l \in known /\ l \notin holds[t]
  /\ state[l] # "FREE"
  /\ arg' = [arg EXCEPT ![t] = l]
  /\ Goto(t, "ldrex")
  /\ UNCHANGED <<state, lock, core, nextlock, monitor, running, tries, holds, known>>

\* Mutant: the lock word is not compared with LOCKED.
LdrexUntested(t) ==
  /\ Running(t) /\ pc[t] = "ldrex"
  /\ monitor' = [monitor EXCEPT ![CoreOf[t]] = arg[t]]
  /\ Goto(t, "strex")
  /\ UNCHANGED <<state, lock, core, nextlock, running, arg, tries, holds, known>>

\* ldrex r1; cmp r1, LOCKED; beq: the monitor stays armed on the retry.
Ldrex(t) ==
  /\ Running(t) /\ pc[t] = "ldrex"
  /\ monitor' = [monitor EXCEPT ![CoreOf[t]] = arg[t]]
  /\ Goto(t, IF lock[arg[t]] = "LOCKED" THEN "ldrex" ELSE "strex")
  /\ UNCHANGED <<state, lock, core, nextlock, running, arg, tries, holds, known>>

\* strex with the monitor armed stores LOCKED and opens all monitors on it.
Strex(t) ==
  /\ Running(t) /\ pc[t] = "strex"
  /\ monitor[CoreOf[t]] = arg[t]
  /\ lock' = [lock EXCEPT ![arg[t]] = "LOCKED"]
  /\ monitor' = Opened(arg[t])
  /\ Goto(t, "owner")
  /\ UNCHANGED <<state, core, nextlock, running, arg, tries, holds, known>>

\* Mutants: the result of strex is ignored; the retry skips the ldrex.
StrexFailIgnored(t) ==
  /\ Running(t) /\ pc[t] = "strex"
  /\ monitor' = [monitor EXCEPT ![CoreOf[t]] = None]
  /\ Goto(t, "owner")
  /\ UNCHANGED <<state, lock, core, nextlock, running, arg, tries, holds, known>>

StrexFailNoReload(t) ==
  /\ Running(t) /\ pc[t] = "strex"
  /\ monitor' = [monitor EXCEPT ![CoreOf[t]] = None]
  /\ UNCHANGED <<state, lock, core, nextlock, running, pc, arg, tries, holds, known>>

\* strex fails when the monitor is open (and may fail spuriously): retry.
StrexFail(t) ==
  /\ Running(t) /\ pc[t] = "strex"
  /\ monitor' = [monitor EXCEPT ![CoreOf[t]] = None]
  /\ Goto(t, "ldrex")
  /\ UNCHANGED <<state, lock, core, nextlock, running, arg, tries, holds, known>>

\* core[lock] = getcpuid(); return OK.
SetCore(t) ==
  /\ Running(t) /\ pc[t] = "owner"
  /\ core' = [core EXCEPT ![arg[t]] = CoreOf[t]]
  /\ holds' = [holds EXCEPT ![t] = @ \cup {arg[t]}]
  /\ Goto(t, "out")
  /\ UNCHANGED <<state, lock, nextlock, monitor, running, arg, tries, known>>

-----------------------------------------------------------------------------
(* lock_release() *)

\* Mutant: the core field is not reset.
lock_releaseNoReset(t, l) ==
  /\ Running(t) /\ pc[t] = "out"
  /\ l \in holds[t] /\ state[l] # "FREE"
  /\ holds' = [holds EXCEPT ![t] = @ \ {l}]
  /\ arg' = [arg EXCEPT ![t] = l]
  /\ Goto(t, "unlock")
  /\ UNCHANGED <<state, lock, core, nextlock, monitor, running, tries, known>>

\* core[lock] = -1 comes before the unlocking store.
lock_release(t, l) ==
  /\ Running(t) /\ pc[t] = "out"
  /\ l \in holds[t] /\ state[l] # "FREE"
  /\ core' = [core EXCEPT ![l] = None]
  /\ holds' = [holds EXCEPT ![t] = @ \ {l}]
  /\ arg' = [arg EXCEPT ![t] = l]
  /\ Goto(t, "unlock")
  /\ UNCHANGED <<state, lock, nextlock, monitor, running, tries, known>>

\* _lock_release(): dmb; str UNLOCKED; dmb.
StoreUnlocked(t) ==
  /\ Running(t) /\ pc[t] = "unlock"
  /\ lock' = [lock EXCEPT ![arg[t]] = "UNLOCKED"]
  /\ monitor' = Opened(arg[t])
  /\ Goto(t, "out")
  /\ UNCHANGED <<state, core, nextlock, running, arg, tries, holds, known>>

-----------------------------------------------------------------------------
(* lock_create() and lock_free() *)

lock_create(t) ==
  /\ Running(t) /\ pc[t] = "out" /\ t \in Creators
  /\ tries' = [tries EXCEPT ![t] = 0]
  /\ Goto(t, "inc")
  /\ UNCHANGED <<state, lock, core, nextlock, monitor, running, arg, holds, known>>

\* The loop of lock_alloc(): for (i = 0; i < NLOCK; i++), else SYSERR.
\* _atomic_increment_mod(&nextlock, NLOCK) wraps to 0 on reaching NLOCK.
AllocIncrement(t) ==
  /\ Running(t) /\ pc[t] = "inc"
  /\ IF tries[t] < NLOCK
       THEN /\ nextlock' = IF nextlock + 1 >= NLOCK THEN 0 ELSE nextlock + 1
            /\ Goto(t, "check")
       ELSE /\ Goto(t, "out")
            /\ UNCHANGED nextlock
  /\ UNCHANGED <<state, lock, core, monitor, running, arg, tries, holds, known>>

\* nextlock is read again, after the atomic increment (the -Os build loads it
\* once for the test, the mark and the result).
AllocCheck(t) ==
  /\ Running(t) /\ pc[t] = "check"
  /\ IF state[nextlock] = "FREE"
       THEN /\ arg' = [arg EXCEPT ![t] = nextlock]
            /\ Goto(t, "mark")
            /\ UNCHANGED tries
       ELSE /\ tries' = [tries EXCEPT ![t] = @ + 1]
            /\ Goto(t, "inc")
            /\ UNCHANGED arg
  /\ UNCHANGED <<state, lock, core, nextlock, monitor, running, holds, known>>

AllocMark(t) ==
  /\ Running(t) /\ pc[t] = "mark"
  /\ state' = [state EXCEPT ![arg[t]] = "USED"]
  /\ Goto(t, "init")
  /\ UNCHANGED <<lock, core, nextlock, monitor, running, arg, tries, holds, known>>

\* lock[lock] = SPINLOCK_UNLOCKED; return lock.
CreateInit(t) ==
  /\ Running(t) /\ pc[t] = "init"
  /\ lock' = [lock EXCEPT ![arg[t]] = "UNLOCKED"]
  /\ monitor' = Opened(arg[t])
  /\ known' = known \cup {arg[t]}
  /\ Goto(t, "out")
  /\ UNCHANGED <<state, core, nextlock, running, arg, tries, holds>>

\* Callers free a lock only when nobody uses it (the NOTE of lock_free()).
lock_free(t, l) ==
  /\ Running(t) /\ pc[t] = "out"
  /\ l \in known /\ state[l] # "FREE"
  /\ \A s \in Thread : ~Owns(s, l) /\ ~Acquiring(s, l)
  /\ state' = [state EXCEPT ![l] = "FREE"]
  /\ known' = known \ {l}
  /\ UNCHANGED <<lock, core, nextlock, monitor, running, pc, arg, tries, holds>>

-----------------------------------------------------------------------------
\* A clock interrupt switches core c to thread t; the exception return
\* (rfeia) that resumes t opens the core's monitor.
Switch(c, t) ==
  /\ CoreOf[t] = c /\ running[c] # t
  /\ running' = [running EXCEPT ![c] = t]
  /\ monitor' = [monitor EXCEPT ![c] = None]
  /\ UNCHANGED <<state, lock, core, nextlock, pc, arg, tries, holds, known>>

AcquireStep(t) == Ldrex(t) \/ Strex(t) \/ StrexFail(t) \/ SetCore(t)

CreateStep(t) ==
  \/ lock_create(t) \/ AllocIncrement(t) \/ AllocCheck(t)
  \/ AllocMark(t) \/ CreateInit(t)

Next ==
  \/ \E t \in Thread :
       \/ AcquireStep(t)
       \/ StoreUnlocked(t)
       \/ CreateStep(t)
       \/ \E l \in Lock : lock_acquire(t, l) \/ lock_release(t, l) \/ lock_free(t, l)
  \/ \E c \in Core, t \in Thread : Switch(c, t)

Spec == Init /\ [][Next]_vars

\* Every thread runs again and again (the clock preempts, ready lists are
\* FIFO), and the few instructions from ldrex to strex are not interrupted
\* on every single retry, whereas the clock ticks once per millisecond.
Fairness ==
  \A t \in Thread :
    /\ SF_vars(\E c \in Core : Switch(c, t))
    /\ SF_vars(AcquireStep(t))
    /\ SF_vars(Strex(t))

FairSpec == Spec /\ Fairness

-----------------------------------------------------------------------------
(* Properties *)

Label == {"out", "ldrex", "strex", "owner", "unlock", "inc", "check", "mark", "init"}

TypeOK ==
  /\ state \in [Lock -> {"FREE", "USED"}]
  /\ lock \in [Lock -> {"LOCKED", "UNLOCKED"}]
  /\ core \in [Lock -> Core \cup {None}]
  /\ nextlock \in Lock
  /\ monitor \in [Core -> Lock \cup {None}]
  /\ running \in [Core -> Thread]
  /\ pc \in [Thread -> Label]
  /\ arg \in [Thread -> Lock]
  /\ tries \in [Thread -> 0 .. NLOCK]
  /\ holds \in [Thread -> SUBSET Lock]
  /\ known \in SUBSET Lock

\* sysinit() is the only caller of lock_create(), before any core is unparked.
SingleCreator == \A s, t \in Creators : s = t

\* No two threads are between lock_acquire()'s strex and lock_release()'s
\* store on the same lock, even when they share a core and its monitor.
MutualExclusion ==
  \A s, t \in Thread : \A l \in Lock : Owns(s, l) /\ Owns(t, l) => s = t

\* core[l] names the core of the thread that holds l, and is -1 as
\* soon as nobody holds it: a later owner never sees a stale core number.
CoreFieldExact ==
  \A l \in Lock : \A t \in Thread :
    /\ l \in holds[t] => core[l] = CoreOf[t]
    /\ core[l] # None => \E s \in Thread : l \in holds[s]

\* A lock that threads are trying to take does not stay unlocked for ever:
\* failed and interrupted ldrex/strex pairs are retried until one succeeds.
UnlockedIsTaken ==
  \A l \in Lock :
    (lock[l] = "UNLOCKED" /\ \E t \in Thread : Acquiring(t, l))
      ~> (lock[l] = "LOCKED")

Owner == [l \in Lock |-> IF \E t \in Thread : Owns(t, l)
                           THEN CHOOSE t \in Thread : Owns(t, l)
                           ELSE None]

Abstract == INSTANCE LockSpec WITH owner <- Owner

\* The table of spinlocks implements atomic locks with a single owner.
ImplementsLock == Abstract!Spec
=============================================================================
