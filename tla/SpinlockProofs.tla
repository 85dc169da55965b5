--------------------------- MODULE SpinlockProofs ---------------------------
(***************************************************************************)
(* Mutual exclusion of the spinlocks, the exactness of locktab[].core, and *)
(* the refinement of LockSpec, for any number of cores, threads and locks, *)
(* when one thread at most calls lock_create() as in sysinit().            *)
(***************************************************************************)
EXTENDS Spinlock, TLAPS

AllocBound == \A t \in Thread : pc[t] = "check" => tries[t] < NLOCK

\* A strex about to succeed finds the word its ldrex read: unlocked.
ArmedUnlocked ==
  \A t \in Thread :
    Running(t) /\ pc[t] = "strex" /\ monitor[CoreOf[t]] = arg[t]
      => lock[arg[t]] = "UNLOCKED"

OwnedLocked == \A t \in Thread, l \in Lock : Owns(t, l) => lock[l] = "LOCKED"

\* A thread works only on locks lock_create() returned, which are USED.
InUseKnown ==
  /\ \A t \in Thread, l \in Lock : Owns(t, l) \/ Acquiring(t, l) => l \in known
  /\ \A l \in known : state[l] = "USED"

\* The lock being created is not yet anybody's, and marked before it is
\* initialised.
CreatedFresh ==
  \A t \in Thread :
    /\ pc[t] \in {"inc", "check", "mark", "init"} => t \in Creators
    /\ pc[t] \in {"mark", "init"} => arg[t] \notin known
    /\ pc[t] = "init" => state[arg[t]] = "USED"

\* No thread acquires or gives back a lock it counts among its own.
ArgNotHeld ==
  \A t \in Thread :
    pc[t] \in {"ldrex", "strex", "owner", "unlock"} => arg[t] \notin holds[t]

IInv ==
  /\ TypeOK
  /\ AllocBound
  /\ ArmedUnlocked
  /\ OwnedLocked
  /\ InUseKnown
  /\ CreatedFresh
  /\ ArgNotHeld
  /\ MutualExclusion
  /\ CoreFieldExact
-----------------------------------------------------------------------------
\* The entries of locktab and the program counters stay in range, and the
\* loop of lock_alloc() stops at NLOCK, in every step of every thread.
LEMMA TypeStep == TypeOK /\ AllocBound /\ [Next]_vars => TypeOK' /\ AllocBound'
<1> USE SpinlockAssumption DEF Label, Goto
<1> SUFFICES ASSUME TypeOK, AllocBound, [Next]_vars PROVE TypeOK' /\ AllocBound'
  OBVIOUS
<1>1. ASSUME NEW t \in Thread, Ldrex(t) PROVE TypeOK' /\ AllocBound'
  BY <1>1 DEF Ldrex, TypeOK, AllocBound
<1>2. ASSUME NEW t \in Thread, Strex(t) PROVE TypeOK' /\ AllocBound'
  BY <1>2 DEF Strex, TypeOK, AllocBound, Opened
<1>3. ASSUME NEW t \in Thread, StrexFail(t) PROVE TypeOK' /\ AllocBound'
  BY <1>3 DEF StrexFail, TypeOK, AllocBound
<1>4. ASSUME NEW t \in Thread, SetCore(t) PROVE TypeOK' /\ AllocBound'
  BY <1>4 DEF SetCore, TypeOK, AllocBound
<1>5. ASSUME NEW t \in Thread, StoreUnlocked(t) PROVE TypeOK' /\ AllocBound'
  BY <1>5 DEF StoreUnlocked, TypeOK, AllocBound, Opened
<1>6. ASSUME NEW t \in Thread, lock_create(t) PROVE TypeOK' /\ AllocBound'
  BY <1>6 DEF lock_create, TypeOK, AllocBound
<1>7. ASSUME NEW t \in Thread, AllocIncrement(t) PROVE TypeOK' /\ AllocBound'
  <2>1. nextlock' \in Lock
    BY <1>7 DEF AllocIncrement, TypeOK, Lock
  <2>2. pc' = [pc EXCEPT ![t] = IF tries[t] < NLOCK THEN "check" ELSE "out"]
    BY <1>7 DEF AllocIncrement
  <2>3. UNCHANGED <<state, lock, core, monitor, running, arg, tries, holds, known>>
    BY <1>7 DEF AllocIncrement
  <2>4. TypeOK'
    BY <2>1, <2>2, <2>3 DEF TypeOK
  <2>5. AllocBound'
    BY <2>2, <2>3 DEF TypeOK, AllocBound
  <2> QED
    BY <2>4, <2>5
<1>8. ASSUME NEW t \in Thread, AllocCheck(t) PROVE TypeOK' /\ AllocBound'
  <2>1. CASE state[nextlock] = "FREE"
    <3>1. pc' = [pc EXCEPT ![t] = "mark"] /\ UNCHANGED tries
      BY <1>8, <2>1 DEF AllocCheck
    <3>2. TypeOK'
      BY <1>8, <2>1, <3>1 DEF AllocCheck, TypeOK
    <3>3. AllocBound'
      BY <3>1 DEF TypeOK, AllocBound
    <3> QED
      BY <3>2, <3>3
  <2>2. CASE state[nextlock] # "FREE"
    <3>1. pc' = [pc EXCEPT ![t] = "inc"] /\ tries' = [tries EXCEPT ![t] = tries[t] + 1]
      BY <1>8, <2>2 DEF AllocCheck
    <3>2. tries[t] + 1 \in 0 .. NLOCK
      BY <1>8 DEF AllocCheck, TypeOK, AllocBound
    <3>3. TypeOK'
      BY <1>8, <2>2, <3>1, <3>2 DEF AllocCheck, TypeOK
    <3>4. AllocBound'
      BY <3>1 DEF TypeOK, AllocBound
    <3> QED
      BY <3>3, <3>4
  <2> QED
    BY <2>1, <2>2
<1>9. ASSUME NEW t \in Thread, AllocMark(t) PROVE TypeOK' /\ AllocBound'
  BY <1>9 DEF AllocMark, TypeOK, AllocBound
<1>10. ASSUME NEW t \in Thread, CreateInit(t) PROVE TypeOK' /\ AllocBound'
  BY <1>10 DEF CreateInit, TypeOK, AllocBound, Opened
<1>11. ASSUME NEW t \in Thread, NEW l \in Lock, lock_acquire(t, l) PROVE TypeOK' /\ AllocBound'
  BY <1>11 DEF lock_acquire, TypeOK, AllocBound
<1>12. ASSUME NEW t \in Thread, NEW l \in Lock, lock_release(t, l) PROVE TypeOK' /\ AllocBound'
  BY <1>12 DEF lock_release, TypeOK, AllocBound
<1>13. ASSUME NEW t \in Thread, NEW l \in Lock, lock_free(t, l) PROVE TypeOK' /\ AllocBound'
  BY <1>13 DEF lock_free, TypeOK, AllocBound
<1>14. ASSUME NEW c \in Core, NEW t \in Thread, Switch(c, t) PROVE TypeOK' /\ AllocBound'
  BY <1>14 DEF Switch, TypeOK, AllocBound
<1>15. CASE UNCHANGED vars
  BY <1>15 DEF vars, TypeOK, AllocBound
<1> QED
  BY <1>1, <1>2, <1>3, <1>4, <1>5, <1>6, <1>7, <1>8, <1>9, <1>10, <1>11, <1>12, <1>13, <1>14, <1>15
  DEF Next, AcquireStep, CreateStep

-----------------------------------------------------------------------------
\* IInv is inductive: one step per operation of the lock code, and under it
\* one per part of the invariant.
LEMMA InvStep == SingleCreator /\ IInv /\ [Next]_vars => IInv'
<1> USE SpinlockAssumption DEF Goto
<1> SUFFICES ASSUME SingleCreator, IInv, [Next]_vars PROVE IInv'
  OBVIOUS
<1>0. TypeOK /\ TypeOK' /\ AllocBound'
  BY TypeStep DEF IInv
<1>1. ASSUME NEW t \in Thread, Ldrex(t) PROVE IInv'
  <2>1. ArmedUnlocked'
    BY <1>0, <1>1 DEF IInv, Ldrex, TypeOK, Running, ArmedUnlocked
  <2>2. OwnedLocked'
    BY <1>0, <1>1 DEF IInv, Ldrex, TypeOK, Owns, OwnedLocked
  <2>3. InUseKnown'
    BY <1>0, <1>1 DEF IInv, Ldrex, TypeOK, Owns, Acquiring, InUseKnown
  <2>4. CreatedFresh'
    BY <1>0, <1>1 DEF IInv, Ldrex, TypeOK, CreatedFresh
  <2>5. ArgNotHeld'
    BY <1>0, <1>1 DEF IInv, Ldrex, TypeOK, ArgNotHeld
  <2>6. MutualExclusion'
    BY <1>0, <1>1 DEF IInv, Ldrex, TypeOK, Owns, MutualExclusion
  <2>7. CoreFieldExact'
    BY <1>0, <1>1 DEF IInv, Ldrex, TypeOK, Owns, CoreFieldExact
  <2> QED
    BY <1>0, <2>1, <2>2, <2>3, <2>4, <2>5, <2>6, <2>7 DEF IInv
<1>2. ASSUME NEW t \in Thread, Strex(t) PROVE IInv'
  <2>1. ArmedUnlocked'
    BY <1>0, <1>2 DEF IInv, Strex, TypeOK, Running, ArmedUnlocked, Opened
  <2>2. OwnedLocked'
    BY <1>0, <1>2 DEF IInv, Strex, TypeOK, Owns, OwnedLocked, Opened
  <2>3. InUseKnown'
    BY <1>0, <1>2 DEF IInv, Strex, TypeOK, Owns, Acquiring, InUseKnown, Opened
  <2>4. CreatedFresh'
    BY <1>0, <1>2 DEF IInv, Strex, TypeOK, CreatedFresh, Opened
  <2>5. ArgNotHeld'
    BY <1>0, <1>2 DEF IInv, Strex, TypeOK, ArgNotHeld, Opened
  <2>6. MutualExclusion'
    BY <1>0, <1>2 DEF IInv, Strex, TypeOK, Owns, MutualExclusion, Opened, ArmedUnlocked, OwnedLocked, Running
  <2>7. CoreFieldExact'
    BY <1>0, <1>2 DEF IInv, Strex, TypeOK, Owns, CoreFieldExact, Opened, ArmedUnlocked, OwnedLocked, Running
  <2> QED
    BY <1>0, <2>1, <2>2, <2>3, <2>4, <2>5, <2>6, <2>7 DEF IInv
<1>3. ASSUME NEW t \in Thread, StrexFail(t) PROVE IInv'
  <2>1. ArmedUnlocked'
    BY <1>0, <1>3 DEF IInv, StrexFail, TypeOK, Running, ArmedUnlocked
  <2>2. OwnedLocked'
    BY <1>0, <1>3 DEF IInv, StrexFail, TypeOK, Owns, OwnedLocked
  <2>3. InUseKnown'
    BY <1>0, <1>3 DEF IInv, StrexFail, TypeOK, Owns, Acquiring, InUseKnown
  <2>4. CreatedFresh'
    BY <1>0, <1>3 DEF IInv, StrexFail, TypeOK, CreatedFresh
  <2>5. ArgNotHeld'
    BY <1>0, <1>3 DEF IInv, StrexFail, TypeOK, ArgNotHeld
  <2>6. MutualExclusion'
    BY <1>0, <1>3 DEF IInv, StrexFail, TypeOK, Owns, MutualExclusion
  <2>7. CoreFieldExact'
    BY <1>0, <1>3 DEF IInv, StrexFail, TypeOK, Owns, CoreFieldExact
  <2> QED
    BY <1>0, <2>1, <2>2, <2>3, <2>4, <2>5, <2>6, <2>7 DEF IInv
<1>4. ASSUME NEW t \in Thread, SetCore(t) PROVE IInv'
  <2>1. ArmedUnlocked'
    BY <1>0, <1>4 DEF IInv, SetCore, TypeOK, Running, ArmedUnlocked
  <2>2. OwnedLocked'
    BY <1>0, <1>4 DEF IInv, SetCore, TypeOK, Owns, OwnedLocked
  <2>3. InUseKnown'
    BY <1>0, <1>4 DEF IInv, SetCore, TypeOK, Owns, Acquiring, InUseKnown
  <2>4. CreatedFresh'
    BY <1>0, <1>4 DEF IInv, SetCore, TypeOK, CreatedFresh
  <2>5. ArgNotHeld'
    BY <1>0, <1>4 DEF IInv, SetCore, TypeOK, ArgNotHeld
  <2>6. MutualExclusion'
    BY <1>0, <1>4 DEF IInv, SetCore, TypeOK, Owns, MutualExclusion
  <2>7. CoreFieldExact'
    BY <1>0, <1>4 DEF IInv, SetCore, TypeOK, Owns, CoreFieldExact, MutualExclusion
  <2> QED
    BY <1>0, <2>1, <2>2, <2>3, <2>4, <2>5, <2>6, <2>7 DEF IInv
<1>5. ASSUME NEW t \in Thread, StoreUnlocked(t) PROVE IInv'
  <2>1. ArmedUnlocked'
    BY <1>0, <1>5 DEF IInv, StoreUnlocked, TypeOK, Running, ArmedUnlocked, Opened
  <2>2. OwnedLocked'
    BY <1>0, <1>5 DEF IInv, StoreUnlocked, TypeOK, Owns, OwnedLocked, Opened, MutualExclusion, ArgNotHeld
  <2>3. InUseKnown'
    BY <1>0, <1>5 DEF IInv, StoreUnlocked, TypeOK, Owns, Acquiring, InUseKnown, Opened
  <2>4. CreatedFresh'
    BY <1>0, <1>5 DEF IInv, StoreUnlocked, TypeOK, CreatedFresh, Opened
  <2>5. ArgNotHeld'
    BY <1>0, <1>5 DEF IInv, StoreUnlocked, TypeOK, ArgNotHeld, Opened
  <2>6. MutualExclusion'
    BY <1>0, <1>5 DEF IInv, StoreUnlocked, TypeOK, Owns, MutualExclusion, Opened
  <2>7. CoreFieldExact'
    BY <1>0, <1>5 DEF IInv, StoreUnlocked, TypeOK, Owns, CoreFieldExact, Opened
  <2> QED
    BY <1>0, <2>1, <2>2, <2>3, <2>4, <2>5, <2>6, <2>7 DEF IInv
<1>6. ASSUME NEW t \in Thread, lock_create(t) PROVE IInv'
  <2>1. ArmedUnlocked'
    BY <1>0, <1>6 DEF IInv, lock_create, TypeOK, Running, ArmedUnlocked
  <2>2. OwnedLocked'
    BY <1>0, <1>6 DEF IInv, lock_create, TypeOK, Owns, OwnedLocked
  <2>3. InUseKnown'
    BY <1>0, <1>6 DEF IInv, lock_create, TypeOK, Owns, Acquiring, InUseKnown
  <2>4. CreatedFresh'
    BY <1>0, <1>6 DEF IInv, lock_create, TypeOK, CreatedFresh
  <2>5. ArgNotHeld'
    BY <1>0, <1>6 DEF IInv, lock_create, TypeOK, ArgNotHeld
  <2>6. MutualExclusion'
    BY <1>0, <1>6 DEF IInv, lock_create, TypeOK, Owns, MutualExclusion
  <2>7. CoreFieldExact'
    BY <1>0, <1>6 DEF IInv, lock_create, TypeOK, Owns, CoreFieldExact
  <2> QED
    BY <1>0, <2>1, <2>2, <2>3, <2>4, <2>5, <2>6, <2>7 DEF IInv
<1>7. ASSUME NEW t \in Thread, AllocIncrement(t) PROVE IInv'
  <2>1. ArmedUnlocked'
    BY <1>0, <1>7 DEF IInv, AllocIncrement, TypeOK, Running, ArmedUnlocked
  <2>2. OwnedLocked'
    BY <1>0, <1>7 DEF IInv, AllocIncrement, TypeOK, Owns, OwnedLocked
  <2>3. InUseKnown'
    BY <1>0, <1>7 DEF IInv, AllocIncrement, TypeOK, Owns, Acquiring, InUseKnown
  <2>4. CreatedFresh'
    BY <1>0, <1>7 DEF IInv, AllocIncrement, TypeOK, CreatedFresh
  <2>5. ArgNotHeld'
    BY <1>0, <1>7 DEF IInv, AllocIncrement, TypeOK, ArgNotHeld
  <2>6. MutualExclusion'
    BY <1>0, <1>7 DEF IInv, AllocIncrement, TypeOK, Owns, MutualExclusion
  <2>7. CoreFieldExact'
    BY <1>0, <1>7 DEF IInv, AllocIncrement, TypeOK, Owns, CoreFieldExact
  <2> QED
    BY <1>0, <2>1, <2>2, <2>3, <2>4, <2>5, <2>6, <2>7 DEF IInv
<1>8. ASSUME NEW t \in Thread, AllocCheck(t) PROVE IInv'
  <2>1. ArmedUnlocked'
    <3>1. pc'[t] # "strex"
      BY <1>0, <1>8 DEF AllocCheck, TypeOK
    <3>2. \A s \in Thread : s # t => pc'[s] = pc[s] /\ arg'[s] = arg[s]
      BY <1>0, <1>8 DEF AllocCheck, TypeOK
    <3>3. running' = running /\ monitor' = monitor /\ lock' = lock
      BY <1>8 DEF AllocCheck
    <3> QED
      BY <3>1, <3>2, <3>3 DEF IInv, Running, ArmedUnlocked
  <2>2. OwnedLocked'
    BY <1>0, <1>8 DEF IInv, AllocCheck, TypeOK, Owns, OwnedLocked
  <2>3. InUseKnown'
    BY <1>0, <1>8 DEF IInv, AllocCheck, TypeOK, Owns, Acquiring, InUseKnown
  <2>4. CreatedFresh'
    BY <1>0, <1>8 DEF IInv, AllocCheck, TypeOK, CreatedFresh, InUseKnown
  <2>5. ArgNotHeld'
    BY <1>0, <1>8 DEF IInv, AllocCheck, TypeOK, ArgNotHeld
  <2>6. MutualExclusion'
    BY <1>0, <1>8 DEF IInv, AllocCheck, TypeOK, Owns, MutualExclusion
  <2>7. CoreFieldExact'
    BY <1>0, <1>8 DEF IInv, AllocCheck, TypeOK, Owns, CoreFieldExact
  <2> QED
    BY <1>0, <2>1, <2>2, <2>3, <2>4, <2>5, <2>6, <2>7 DEF IInv
<1>9. ASSUME NEW t \in Thread, AllocMark(t) PROVE IInv'
  <2>1. ArmedUnlocked'
    BY <1>0, <1>9 DEF IInv, AllocMark, TypeOK, Running, ArmedUnlocked
  <2>2. OwnedLocked'
    BY <1>0, <1>9 DEF IInv, AllocMark, TypeOK, Owns, OwnedLocked
  <2>3. InUseKnown'
    BY <1>0, <1>9 DEF IInv, AllocMark, TypeOK, Owns, Acquiring, InUseKnown, CreatedFresh
  <2>4. CreatedFresh'
    BY <1>0, <1>9 DEF IInv, AllocMark, TypeOK, CreatedFresh
  <2>5. ArgNotHeld'
    BY <1>0, <1>9 DEF IInv, AllocMark, TypeOK, ArgNotHeld
  <2>6. MutualExclusion'
    BY <1>0, <1>9 DEF IInv, AllocMark, TypeOK, Owns, MutualExclusion
  <2>7. CoreFieldExact'
    BY <1>0, <1>9 DEF IInv, AllocMark, TypeOK, Owns, CoreFieldExact
  <2> QED
    BY <1>0, <2>1, <2>2, <2>3, <2>4, <2>5, <2>6, <2>7 DEF IInv
<1>10. ASSUME NEW t \in Thread, CreateInit(t) PROVE IInv'
  <2>1. ArmedUnlocked'
    BY <1>0, <1>10 DEF IInv, CreateInit, TypeOK, Running, ArmedUnlocked, Opened
  <2>2. OwnedLocked'
    BY <1>0, <1>10 DEF IInv, CreateInit, TypeOK, Owns, OwnedLocked, Opened, InUseKnown, CreatedFresh, SingleCreator
  <2>3. InUseKnown'
    BY <1>0, <1>10 DEF IInv, CreateInit, TypeOK, Owns, Acquiring, InUseKnown, Opened, CreatedFresh, SingleCreator
  <2>4. CreatedFresh'
    BY <1>0, <1>10 DEF IInv, CreateInit, TypeOK, CreatedFresh, Opened, InUseKnown, SingleCreator, Owns
  <2>5. ArgNotHeld'
    BY <1>0, <1>10 DEF IInv, CreateInit, TypeOK, ArgNotHeld, Opened
  <2>6. MutualExclusion'
    BY <1>0, <1>10 DEF IInv, CreateInit, TypeOK, Owns, MutualExclusion, Opened
  <2>7. CoreFieldExact'
    BY <1>0, <1>10 DEF IInv, CreateInit, TypeOK, Owns, CoreFieldExact, Opened
  <2> QED
    BY <1>0, <2>1, <2>2, <2>3, <2>4, <2>5, <2>6, <2>7 DEF IInv
<1>11. ASSUME NEW t \in Thread, NEW l \in Lock, lock_acquire(t, l) PROVE IInv'
  <2>1. ArmedUnlocked'
    BY <1>0, <1>11 DEF IInv, lock_acquire, TypeOK, Running, ArmedUnlocked
  <2>2. OwnedLocked'
    BY <1>0, <1>11 DEF IInv, lock_acquire, TypeOK, Owns, OwnedLocked
  <2>3. InUseKnown'
    BY <1>0, <1>11 DEF IInv, lock_acquire, TypeOK, Owns, Acquiring, InUseKnown
  <2>4. CreatedFresh'
    BY <1>0, <1>11 DEF IInv, lock_acquire, TypeOK, CreatedFresh
  <2>5. ArgNotHeld'
    BY <1>0, <1>11 DEF IInv, lock_acquire, TypeOK, ArgNotHeld
  <2>6. MutualExclusion'
    BY <1>0, <1>11 DEF IInv, lock_acquire, TypeOK, Owns, MutualExclusion
  <2>7. CoreFieldExact'
    BY <1>0, <1>11 DEF IInv, lock_acquire, TypeOK, Owns, CoreFieldExact
  <2> QED
    BY <1>0, <2>1, <2>2, <2>3, <2>4, <2>5, <2>6, <2>7 DEF IInv
<1>12. ASSUME NEW t \in Thread, NEW l \in Lock, lock_release(t, l) PROVE IInv'
  <2>1. ArmedUnlocked'
    BY <1>0, <1>12 DEF IInv, lock_release, TypeOK, Running, ArmedUnlocked
  <2>2. OwnedLocked'
    BY <1>0, <1>12 DEF IInv, lock_release, TypeOK, Owns, OwnedLocked
  <2>3. InUseKnown'
    BY <1>0, <1>12 DEF IInv, lock_release, TypeOK, Owns, Acquiring, InUseKnown
  <2>4. CreatedFresh'
    BY <1>0, <1>12 DEF IInv, lock_release, TypeOK, CreatedFresh
  <2>5. ArgNotHeld'
    BY <1>0, <1>12 DEF IInv, lock_release, TypeOK, ArgNotHeld
  <2>6. MutualExclusion'
    BY <1>0, <1>12 DEF IInv, lock_release, TypeOK, Owns, MutualExclusion
  <2>7. CoreFieldExact'
    BY <1>0, <1>12 DEF IInv, lock_release, TypeOK, Owns, CoreFieldExact, MutualExclusion
  <2> QED
    BY <1>0, <2>1, <2>2, <2>3, <2>4, <2>5, <2>6, <2>7 DEF IInv
<1>13. ASSUME NEW t \in Thread, NEW l \in Lock, lock_free(t, l) PROVE IInv'
  <2>1. ArmedUnlocked'
    BY <1>0, <1>13 DEF IInv, lock_free, TypeOK, Running, ArmedUnlocked
  <2>2. OwnedLocked'
    BY <1>0, <1>13 DEF IInv, lock_free, TypeOK, Owns, OwnedLocked
  <2>3. InUseKnown'
    BY <1>0, <1>13 DEF IInv, lock_free, TypeOK, Owns, Acquiring, InUseKnown
  <2>4. CreatedFresh'
    BY <1>0, <1>13 DEF IInv, lock_free, TypeOK, CreatedFresh
  <2>5. ArgNotHeld'
    BY <1>0, <1>13 DEF IInv, lock_free, TypeOK, ArgNotHeld
  <2>6. MutualExclusion'
    BY <1>0, <1>13 DEF IInv, lock_free, TypeOK, Owns, MutualExclusion
  <2>7. CoreFieldExact'
    BY <1>0, <1>13 DEF IInv, lock_free, TypeOK, Owns, CoreFieldExact
  <2> QED
    BY <1>0, <2>1, <2>2, <2>3, <2>4, <2>5, <2>6, <2>7 DEF IInv
<1>14. ASSUME NEW c \in Core, NEW t \in Thread, Switch(c, t) PROVE IInv'
  <2>1. ArmedUnlocked'
    BY <1>0, <1>14 DEF IInv, Switch, TypeOK, Running, ArmedUnlocked
  <2>2. OwnedLocked'
    BY <1>0, <1>14 DEF IInv, Switch, TypeOK, Owns, OwnedLocked
  <2>3. InUseKnown'
    BY <1>0, <1>14 DEF IInv, Switch, TypeOK, Owns, Acquiring, InUseKnown
  <2>4. CreatedFresh'
    BY <1>0, <1>14 DEF IInv, Switch, TypeOK, CreatedFresh
  <2>5. ArgNotHeld'
    BY <1>0, <1>14 DEF IInv, Switch, TypeOK, ArgNotHeld
  <2>6. MutualExclusion'
    BY <1>0, <1>14 DEF IInv, Switch, TypeOK, Owns, MutualExclusion
  <2>7. CoreFieldExact'
    BY <1>0, <1>14 DEF IInv, Switch, TypeOK, Owns, CoreFieldExact
  <2> QED
    BY <1>0, <2>1, <2>2, <2>3, <2>4, <2>5, <2>6, <2>7 DEF IInv
<1>15. CASE UNCHANGED vars
  BY <1>15 DEF vars, IInv, TypeOK, AllocBound, Running, Owns, Acquiring, ArmedUnlocked, OwnedLocked, InUseKnown, CreatedFresh, ArgNotHeld, MutualExclusion, CoreFieldExact
<1> QED
  BY <1>1, <1>2, <1>3, <1>4, <1>5, <1>6, <1>7, <1>8, <1>9, <1>10, <1>11, <1>12, <1>13, <1>14, <1>15
  DEF Next, AcquireStep, CreateStep

\* IInv holds of the table that platforminit() leaves.
LEMMA InvInit == Init => IInv
<1> USE SpinlockAssumption
<1> SUFFICES ASSUME Init PROVE IInv
  OBVIOUS
<1>1. TypeOK /\ AllocBound
  BY DEF Init, TypeOK, AllocBound, Lock, Label
<1>2. ArmedUnlocked /\ OwnedLocked /\ InUseKnown /\ CreatedFresh /\ ArgNotHeld
  BY DEF Init, ArmedUnlocked, OwnedLocked, InUseKnown, CreatedFresh, ArgNotHeld,
         Owns, Acquiring
<1>3. MutualExclusion /\ CoreFieldExact
  BY DEF Init, MutualExclusion, CoreFieldExact, Owns
<1> QED
  BY <1>1, <1>2, <1>3 DEF IInv

\* With one creator of locks, IInv holds in every reachable state.
THEOREM Invariant == SingleCreator => (Spec => []IInv)
<1> SUFFICES ASSUME SingleCreator PROVE Spec => []IInv
  OBVIOUS
<1>1. IInv /\ [Next]_vars => IInv'
  BY InvStep
<1> QED
  BY InvInit, <1>1, PTL DEF Spec

\* The spinlock operations never leave the types of their data, whoever
\* creates locks.
THEOREM TypeCorrect == Spec => []TypeOK
<1>1. Init => TypeOK /\ AllocBound
  BY InvInit DEF IInv
<1> QED
  BY <1>1, TypeStep, PTL DEF Spec

\* lock_acquire() and lock_release() give mutual exclusion to any number of
\* threads on any number of cores, context switches between ldrex and strex
\* included.
THEOREM MutualExclusionHolds == SingleCreator => (Spec => []MutualExclusion)
<1>1. IInv => MutualExclusion
  BY DEF IInv
<1> QED
  BY Invariant, <1>1, PTL

\* locktab[].core is exact: the core of the holder, -1 when there is none.
THEOREM CoreFieldExactHolds == SingleCreator => (Spec => []CoreFieldExact)
<1>1. IInv => CoreFieldExact
  BY DEF IInv
<1> QED
  BY Invariant, <1>1, PTL

-----------------------------------------------------------------------------
(* Refinement of LockSpec *)

\* The mapped owner of a lock is the thread inside it, if there is one.
LEMMA OwnerIs ==
  ASSUME MutualExclusion, NEW l \in Lock
  PROVE  /\ \A t \in Thread : Owns(t, l) => Owner[l] = t
         /\ (\A t \in Thread : ~Owns(t, l)) => Owner[l] = None
BY DEF MutualExclusion, Owner

\* A step that changes the ownership of no lock leaves the mapped owner alone.
LEMMA OwnerSame ==
  ASSUME \A t \in Thread, l \in Lock : Owns(t, l)' <=> Owns(t, l)
  PROVE  Owner' = Owner
<1>1. ASSUME NEW l \in Lock PROVE Owner'[l] = Owner[l]
  <2>1. \A t \in Thread : Owns(t, l)' <=> Owns(t, l)
    OBVIOUS
  <2>2. (CHOOSE t \in Thread : Owns(t, l))' = (CHOOSE t \in Thread : Owns(t, l))
    BY <2>1
  <2> QED
    BY <2>1, <2>2 DEF Owner
<1> QED
  BY <1>1 DEF Owner

\* A step of lock_acquire() or lock_release() moves the owner of one lock.
LEMMA OwnerMoves ==
  ASSUME NEW l \in Lock, NEW v, Owner'[l] = v,
         \A m \in Lock : m # l => Owner'[m] = Owner[m]
  PROVE  Owner' = [Owner EXCEPT ![l] = v]
<1>1. Owner = [m \in Lock |-> Owner[m]] /\ Owner' = [m \in Lock |-> Owner'[m]]
  BY DEF Owner
<1> QED
  BY <1>1

\* Every step of the lock code is an Acquire (the successful strex), a
\* Release (the unlocking store) or no step of LockSpec.
LEMMA RefinementStep == IInv /\ IInv' /\ [Next]_vars => [Abstract!Next]_Owner
<1> USE SpinlockAssumption DEF Goto
<1> SUFFICES ASSUME IInv, IInv', [Next]_vars PROVE [Abstract!Next]_Owner
  OBVIOUS
<1>1. ASSUME NEW t \in Thread, NEW l \in Lock, l = arg[t], Strex(t)
      PROVE  Abstract!Acquire(t, l)
  <2>1. \A s \in Thread : ~Owns(s, l)
    BY <1>1 DEF Strex, IInv, ArmedUnlocked, OwnedLocked
  <2>2. Owns(t, l)'
    BY <1>1 DEF Strex, Owns, IInv, TypeOK
  <2>3. \A s \in Thread, m \in Lock : m # l => (Owns(s, m)' <=> Owns(s, m))
    BY <1>1 DEF Strex, Owns, IInv, TypeOK
  <2>4. Owner[l] = None
    BY <2>1, OwnerIs DEF IInv
  <2>5. Owner'[l] = t
    BY <2>2 DEF Owner, IInv, MutualExclusion
  <2>6. \A m \in Lock : m # l => Owner'[m] = Owner[m]
    BY <2>3 DEF Owner
  <2>7. Owner' = [Owner EXCEPT ![l] = t]
    BY <2>5, <2>6, OwnerMoves
  <2> QED
    BY <2>4, <2>7 DEF Abstract!Acquire
<1>2. ASSUME NEW t \in Thread, NEW l \in Lock, l = arg[t], StoreUnlocked(t)
      PROVE  Abstract!Release(t, l)
  <2>1. Owns(t, l)
    BY <1>2 DEF StoreUnlocked, Owns
  <2>2. \A s \in Thread : ~Owns(s, l)'
    BY <1>2, <2>1 DEF StoreUnlocked, Owns, IInv, TypeOK, MutualExclusion, ArgNotHeld
  <2>3. \A s \in Thread, m \in Lock : m # l => (Owns(s, m)' <=> Owns(s, m))
    BY <1>2 DEF StoreUnlocked, Owns, IInv, TypeOK
  <2>4. Owner[l] = t
    BY <2>1, OwnerIs DEF IInv
  <2>5. Owner'[l] = None
    BY <2>2 DEF Owner
  <2>6. \A m \in Lock : m # l => Owner'[m] = Owner[m]
    BY <2>3 DEF Owner
  <2>7. Owner' = [Owner EXCEPT ![l] = None]
    BY <2>5, <2>6, OwnerMoves
  <2> QED
    BY <2>4, <2>7 DEF Abstract!Release
<1>3. ASSUME NEW t \in Thread, Ldrex(t) \/ StrexFail(t) PROVE Owner' = Owner
  BY <1>3, OwnerSame DEF Ldrex, StrexFail, Owns, IInv, TypeOK
<1>4. ASSUME NEW t \in Thread, SetCore(t) PROVE Owner' = Owner
  BY <1>4, OwnerSame DEF SetCore, Owns, IInv, TypeOK
<1>5. ASSUME NEW t \in Thread, CreateStep(t) PROVE Owner' = Owner
  BY <1>5, OwnerSame DEF CreateStep, lock_create, AllocIncrement, AllocCheck, AllocMark,
                         CreateInit, Owns, IInv, TypeOK
<1>6. ASSUME NEW t \in Thread, NEW l \in Lock, lock_acquire(t, l) \/ lock_release(t, l)
      PROVE  Owner' = Owner
  <2>1. CASE lock_acquire(t, l)
    BY <2>1, OwnerSame DEF lock_acquire, Owns, IInv, TypeOK
  <2>2. CASE lock_release(t, l)
    <3>1. \A s \in Thread, m \in Lock : Owns(s, m)' <=> Owns(s, m)
      BY <2>2 DEF lock_release, Owns, IInv, TypeOK
    <3> QED
      BY <3>1, OwnerSame
  <2> QED
    BY <1>6, <2>1, <2>2
<1>7. ASSUME NEW t \in Thread, NEW l \in Lock, lock_free(t, l) PROVE Owner' = Owner
  BY <1>7, OwnerSame DEF lock_free, Owns
<1>8. ASSUME NEW c \in Core, NEW t \in Thread, Switch(c, t) PROVE Owner' = Owner
  BY <1>8, OwnerSame DEF Switch, Owns
<1>9. CASE UNCHANGED vars
  BY <1>9, OwnerSame DEF vars, Owns
<1>10. \A t \in Thread : arg[t] \in Lock
  BY DEF IInv, TypeOK
<1> QED
  BY <1>1, <1>2, <1>3, <1>4, <1>5, <1>6, <1>7, <1>8, <1>9, <1>10
  DEF Next, AcquireStep, Abstract!Next

\* The spinlock table over ldrex and strex implements the atomic locks of
\* LockSpec.
THEOREM Refinement == SingleCreator => (Spec => ImplementsLock)
<1> SUFFICES ASSUME SingleCreator PROVE Spec => ImplementsLock
  OBVIOUS
<1>1. Init => Abstract!Init
  <2> SUFFICES ASSUME Init PROVE Owner = [l \in Lock |-> None]
    BY DEF Abstract!Init
  <2>1. \A t \in Thread, l \in Lock : ~Owns(t, l)
    BY DEF Init, Owns
  <2> QED
    BY <2>1 DEF Owner
<1> QED
  BY <1>1, RefinementStep, Invariant, PTL DEF Spec, ImplementsLock, Abstract!Spec
=============================================================================
