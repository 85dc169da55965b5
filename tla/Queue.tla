------------------------------- MODULE Queue --------------------------------
(***************************************************************************)
(* The queue table of system/queue.c: doubly linked lists of processes in  *)
(* one array, each with a head and a tail entry and a spinlock in the head *)
(* entry.                                                                  *)
(*                                                                         *)
(* Every pointer write is a step of its own, because isempty(), nonempty() *)
(* and the walk of remove() read the links without the lock.  The lock is  *)
(* one variable per queue: LockSpec is what the spinlocks provide.         *)
(*                                                                         *)
(* Callers: any core may enqueue (ready() of a process bound to another    *)
(* core), but only one core takes processes out of a queue, Home[q]: the   *)
(* core a ready list belongs to, or the core of the process that owns a    *)
(* message queue.  A process is enqueued only when it is in no queue.      *)
(*                                                                         *)
(* content is a history variable: the sequence of processes each queue     *)
(* should hold, changed in the step that makes the operation visible in    *)
(* the chain of next pointers.  The queue code does not read it.           *)
(***************************************************************************)
EXTENDS Integers, Sequences

CONSTANTS NPROC,    \* number of process entries
          NQUEUE,   \* number of queues made by newqueue()
          Core,     \* cores
          Home,     \* Home[q]: the core that dequeues from q
          None

Proc  == 0 .. NPROC - 1
Queues == 0 .. NQUEUE - 1
NQENT == NPROC + 2 * NQUEUE
EMPTY == -2

ASSUME QueueAssumption ==
  /\ NPROC \in Nat \ {0}
  /\ NQUEUE \in Nat \ {0}
  /\ Home \in [Queues -> Core]
  /\ None \notin Core \cup Int

\* newqueue() takes two adjacent entries; isbadqueue() relies on it.
queuehead(q) == NPROC + 2 * q
queuetail(q) == NPROC + 2 * q + 1
QueueOfHead(e) == (e - NPROC) \div 2

VARIABLES next, prev,   \* queuetab[].next, queuetab[].prev
          holder,       \* holder[q]: the core inside queuetab[head].lock, or None
          pc,           \* next step of each core
          pid,          \* argument of enqueue() and remove(), result of dequeue()
          que,          \* argument q; in remove() the queue found by the walk
          temp, steps,  \* remove(): the walk
          sure,         \* this dequeue() follows a nonempty() that was true
          content       \* history: what each queue should hold

vars == <<next, prev, holder, pc, pid, que, temp, steps, sure, content>>

-----------------------------------------------------------------------------
Goto(c, label) == pc' = [pc EXCEPT ![c] = label]

\* A call returns; its local variables are gone.
Return(c) ==
  /\ Goto(c, "out")
  /\ pid' = [pid EXCEPT ![c] = 0]
  /\ que' = [que EXCEPT ![c] = 0]
  /\ temp' = [temp EXCEPT ![c] = 0]
  /\ steps' = [steps EXCEPT ![c] = 0]
  /\ sure' = [sure EXCEPT ![c] = FALSE]

\* Mutant: the entry is compared with EMPTY only.
nonemptyLink(q) == next[queuehead(q)] # EMPTY

\* isempty() and nonempty() read the head's next entry, without the lock.
nonempty(q) == next[queuehead(q)] < NPROC

InQueue(p, q) == \E i \in 1 .. Len(content[q]) : content[q][i] = p

\* The sequence s with the entry p taken out of it
Without(s, p) ==
  LET k == CHOOSE i \in 1 .. Len(s) : s[i] = p
  IN  SubSeq(s, 1, k - 1) \o SubSeq(s, k + 1, Len(s))

\* queuetab is zeroed, then newqueue() links every head to its tail.
Init ==
  /\ next = [e \in 0 .. NQENT - 1 |->
               IF e < NPROC THEN 0
               ELSE IF (e - NPROC) % 2 = 0 THEN e + 1 ELSE EMPTY]
  /\ prev = [e \in 0 .. NQENT - 1 |->
               IF e < NPROC THEN 0
               ELSE IF (e - NPROC) % 2 = 0 THEN EMPTY ELSE e - 1]
  /\ holder = [q \in Queues |-> None]
  /\ pc = [c \in Core |-> "out"]
  /\ pid = [c \in Core |-> 0]
  /\ que = [c \in Core |-> 0]
  /\ temp = [c \in Core |-> 0]
  /\ steps = [c \in Core |-> 0]
  /\ sure = [c \in Core |-> FALSE]
  /\ content = [q \in Queues |-> <<>>]

-----------------------------------------------------------------------------
\* lock_acquire(queuetab[head].lock) and lock_release().
LockQueue(c, from, to) ==
  /\ pc[c] = from /\ holder[que[c]] = None
  /\ holder' = [holder EXCEPT ![que[c]] = c]
  /\ Goto(c, to)
  /\ UNCHANGED <<next, prev, pid, que, temp, steps, sure, content>>

Unlock(c) ==
  /\ pc[c] \in {"unlock", "unlockpid", "unlockempty"}
  /\ holder' = [holder EXCEPT ![que[c]] = None]
  /\ Return(c)
  /\ UNCHANGED <<next, prev, content>>

(* enqueue(pid, q) *)

\* Core c is in a call about process pid[c].
Engaged(c) == pc[c] \notin {"out", "dlock", "dfirst", "unlockempty"}

Busy(p) == \E c \in Core : pid[c] = p /\ Engaged(c)

enqueue(c, p, q) ==
  /\ pc[c] = "out"
  /\ ~Busy(p) /\ \A r \in Queues : ~InQueue(p, r)
  /\ pid' = [pid EXCEPT ![c] = p]
  /\ que' = [que EXCEPT ![c] = q]
  /\ Goto(c, "elock")
  /\ UNCHANGED <<next, prev, holder, temp, steps, sure, content>>

EnqueueLock(c) == LockQueue(c, "elock", "elink")

EnqueueLink(c) ==
  LET tail == queuetail(que[c]) IN
  /\ pc[c] = "elink"
  /\ next' = [next EXCEPT ![pid[c]] = tail]
  /\ prev' = [prev EXCEPT ![pid[c]] = prev[tail]]
  /\ Goto(c, "efwd")
  /\ UNCHANGED <<holder, pid, que, temp, steps, sure, content>>

EnqueueForward(c) ==
  /\ pc[c] = "efwd"
  /\ next' = [next EXCEPT ![prev[queuetail(que[c])]] = pid[c]]
  /\ content' = [content EXCEPT ![que[c]] = Append(@, pid[c])]
  /\ Goto(c, "eback")
  /\ UNCHANGED <<prev, holder, pid, que, temp, steps, sure>>

\* Mutant: the tail's prev link is not set.
EnqueueBackMissing(c) ==
  /\ pc[c] = "eback"
  /\ Goto(c, "unlock")
  /\ UNCHANGED <<next, prev, holder, pid, que, temp, steps, sure, content>>

EnqueueBack(c) ==
  /\ pc[c] = "eback"
  /\ prev' = [prev EXCEPT ![queuetail(que[c])] = pid[c]]
  /\ Goto(c, "unlock")
  /\ UNCHANGED <<next, holder, pid, que, temp, steps, sure, content>>

(* dequeue(q), alone or after a nonempty(q) as in resched() and recv() *)

dequeue(c, q, tested) ==
  /\ pc[c] = "out" /\ Home[q] = c
  /\ tested => nonempty(q)
  /\ que' = [que EXCEPT ![c] = q]
  /\ sure' = [sure EXCEPT ![c] = tested]
  /\ Goto(c, "dlock")
  /\ UNCHANGED <<next, prev, holder, pid, temp, steps, content>>

\* Mutant: the lock is not taken.
DequeueUnlocked(c) ==
  /\ pc[c] = "dlock"
  /\ Goto(c, "dfirst")
  /\ UNCHANGED <<next, prev, holder, pid, que, temp, steps, sure, content>>

DequeueLock(c) == LockQueue(c, "dlock", "dfirst")

DequeueFirst(c) ==
  LET first == next[queuehead(que[c])] IN
  /\ pc[c] = "dfirst"
  /\ IF first < NPROC
       THEN pid' = [pid EXCEPT ![c] = first] /\ Goto(c, "dfwd")
       ELSE Goto(c, "unlockempty") /\ UNCHANGED pid
  /\ UNCHANGED <<next, prev, holder, que, temp, steps, sure, content>>

\* The two writes that unlink pid, the same in dequeue() and in remove().
UnlinkForward(c, from, to) ==
  /\ pc[c] = from
  /\ next' = [next EXCEPT ![prev[pid[c]]] = next[pid[c]]]
  /\ content' = [content EXCEPT ![que[c]] = Without(@, pid[c])]
  /\ Goto(c, to)
  /\ UNCHANGED <<prev, holder, pid, que, temp, steps, sure>>

UnlinkBack(c, from, to) ==
  /\ pc[c] = from
  /\ prev' = [prev EXCEPT ![next[pid[c]]] = prev[pid[c]]]
  /\ Goto(c, to)
  /\ UNCHANGED <<next, holder, pid, que, temp, steps, sure, content>>

DequeueForward(c) == UnlinkForward(c, "dfwd", "dback")
DequeueBack(c)    == UnlinkBack(c, "dback", "dself")

DequeueSelf(c) ==
  /\ pc[c] = "dself"
  /\ prev' = [prev EXCEPT ![pid[c]] = pid[c]]
  /\ next' = [next EXCEPT ![pid[c]] = pid[c]]
  /\ Goto(c, "unlockpid")
  /\ UNCHANGED <<holder, pid, que, temp, steps, sure, content>>

(* remove(pid): an unlocked walk to the head, then the unlinking *)

remove(c, p) ==
  /\ pc[c] = "out" /\ ~Busy(p)
  /\ \E q \in Queues : Home[q] = c /\ InQueue(p, q)
  /\ pid' = [pid EXCEPT ![c] = p]
  /\ temp' = [temp EXCEPT ![c] = p]
  /\ steps' = [steps EXCEPT ![c] = 0]
  /\ Goto(c, "rwalk")
  /\ UNCHANGED <<next, prev, holder, que, sure, content>>

\* Mutants: every step starts from pid again; and is not counted either.
RemoveWalkRestarted(c) ==
  /\ pc[c] = "rwalk"
  /\ temp' = [temp EXCEPT ![c] = prev[pid[c]]]
  /\ steps' = [steps EXCEPT ![c] = @ + 1]
  /\ Goto(c, "rtest")
  /\ UNCHANGED <<next, prev, holder, pid, que, sure, content>>

RemoveWalkEndless(c) ==
  /\ pc[c] = "rwalk"
  /\ temp' = [temp EXCEPT ![c] = prev[pid[c]]]
  /\ Goto(c, "rtest")
  /\ UNCHANGED <<next, prev, holder, pid, que, steps, sure, content>>

RemoveWalk(c) ==
  /\ pc[c] = "rwalk"
  /\ temp' = [temp EXCEPT ![c] = prev[temp[c]]]
  /\ steps' = [steps EXCEPT ![c] = @ + 1]
  /\ Goto(c, "rtest")
  /\ UNCHANGED <<next, prev, holder, pid, que, sure, content>>

\* break at the head (its prev is EMPTY); "rlost" is the return of SYSERR
\* after NQENT steps.
RemoveTest(c) ==
  /\ pc[c] = "rtest"
  /\ Goto(c, IF prev[temp[c]] = EMPTY /\ steps[c] < NQENT THEN "rlock"
             ELSE IF steps[c] >= NQENT THEN "rlost" ELSE "rwalk")
  /\ que' = [que EXCEPT ![c] = IF prev[temp[c]] = EMPTY THEN QueueOfHead(temp[c]) ELSE @]
  /\ UNCHANGED <<next, prev, holder, pid, temp, steps, sure, content>>

RemoveLock(c)    == LockQueue(c, "rlock", "rfwd")
RemoveForward(c) == UnlinkForward(c, "rfwd", "rback")
RemoveBack(c)    == UnlinkBack(c, "rback", "unlock")

EnqueueStep(c) == EnqueueLock(c) \/ EnqueueLink(c) \/ EnqueueForward(c) \/ EnqueueBack(c)

DequeueStep(c) ==
  \/ DequeueLock(c) \/ DequeueFirst(c) \/ DequeueForward(c)
  \/ DequeueBack(c) \/ DequeueSelf(c)

RemoveStep(c) ==
  \/ RemoveWalk(c) \/ RemoveTest(c) \/ RemoveLock(c)
  \/ RemoveForward(c) \/ RemoveBack(c)

\* A call that has begun goes on: the core executes it.
Step(c) == EnqueueStep(c) \/ DequeueStep(c) \/ RemoveStep(c) \/ Unlock(c)

Call(c) ==
  \/ \E p \in Proc, q \in Queues : enqueue(c, p, q)
  \/ \E q \in Queues, tested \in BOOLEAN : dequeue(c, q, tested)
  \/ \E p \in Proc : remove(c, p)

Next == \E c \in Core : Step(c) \/ Call(c)

Spec == Init /\ [][Next]_vars

\* A core does not stop executing a call it has begun.
FairSpec == Spec /\ \A c \in Core : WF_vars(Step(c))

-----------------------------------------------------------------------------
(* Properties *)

Label == {"out", "elock", "elink", "efwd", "eback", "dlock", "dfirst", "dfwd", "dback",
          "dself", "rwalk", "rtest", "rlock", "rfwd", "rback", "rlost",
          "unlock", "unlockpid", "unlockempty"}

Entry == 0 .. NQENT - 1

Waiting == {"out", "elock", "dlock", "rlock"}

TypeOK ==
  /\ next \in [Entry -> Entry \cup {EMPTY}]
  /\ prev \in [Entry -> Entry \cup {EMPTY}]
  /\ holder \in [Queues -> Core \cup {None}]
  /\ pc \in [Core -> Label]
  /\ pid \in [Core -> Proc]
  /\ que \in [Core -> Queues]
  /\ temp \in [Core -> Entry]
  /\ steps \in [Core -> 0 .. NQENT]
  /\ sure \in [Core -> BOOLEAN]

\* The entries of queue q from head to tail.
Chain(q) == <<queuehead(q)>> \o content[q] \o <<queuetail(q)>>

\* In every state the next pointers lead from the head through exactly the
\* processes of the queue, in order, to the tail; and the prev pointers lead
\* back the same way whenever no core is inside the queue's lock.
DoublyLinked ==
  /\ TypeOK
  /\ \A q \in Queues : \A i \in 1 .. Len(content[q]) + 1 :
       /\ next[Chain(q)[i]] = Chain(q)[i + 1]
       /\ holder[q] = None => prev[Chain(q)[i + 1]] = Chain(q)[i]

\* A dequeue() that follows a true nonempty() finds a process, although
\* nonempty() was read outside the lock: resched() and recv() use the
\* result as a process id without testing it for EMPTY.
NonemptyIsReliable == \A c \in Core : sure[c] => pc[c] # "unlockempty"

\* The unlocked walk of remove() reaches the head of the queue the process
\* is in, whatever other cores enqueue meanwhile: kill() ignores its result.
RemoveFindsQueue ==
  \A c \in Core :
    /\ pc[c] # "rlost"
    /\ pc[c] \in {"rlock", "rfwd"} => InQueue(pid[c], que[c])

\* A core inside a queue's lock leaves it, and the walk of remove() ends:
\* a call never gets stuck except spinning on a lock that others keep taking.
CallsProgress ==
  \A c \in Core : (pc[c] \notin Waiting) ~> (pc[c] \in Waiting)

Answer == [c \in Core |->
             CASE pc[c] \in {"dback", "dself", "unlockpid"} -> pid[c]
               [] pc[c] = "unlockempty" -> EMPTY
               [] OTHER -> None]

Fifo == INSTANCE QueueSpec WITH Queue <- Queues, answer <- Answer

\* The linked queues implement FIFO sequences: no process is lost,
\* duplicated, reordered or found in two queues.
ImplementsFifo == Fifo!Spec
=============================================================================
