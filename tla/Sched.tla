------------------------------- MODULE Sched --------------------------------
(***************************************************************************)
(* Processes and the per-core scheduler: create(), ready(), resched() with *)
(* aging, kill() and the clock handler.                                    *)
(*                                                                         *)
(* Every core has three ready lists, one per priority.  resched() and      *)
(* ready() run with interrupts disabled, and a ready list is changed under *)
(* its lock (module Queue), so each call is one step here; other cores act *)
(* between the steps.  A list is a sequence of process ids.                *)
(*                                                                         *)
(* recv() and send() appear as Block and Wake, the only things they do to  *)
(* the scheduler; module Message has their details.                        *)
(***************************************************************************)
EXTENDS Integers, Sequences, FiniteSets

CONSTANTS NCORES,   \* number of cores
          NPROC,    \* size of proctab
          UserPrio, \* priorities that callers of create() pass
          QUANTUM   \* reset value of preempt, promote_medium and promote_low

Core == 0 .. NCORES - 1
Proc == 0 .. NPROC - 1

\* sysinit() makes process k the null process of core k.
Null == Core

PRIORITY_LOW  == 0
PRIORITY_MED  == 1
PRIORITY_HIGH == 2
Prio == PRIORITY_LOW .. PRIORITY_HIGH

EMPTY == -2
NoCore == -1

ASSUME SchedAssumption ==
  /\ NCORES \in Nat \ {0}
  /\ NPROC \in Nat /\ NPROC > NCORES
  /\ UserPrio \subseteq Prio
  /\ QUANTUM \in Nat \ {0}

VARIABLES state,          \* proctab[].state
          priority,       \* proctab[].priority
          core_affinity,  \* proctab[].core_affinity
          irq,            \* interrupts are enabled when the process runs
          readylist,      \* readylist[k][j]: the ready list of core k, priority j
          currpid,        \* the process each core runs
          numproc,        \* number of live processes
          preempt,        \* clock ticks left of the current time slice
          promote_medium, \* rescheds left until a medium process is promoted
          promote_low     \* medium promotions left until a low one is promoted

procvars == <<state, priority, core_affinity, irq, numproc>>
schedvars == <<readylist, currpid, preempt, promote_medium, promote_low>>
vars == <<procvars, schedvars>>

-----------------------------------------------------------------------------
(* Ready lists of one core, as functions from priorities to sequences *)

enqueue(lists, j, p) == [lists EXCEPT ![j] = Append(@, p)]

\* enqueue(dequeue(from), to), if nonempty(from)
MoveHead(lists, from, to) ==
  IF lists[from] = <<>> THEN lists
  ELSE [lists EXCEPT ![from] = Tail(@), ![to] = Append(@, Head(lists[from]))]

\* remove(): the entry of the process is taken out of its list.
remove(list, p) ==
  IF \E i \in 1 .. Len(list) : list[i] = p
  THEN LET k == CHOOSE i \in 1 .. Len(list) : list[i] = p
       IN  SubSeq(list, 1, k - 1) \o SubSeq(list, k + 1, Len(list))
  ELSE list

\* The list resched() picks from: the highest nonempty one, else the low one.
HighestPrio(lists) ==
  IF lists[PRIORITY_HIGH] # <<>> THEN PRIORITY_HIGH
  ELSE IF lists[PRIORITY_MED] # <<>> THEN PRIORITY_MED
  ELSE PRIORITY_LOW

\* --promote_medium <= 0 and, inside it, --promote_low <= 0
MediumDue(k) == promote_medium[k] - 1 <= 0
LowDue(k) == MediumDue(k) /\ promote_low[k] - 1 <= 0

\* Mutant: low processes are never promoted.
AgedMediumOnly(k, lists) ==
  IF MediumDue(k) THEN MoveHead(lists, PRIORITY_MED, PRIORITY_HIGH) ELSE lists

\* The AGING block of resched(): a medium process first, then a low one.
Aged(k, lists) ==
  LET medium == IF MediumDue(k) THEN MoveHead(lists, PRIORITY_MED, PRIORITY_HIGH) ELSE lists
  IN  IF LowDue(k) THEN MoveHead(medium, PRIORITY_LOW, PRIORITY_MED) ELSE medium

\* The new values of the two aging counters
PromoteLow(k) ==
  IF LowDue(k) THEN QUANTUM
  ELSE IF MediumDue(k) THEN promote_low[k] - 1 ELSE promote_low[k]
PromoteMedium(k) == IF MediumDue(k) THEN QUANTUM ELSE promote_medium[k] - 1

\* Mutant: the old process is put back whatever its state.
RequeuedAlways(k, st, lists) == enqueue(lists, priority[currpid[k]], currpid[k])

\* The old process goes to the end of its list if it could go on running.
Requeued(k, st, lists) ==
  IF st[currpid[k]] = "PRCURR" THEN enqueue(lists, priority[currpid[k]], currpid[k])
  ELSE lists

\* resched() on core k, entered with process states st and ready lists rl.
Resched(k, st, rl) ==
  LET lists == Requeued(k, st, Aged(k, rl[k]))
      top == HighestPrio(lists)
      new == IF lists[top] = <<>> THEN EMPTY ELSE Head(lists[top])
  IN  /\ readylist' = [rl EXCEPT ![k] = [lists EXCEPT ![top] = IF @ = <<>> THEN @ ELSE Tail(@)]]
      /\ currpid' = [currpid EXCEPT ![k] = new]
      /\ state' = [p \in Proc |->
                     IF p = new THEN "PRCURR"
                     ELSE IF p = currpid[k] /\ st[p] = "PRCURR" THEN "PRREADY"
                     ELSE st[p]]
      /\ preempt' = [preempt EXCEPT ![k] = QUANTUM]
      /\ promote_medium' = [promote_medium EXCEPT ![k] = PromoteMedium(k)]
      /\ promote_low' = [promote_low EXCEPT ![k] = PromoteLow(k)]

-----------------------------------------------------------------------------
\* After sysinit(), and nulluser()'s ready(create(main, PRIORITY_LOW), 0, 0).
Init ==
  LET main == NCORES IN
  /\ state = [p \in Proc |-> IF p \in Null THEN "PRCURR"
                             ELSE IF p = main THEN "PRREADY" ELSE "PRFREE"]
  /\ priority = [p \in Proc |-> PRIORITY_LOW]
  /\ core_affinity = [p \in Proc |-> IF p \in Null THEN p
                                     ELSE IF p = main THEN 0 ELSE NoCore]
  /\ irq = [p \in Proc |-> p \in Null]
  /\ readylist = [k \in Core |-> [j \in Prio |->
                    IF k = 0 /\ j = PRIORITY_LOW THEN <<main>> ELSE <<>>]]
  /\ currpid = [k \in Core |-> k]
  /\ numproc = NCORES + 1
  /\ preempt = [k \in Core |-> QUANTUM]
  /\ promote_medium = [k \in Core |-> QUANTUM]
  /\ promote_low = [k \in Core |-> QUANTUM]

\* Core k runs a process other than its null process.
User(k) == currpid[k] \notin Null

\* newpid() finds some free slot: the next one after the last it returned.
newpid(p) == state[p] = "PRFREE"

\* create(): the entry is set up suspended and bound to no core; the process
\* will start with interrupts disabled.
create(k, p, prio) ==
  /\ User(k) /\ newpid(p)
  /\ numproc' = numproc + 1
  /\ state' = [state EXCEPT ![p] = "PRSUSP"]
  /\ core_affinity' = [core_affinity EXCEPT ![p] = NoCore]
  /\ priority' = [priority EXCEPT ![p] = prio]
  /\ irq' = [irq EXCEPT ![p] = FALSE]
  /\ UNCHANGED schedvars

\* Only a process without affinity takes the core argument.
Home(p, core) == IF core_affinity[p] = NoCore THEN core ELSE core_affinity[p]

\* ready(p, resch, core), called by the process that core k runs.
ready(k, p, resch, core) ==
  LET home == Home(p, core)
      st == [state EXCEPT ![p] = "PRREADY"]
      rl == [readylist EXCEPT ![home] = enqueue(@, priority[p], p)]
  IN  /\ core_affinity' = [core_affinity EXCEPT ![p] = home]
      /\ IF resch /\ k = home
           THEN Resched(k, st, rl)
           ELSE /\ state' = st
                /\ readylist' = rl
                /\ UNCHANGED <<currpid, preempt, promote_medium, promote_low>>
      /\ UNCHANGED <<priority, irq, numproc>>

\* Callers: a created process is readied once ...
Start(k, p, resch, core) == User(k) /\ state[p] = "PRSUSP" /\ ready(k, p, resch, core)

\* ... and a process blocked in recv() is woken by send() or sendnow()
\* (one blocked in send(), by recv()), with its affinity as the core.
Wake(k, p, resch) ==
  /\ User(k) /\ state[p] = "PRRECV"
  /\ ready(k, p, resch, core_affinity[p])

\* recv() without a message: state = PRRECV, then resched().  send() to a
\* process with a message does the same with PRSEND.
Block(k) ==
  /\ User(k)
  /\ Resched(k, [state EXCEPT ![currpid[k]] = "PRRECV"], readylist)
  /\ UNCHANGED <<priority, core_affinity, irq, numproc>>

\* The loops of nulluser() and core_nulluser(): resched(), which the cores
\* other than 0 call only while there are user processes.
NullLoop(k) ==
  /\ currpid[k] \in Null
  /\ k = 0 \/ numproc > NCORES
  /\ Resched(k, state, readylist)
  /\ UNCHANGED <<priority, core_affinity, irq, numproc>>

\* Mutant: the core of the process is not tested.
MayKillRemote(k, p) == p \notin Null /\ state[p] # "PRFREE"

\* The tests at the start of kill(); if they fail it returns SYSERR.
MayKill(k, p) == p \notin Null /\ core_affinity[p] = k /\ state[p] # "PRFREE"

\* kill(p), called by the process that core k runs (userret() calls it with
\* p = currpid[k]).  One step: no clock interrupt of core k falls into it.
kill(k, p) ==
  /\ User(k) /\ MayKill(k, p)
  /\ numproc' = numproc - 1
  /\ CASE state[p] = "PRCURR" ->
            Resched(k, [state EXCEPT ![p] = "PRFREE"], readylist)
       [] state[p] = "PRREADY" ->
            /\ readylist' = [readylist EXCEPT ![k] = [j \in Prio |-> remove(@[j], p)]]
            /\ state' = [state EXCEPT ![p] = "PRFREE"]
            /\ UNCHANGED <<currpid, preempt, promote_medium, promote_low>>
       [] OTHER ->
            /\ state' = [state EXCEPT ![p] = "PRFREE"]
            /\ UNCHANGED schedvars
  /\ UNCHANGED <<priority, core_affinity, irq>>

\* A process enables interrupts on its core: main() and printpid() begin so.
enable(k) ==
  /\ User(k) /\ ~irq[currpid[k]]
  /\ irq' = [irq EXCEPT ![currpid[k]] = TRUE]
  /\ UNCHANGED <<state, priority, core_affinity, numproc, schedvars>>

\* The clock interrupt: --preempt <= 0 calls resched().
clkhandler(k) ==
  /\ irq[currpid[k]]
  /\ IF preempt[k] - 1 <= 0
       THEN Resched(k, state, readylist)
       ELSE /\ preempt' = [preempt EXCEPT ![k] = @ - 1]
            /\ UNCHANGED <<state, readylist, currpid, promote_medium, promote_low>>
  /\ UNCHANGED <<priority, core_affinity, irq, numproc>>

Next ==
  \E k \in Core :
    \/ \E p \in Proc :
         \/ \E prio \in UserPrio : create(k, p, prio)
         \/ \E resch \in BOOLEAN : Wake(k, p, resch) \/ \E c \in Core : Start(k, p, resch, c)
         \/ kill(k, p)
    \/ Block(k) \/ NullLoop(k) \/ enable(k) \/ clkhandler(k)

Spec == Init /\ [][Next]_vars

\* The clock keeps ticking, and a process that runs with interrupts disabled
\* enables them (as main() and printpid() do).
FairSpec == Spec /\ \A k \in Core : WF_vars(clkhandler(k)) /\ WF_vars(enable(k))

-----------------------------------------------------------------------------
(* Properties *)

State == {"PRFREE", "PRCURR", "PRSUSP", "PRREADY", "PRRECV"}

TypeOK ==
  /\ state \in [Proc -> State]
  /\ priority \in [Proc -> Prio]
  /\ core_affinity \in [Proc -> Core \cup {NoCore}]
  /\ irq \in [Proc -> BOOLEAN]
  /\ readylist \in [Core -> [Prio -> Seq(Proc)]]
  /\ currpid \in [Core -> Proc]
  /\ numproc \in Nat
  /\ preempt \in [Core -> 1 .. QUANTUM]
  /\ promote_medium \in [Core -> 1 .. QUANTUM]
  /\ promote_low \in [Core -> 1 .. QUANTUM]

Row(k, j) == {<<k, j, i>> : i \in 1 .. Len(readylist[k][j])}
Place == UNION {Row(k, j) : k \in Core, j \in Prio}
At(x) == readylist[x[1]][x[2]][x[3]]

\* A process occupies one place of one ready list exactly when its state is
\* PRREADY, on the core it is bound to, and in the list of its own priority
\* or of one that aging has promoted it to.
ReadyListsExact ==
  /\ \A p \in Proc : state[p] = "PRREADY" => \E x \in Place : At(x) = p
  /\ \A x \in Place :
       /\ state[At(x)] = "PRREADY"
       /\ core_affinity[At(x)] = x[1]
       /\ priority[At(x)] <= x[2]
  /\ \A x, y \in Place : At(x) = At(y) => x = y

\* The process table is exact.  A process is PRCURR exactly when the core it
\* is bound to runs it, so no process runs on two cores.  "the null thread
\* remains always in a ready (THRREADY) or running (THRCURR) state"
\* (initialize.c), on its own core, so resched() always finds a process.
\* numproc, which core_nulluser() tests, counts the slots in use.
ProctabExact ==
  /\ TypeOK
  /\ \A k \in Core : state[currpid[k]] = "PRCURR" /\ core_affinity[currpid[k]] = k
  /\ \A p \in Proc : state[p] = "PRCURR" => currpid[core_affinity[p]] = p
  /\ \A k \in Null : state[k] \in {"PRREADY", "PRCURR"} /\ core_affinity[k] = k
  /\ numproc = Cardinality({p \in Proc : state[p] # "PRFREE"})

\* Aging: whatever the priorities, a ready process comes to run (or is
\* killed), even while higher ready lists are never empty.
NoStarvation ==
  \A p \in Proc : state[p] = "PRREADY" ~> state[p] \in {"PRCURR", "PRFREE"}
=============================================================================
