----------------------------- MODULE Lifecycle ------------------------------
(***************************************************************************)
(* The life of a process, one shared access at a time: create() with       *)
(* newpid(), the exit of a process through userret() and kill(), and       *)
(* kill() of another process.  Neither create() nor kill() disables        *)
(* interrupts or takes a lock, so that the clock or another core may run   *)
(* any other process between two accesses.                                 *)
(*                                                                         *)
(* Threads are the creators, which stay, and the processes they create,    *)
(* each known by its slot of the process table.  A context is the thread   *)
(* that was saved: <<slot, serial number of the process>>.                 *)
(***************************************************************************)
EXTENDS Integers, FiniteSets

CONSTANTS NPROC,      \* slots; those of null processes and creators are never free
          Creators,
          Stacks,     \* what getmem() can give out
          SAMECORE,   \* all threads run on one core
          VICTIMS,    \* states in which creators kill a process
          CREATES     \* number of calls of create()

VARIABLES state, stkbase, regs,  \* of each slot
          nextpid, numproc, free,
          pc, pid, saddr, tries, \* of each creator: where it is, and its locals
          run,                   \* of each slot: the process whose code runs in it, and where
          serial, born,          \* processes created, and the last one of each slot
          dying,                 \* processes in their last resched()
          lost                   \* stacks that no one will free
vars == <<state, stkbase, regs, nextpid, numproc, free, pc, pid, saddr, tries, run, serial, born, dying, lost>>

Slot == 0..NPROC - 1
NONE == -1

LifecycleAssumption == NPROC \in Nat \ {0} /\ NONE \notin Stacks

(* one process creates and kills, and nothing runs beside it on another    *)
(* core; it kills only processes that wait                                 *)
Alone == /\ \A c, d \in Creators : c = d
         /\ SAMECORE /\ VICTIMS \subseteq {"PRRECV"}

Gone == [at |-> "gone", id |-> 0, stk |-> NONE]

(* on one core nothing runs between a process's last step in kill() and    *)
(* the end of its last resched(): a clock interrupt there also reschedules *)
Undisturbed == SAMECORE => dying = {}

Init == /\ state = [p \in Slot |-> "PRFREE"] /\ stkbase = [p \in Slot |-> NONE]
        /\ regs = [p \in Slot |-> 0] /\ nextpid = 0 /\ numproc = 0 /\ free = Stacks
        /\ pc = [c \in Creators |-> "idle"] /\ pid = [c \in Creators |-> NONE]
        /\ saddr = [c \in Creators |-> NONE] /\ tries = [c \in Creators |-> 0]
        /\ run = [p \in Slot |-> Gone] /\ serial = 0 /\ lost = {}
        /\ born = [p \in Slot |-> 0] /\ dying = {}

----------------------------------------------------------------------------
(* create(): the stack, or SYSERR ... *)
getmem(c) ==
    /\ pc[c] = "idle" /\ serial < CREATES
    /\ \/ \E s \in free : free' = free \ {s} /\ saddr' = [saddr EXCEPT ![c] = s]
       \/ free = {} /\ UNCHANGED <<free, saddr>>
    /\ pc' = [pc EXCEPT ![c] = "increment"]
    /\ UNCHANGED <<state, stkbase, regs, nextpid, numproc, pid, tries, run, serial, born, dying, lost>>

(* ... newpid(): nextpid is shared, and read again for the test and again  *)
(* for the return                                                          *)
Increment(c) ==
    /\ pc[c] = "increment"
    /\ nextpid' = (nextpid + 1) % NPROC
    /\ pc' = [pc EXCEPT ![c] = "test"]
    /\ UNCHANGED <<state, stkbase, regs, numproc, free, pid, saddr, tries, run, serial, born, dying, lost>>
Test(c) ==
    /\ pc[c] = "test"
    /\ IF state[nextpid] = "PRFREE" THEN pc' = [pc EXCEPT ![c] = "return"] /\ UNCHANGED tries
       ELSE /\ tries' = [tries EXCEPT ![c] = @ + 1]
            /\ pc' = [pc EXCEPT ![c] = IF tries[c] + 1 = NPROC THEN "check" ELSE "increment"]
    /\ UNCHANGED <<state, stkbase, regs, nextpid, numproc, free, pid, saddr, run, serial, born, dying, lost>>
Return(c) ==
    /\ pc[c] = "return"
    /\ pid' = [pid EXCEPT ![c] = nextpid]
    /\ pc' = [pc EXCEPT ![c] = "check"]
    /\ UNCHANGED <<state, stkbase, regs, nextpid, numproc, free, saddr, tries, run, serial, born, dying, lost>>

Reset(c) == /\ pid' = [pid EXCEPT ![c] = NONE] /\ saddr' = [saddr EXCEPT ![c] = NONE]
            /\ tries' = [tries EXCEPT ![c] = 0] /\ pc' = [pc EXCEPT ![c] = "idle"]

(* ... SYSERR without giving the stack back, or the count and the entry of *)
(* the process table with the context of a new process                     *)
Check(c) ==
    /\ pc[c] = "check"
    /\ IF saddr[c] = NONE \/ pid[c] = NONE
       THEN Reset(c) /\ lost' = lost \cup ({saddr[c]} \ {NONE}) /\ UNCHANGED numproc
       ELSE /\ numproc' = numproc + 1
            /\ pc' = [pc EXCEPT ![c] = "susp"] /\ UNCHANGED <<pid, saddr, tries, lost>>
    /\ UNCHANGED <<state, stkbase, regs, nextpid, free, run, serial, born, dying>>
Susp(c) ==
    /\ pc[c] = "susp"
    /\ state' = [state EXCEPT ![pid[c]] = "PRSUSP"]
    /\ pc' = [pc EXCEPT ![c] = "pcb"]
    /\ UNCHANGED <<stkbase, regs, nextpid, numproc, free, pid, saddr, tries, run, serial, born, dying, lost>>
(* Mutant: the registers of the slot are left as they were. *)
PcbNoRegs(c) ==
    /\ pc[c] = "pcb"
    /\ stkbase' = [stkbase EXCEPT ![pid[c]] = saddr[c]]
    /\ serial' = serial + 1 /\ born' = [born EXCEPT ![pid[c]] = serial + 1]
    /\ Reset(c)
    /\ UNCHANGED <<state, regs, nextpid, numproc, free, run, dying, lost>>
(* Mutant: the stack of the slot is left as it was. *)
PcbNoStack(c) ==
    /\ pc[c] = "pcb"
    /\ regs' = [regs EXCEPT ![pid[c]] = serial + 1]
    /\ serial' = serial + 1 /\ born' = [born EXCEPT ![pid[c]] = serial + 1]
    /\ Reset(c)
    /\ UNCHANGED <<state, stkbase, nextpid, numproc, free, run, dying, lost>>
Pcb(c) ==
    /\ pc[c] = "pcb"
    /\ stkbase' = [stkbase EXCEPT ![pid[c]] = saddr[c]]
    /\ regs' = [regs EXCEPT ![pid[c]] = serial + 1]
    /\ serial' = serial + 1 /\ born' = [born EXCEPT ![pid[c]] = serial + 1]
    /\ Reset(c)
    /\ UNCHANGED <<state, nextpid, numproc, free, run, dying, lost>>

create(c) == getmem(c) \/ Increment(c) \/ Test(c) \/ Return(c) \/ Check(c) \/ Susp(c) \/ Pcb(c)

(* ready() and the first switch to the process, after its creator has it:  *)
(* the context of the slot is loaded                                       *)
Start(p) ==
    /\ state[p] = "PRSUSP" /\ \A c \in Creators : pid[c] # p
    /\ state' = [state EXCEPT ![p] = "PRCURR"]
    /\ run' = [run EXCEPT ![p] = [at |-> "user", id |-> regs[p], stk |-> stkbase[p]]]
    /\ UNCHANGED <<stkbase, regs, nextpid, numproc, free, pc, pid, saddr, tries, serial, born, dying, lost>>

(* recv() without a message *)
Receive(p) ==
    /\ run[p].at = "user" /\ state[p] = "PRCURR"
    /\ state' = [state EXCEPT ![p] = "PRRECV"]
    /\ run' = [run EXCEPT ![p].at = "recv"]
    /\ UNCHANGED <<stkbase, regs, nextpid, numproc, free, pc, pid, saddr, tries, serial, born, dying, lost>>

----------------------------------------------------------------------------
(* userret() and kill() of oneself: the count, the stack, the state, and   *)
(* resched(), whose ctxsw saves the dead process's registers in the slot   *)
ExitFree(p) ==
    /\ run[p].at = "user" /\ state[p] # "PRFREE"
    /\ numproc' = numproc - 1
    /\ free' = free \cup {stkbase[p]}
    /\ run' = [run EXCEPT ![p].at = "kill"]
    /\ UNCHANGED <<state, stkbase, regs, nextpid, pc, pid, saddr, tries, serial, born, dying, lost>>
ExitState(p) ==
    /\ run[p].at = "kill"
    /\ state' = [state EXCEPT ![p] = "PRFREE"]
    /\ run' = [run EXCEPT ![p] = Gone]
    /\ dying' = dying \cup {<<p, run[p].id>>}
    /\ UNCHANGED <<stkbase, regs, nextpid, numproc, free, pc, pid, saddr, tries, serial, born, lost>>
ExitSwitch(d) ==
    /\ regs' = [regs EXCEPT ![d[1]] = d[2]]
    /\ dying' = dying \ {d}
    /\ UNCHANGED <<state, stkbase, nextpid, numproc, free, pc, pid, saddr, tries, run, serial, born, lost>>

userret(p) == ExitFree(p) \/ ExitState(p)

(* kill() by a creator of a process that does not run: checks, count and   *)
(* stack, then the state                                                   *)
KillFree(c, p) ==
    /\ pc[c] = "idle" /\ state[p] \in VICTIMS
    /\ numproc' = numproc - 1
    /\ free' = free \cup {stkbase[p]}
    /\ pc' = [pc EXCEPT ![c] = "kill"] /\ pid' = [pid EXCEPT ![c] = p]
    /\ UNCHANGED <<state, stkbase, regs, nextpid, saddr, tries, run, serial, born, dying, lost>>
KillState(c) ==
    /\ pc[c] = "kill"
    /\ state' = [state EXCEPT ![pid[c]] = "PRFREE"]
    /\ run' = [run EXCEPT ![pid[c]] = Gone]
    /\ Reset(c)
    /\ UNCHANGED <<stkbase, regs, nextpid, numproc, free, serial, born, dying, lost>>

kill(c) == KillState(c) \/ \E p \in Slot : KillFree(c, p)

Next == \/ /\ Undisturbed
           /\ \/ \E c \in Creators : create(c) \/ kill(c)
              \/ \E p \in Slot : Start(p) \/ Receive(p) \/ userret(p)
        \/ \E d \in dying : ExitSwitch(d)
Spec == Init /\ [][Next]_vars
----------------------------------------------------------------------------
(* Properties *)

(* The process id that newpid() returned is a free one until the creator   *)
(* marks it used: no process has it and no other creator was given it.     *)
FreeProcessId ==
    \A c \in Creators : pc[c] \in {"check", "susp"} /\ pid[c] # NONE =>
        /\ state[pid[c]] = "PRFREE"
        /\ \A d \in Creators : d # c /\ pc[d] \in {"check", "susp", "pcb"} => pid[d] # pid[c]

(* The code that runs in a slot is that of the process last created there: *)
(* a process never starts with what its predecessor left in the slot.      *)
StartsOwnContext ==
    \A p \in Slot : run[p].at = "user" =>
        run[p].id = born[p] /\ run[p].stk = stkbase[p]

(* A stack in use belongs to one process, and is not free.  Only a process *)
(* that is in kill(), past its freemem(), may still run on a stack that    *)
(* has been given to another one.                                          *)
StackExclusive ==
    \A p \in Slot : run[p].at = "user" \/ (state[p] = "PRSUSP" /\ \A c \in Creators : pid[c] # p) =>
        /\ stkbase[p] \notin free
        /\ \A c \in Creators : saddr[c] # stkbase[p]
        /\ \A q \in Slot \ {p} : run[q].at = "user" => run[q].stk # stkbase[p]

(* the processes and their stacks *)
Live == {p \in Slot : state[p] # "PRFREE"}
Owned == {stkbase[p] : p \in Live}

(* When no create() or kill() is under way, numproc is the number of       *)
(* processes, and every stack is free, or belongs to one of them, or was   *)
(* kept by a create() that found no free process id; none is two of these. *)
CountsSettle ==
    (\A c \in Creators : pc[c] = "idle")
    /\ (\A p \in Slot : run[p].at \in {"gone", "user", "recv"}) /\ dying = {} =>
        /\ numproc = Cardinality(Live) /\ Cardinality(Owned) = Cardinality(Live)
        /\ free \cup Owned \cup lost = Stacks
        /\ free \cap (Owned \cup lost) = {} /\ Owned \cap lost = {}

StacksExact == StackExclusive /\ CountsSettle
=============================================================================
