-------------------------------- MODULE Boot --------------------------------
(***************************************************************************)
(* Start-up: reset_handler (start.S), platforminit() with mmu_init(),      *)
(* sysinit() and nulluser() on core 0; unparkcore() and setupCore on the   *)
(* others.                                                                 *)
(*                                                                         *)
(* A store of core 0 waits in sb and becomes visible to the other cores in *)
(* any order; dmb waits until sb is empty.  The stores are cached, and     *)
(* only a core whose MMU is on sees them in the cache.  sev sets the event *)
(* of every core, which its wait for an event consumes.                    *)
(***************************************************************************)
EXTENDS Integers, FiniteSets

CONSTANTS NPROC, NLOCK,
          NULLSTK,           \* stack of a null process
          Ends, MaxAddrs,    \* values of _end and of platform.maxaddr
          SECTIONS, PERIPH   \* sections of the address space; the first one of the peripherals

(* memory.h, proc.h and spinlock.h: there is a lock for all that sysinit() *)
(* makes one for                                                           *)
BootAssumption ==
    /\ NPROC \in Nat /\ NULLSTK \in Nat /\ NLOCK \in Nat /\ 1 + 4 + NPROC + NPROC + 12 <= NLOCK
    /\ Ends \subseteq Nat /\ MaxAddrs \subseteq Nat
    /\ SECTIONS \in Nat /\ PERIPH \in Nat

VARIABLES _end, maxaddr,
          pc, num,                      \* core 0, and the core it unparks
          core_init_sp, memheap, freelist, mmu, nextqueue, nlocks,
          sb, cached, mailbox,     \* stores under way; corestart[]; the mailboxes
          event, cause,                 \* the call of unparkcore that sent the event
          cpc, sp, at                   \* cores 1..3: where, their stack, where they jumped
vars == <<_end, maxaddr, pc, num, core_init_sp, memheap, freelist, mmu, nextqueue, nlocks,
          sb, cached, mailbox, event, cause, cpc, sp, at>>
layout == <<_end, maxaddr, core_init_sp, memheap, freelist, mmu, nextqueue, nlocks>>
secondary == <<cpc, sp, at, cause>>

Core == 0..3
Other == 1..3
MB == 8    \* size of a memblk, to which the heaps are aligned
roundmb(x) == MB * ((x + MB - 1) \div MB)
truncmb(x) == MB * (x \div MB)

Init == /\ _end \in Ends /\ maxaddr \in MaxAddrs
        /\ pc = "reset" /\ num = 1
        /\ core_init_sp = [c \in Core |-> 0] /\ memheap = 0
        /\ freelist = [c \in Core |-> [base |-> 0, length |-> 0]]
        /\ mmu = [s \in 0..SECTIONS - 1 |-> "fault"] /\ nextqueue = NPROC /\ nlocks = 0
        /\ sb = {} /\ cached = [c \in Other |-> "zero"]
        /\ mailbox = [c \in Other |-> FALSE]
        /\ event = [c \in Other |-> 0] /\ cause = [c \in Other |-> 0]
        /\ cpc = [c \in Other |-> "parked"] /\ sp = [c \in Other |-> 0]
        /\ at = [c \in Other |-> "none"]

----------------------------------------------------------------------------
(* Core 0 *)

(* Mutant: the heap starts at the stack pointer of core 2. *)
reset_handlerHeap ==
    /\ pc = "reset" /\ pc' = "platforminit"
    /\ core_init_sp' = [c \in Core |-> _end + NULLSTK * (c + 1)]
    /\ memheap' = _end + NULLSTK * 3
    /\ UNCHANGED <<_end, maxaddr, num, freelist, mmu, nextqueue, nlocks,
                   sb, cached, mailbox, event, secondary>>

(* the four stacks follow the kernel image, the heap follows the stacks *)
reset_handler ==
    /\ pc = "reset" /\ pc' = "platforminit"
    /\ core_init_sp' = [c \in Core |-> _end + NULLSTK * (c + 1)]
    /\ memheap' = _end + NULLSTK * 4
    /\ UNCHANGED <<_end, maxaddr, num, freelist, mmu, nextqueue, nlocks,
                   sb, cached, mailbox, event, secondary>>

(* the sections the two loops of mmu_init() write: the first one stops at  *)
(* the first section of the peripherals, after it has written it; the      *)
(* second starts with that section                                         *)
mmu_init == [s \in 0..SECTIONS - 1 |-> IF s >= PERIPH THEN <<s, "device">>
                                       ELSE <<s, "cached">>]

platforminit ==
    /\ pc = "platforminit" /\ pc' = "sysinit"
    /\ mmu' = mmu_init
    /\ nlocks' = 0
    /\ UNCHANGED <<_end, maxaddr, num, core_init_sp, memheap, freelist, nextqueue,
                   sb, cached, mailbox, event, secondary>>

(* sysinit(): a free list for each core; two queue entries for the message *)
(* queue of each process and for each of the twelve ready lists; a lock    *)
(* for the console, each free list, each process and each queue            *)
sysinit ==
    LET heap == roundmb(memheap)
        max == truncmb(maxaddr)
        length == truncmb((max - heap) \div 4)
    IN  /\ pc = "sysinit" /\ pc' = "store"
        /\ memheap' = heap /\ maxaddr' = max
        /\ freelist' = [c \in Core |-> [base |-> roundmb(heap + length * c),
                                        length |-> length]]
        /\ nextqueue' = nextqueue + 2 * NPROC + 2 * 12
        /\ nlocks' = 1 + 4 + NPROC + NPROC + 12
        /\ UNCHANGED <<_end, num, core_init_sp, mmu, sb, cached, mailbox, event, secondary>>

(* unparkcore(num, core_nulluser, NULL): corestart and init_args, then the *)
(* mailbox                                                                 *)
StoreStart == /\ pc = "store" /\ pc' = "mailbox"
              /\ sb' = sb \cup {<<"corestart", num>>}
              /\ UNCHANGED <<layout, num, cached, mailbox, event, secondary>>
StoreMailbox == /\ pc = "mailbox" /\ pc' = "dmb"
                /\ sb' = sb \cup {<<"mailbox", num>>}
                /\ UNCHANGED <<layout, num, cached, mailbox, event, secondary>>

(* Mutant: no barrier. *)
dmbNone == /\ pc = "dmb" /\ pc' = "sev"
           /\ UNCHANGED <<layout, num, sb, cached, mailbox, event, secondary>>

dmb == /\ pc = "dmb" /\ sb = {} /\ pc' = "sev"
       /\ UNCHANGED <<layout, num, sb, cached, mailbox, event, secondary>>

(* Mutant: the event reaches only the cores unparked before. *)
sevLate == /\ pc = "sev"
           /\ event' = [c \in Other |-> IF c < num THEN num ELSE event[c]]
           /\ IF num = 3 THEN pc' = "null" /\ UNCHANGED num
              ELSE pc' = "store" /\ num' = num + 1
           /\ UNCHANGED <<layout, sb, cached, mailbox, secondary>>

sev == /\ pc = "sev"
       /\ event' = [c \in Other |-> num]
       /\ IF num = 3 THEN pc' = "null" /\ UNCHANGED num
          ELSE pc' = "store" /\ num' = num + 1
       /\ UNCHANGED <<layout, sb, cached, mailbox, secondary>>

(* a store of core 0 becomes visible *)
Drain(s) == /\ s \in sb /\ sb' = sb \ {s}
            /\ IF s[1] = "mailbox" THEN mailbox' = [mailbox EXCEPT ![s[2]] = TRUE]
                                        /\ UNCHANGED cached
               ELSE cached' = [cached EXCEPT ![s[2]] = "core_nulluser"] /\ UNCHANGED mailbox
            /\ UNCHANGED <<layout, pc, num, event, secondary>>

nulluser == \/ reset_handler \/ platforminit \/ sysinit
            \/ StoreStart \/ StoreMailbox \/ dmb \/ sev

----------------------------------------------------------------------------
(* Cores 1 to 3.  The firmware parks them: wait for an event, look at the  *)
(* mailbox.                                                                *)
Wake(c) == /\ cpc[c] = "parked" /\ event[c] # 0
           /\ cpc' = [cpc EXCEPT ![c] = "look"]
           /\ event' = [event EXCEPT ![c] = 0]
           /\ cause' = [cause EXCEPT ![c] = event[c]]
           /\ UNCHANGED <<layout, pc, num, sb, cached, mailbox, sp, at>>
Look(c) == /\ cpc[c] = "look"
           /\ cpc' = [cpc EXCEPT ![c] = IF mailbox[c] THEN "setup" ELSE "parked"]
           /\ UNCHANGED <<layout, pc, num, sb, cached, mailbox, event, sp, at, cause>>

(* setupCore: the stack pointer, which reset_handler stored with caches    *)
(* off; start_mmu; the jump through corestart to core_nulluser()           *)
setupCore(c) ==
    /\ cpc[c] = "setup"
    /\ sp' = [sp EXCEPT ![c] = core_init_sp[c]]
    /\ at' = [at EXCEPT ![c] = cached[c]]
    /\ cpc' = [cpc EXCEPT ![c] = "running"]
    /\ UNCHANGED <<layout, pc, num, sb, cached, mailbox, event, cause>>

StartCore(c) == Wake(c) \/ Look(c) \/ setupCore(c)

Next == \/ nulluser \/ \E s \in sb : Drain(s)
        \/ \E c \in Other : StartCore(c)

(* every core executes its instructions, and a store does not wait for ever *)
Fairness == /\ WF_vars(nulluser) /\ WF_vars(\E s \in sb : Drain(s))
            /\ \A c \in Other : WF_vars(StartCore(c))
Spec == Init /\ [][Next]_vars /\ Fairness
----------------------------------------------------------------------------
(* Properties *)

Bytes(a, b) == a..b - 1
Stack(c) == Bytes(core_init_sp[c] - NULLSTK, core_init_sp[c])
Heap(c) == Bytes(freelist[c].base, freelist[c].base + freelist[c].length)

(* After sysinit() no two of these overlap: the kernel image, the stacks   *)
(* of the four null processes and the heaps of the four cores; the heaps   *)
(* end below maxaddr and are aligned.  The queue table has exactly the     *)
(* entries that sysinit() takes, the lock table enough.                    *)
MemoryDisjoint ==
    pc \notin {"reset", "platforminit", "sysinit"} =>
        /\ \A c \in Core : /\ Stack(c) \cap Bytes(0, _end) = {}
                           /\ Heap(c) \subseteq Bytes(_end, maxaddr)
                           /\ freelist[c].base % MB = 0 /\ freelist[c].length % MB = 0
                           /\ \A d \in Core : /\ Stack(c) \cap Heap(d) = {}
                                              /\ c # d => /\ Stack(c) \cap Stack(d) = {}
                                                          /\ Heap(c) \cap Heap(d) = {}
        /\ nextqueue = NPROC + 24 + NPROC + NPROC /\ nlocks <= NLOCK

(* A core that was woken by its own unparkcore() or a later one starts     *)
(* core_nulluser(), and every core that starts has its own stack.  Core 1  *)
(* cannot be woken before; a later core, woken by the event meant for an   *)
(* earlier one, may see its mailbox before its corestart, since the        *)
(* barrier comes after both stores.                                        *)
CoreStartsRight ==
    \A c \in Other : cpc[c] = "running" =>
        /\ sp[c] = core_init_sp[c] /\ pc \notin {"reset", "platforminit", "sysinit"}
        /\ cause[c] >= c => at[c] = "core_nulluser"
        /\ at[1] = "core_nulluser" \/ c # 1

(* Every address is mapped to itself, and the peripherals, the registers   *)
(* of the UART, timer and mailboxes among them, are not cached.            *)
MmuIdentity ==
    pc \notin {"reset", "platforminit"} =>
        \A s \in DOMAIN mmu : mmu[s] = <<s, IF s < PERIPH THEN "cached" ELSE "device">>

Started(c) == cpc[c] = "running"

(* Every core comes up: no event is lost between a core's look at its      *)
(* mailbox and its next wait.                                              *)
CoresStart == <>(\A c \in Other : Started(c))
=============================================================================
