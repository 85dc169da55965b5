----------------------------- MODULE BootProofs -----------------------------
(***************************************************************************)
(* The division of memory at start-up and the start of the other cores,    *)
(* for every end of the kernel image, every size of memory, every size of  *)
(* the null processes' stacks and every order in which stores become       *)
(* visible; the table of the MMU.  Then the processes that are made once   *)
(* the system is up: the life cycle of proctab[] entries, stacks and the   *)
(* count numproc, for any number of each, when one thread at a time makes  *)
(* or ends processes (module Lifecycle).                                   *)
(***************************************************************************)
EXTENDS Boot, FiniteSetTheorems, TLAPS

Early == {"reset", "platforminit", "sysinit"}
Late == {"store", "mailbox", "dmb", "sev", "null"}

\* What reset_handler leaves to sysinit(), and what sysinit() makes of it.
LayoutInv ==
  /\ _end \in Nat /\ maxaddr \in Int /\ pc \in Early \cup Late
  /\ pc \in Early => nextqueue = NPROC
  /\ pc \in {"platforminit", "sysinit"} =>
       /\ memheap = _end + NULLSTK * 4
       /\ core_init_sp = [c \in Core |-> _end + NULLSTK * (c + 1)]
  /\ MemoryDisjoint

\* The store of core_nulluser to corestart[c] is visible.
Visible(c) == cached[c] = "core_nulluser"

StartTypeOK ==
  /\ pc \in Early \cup Late /\ num \in Other
  /\ sb \subseteq {"corestart", "mailbox"} \X {num}
  /\ cached \in [Other -> {"zero", "core_nulluser"}]
  /\ mailbox \in [Other -> BOOLEAN]
  /\ event \in [Other -> 0..3] /\ cause \in [Other -> 0..3]
  /\ cpc \in [Other -> {"parked", "look", "setup", "running"}]
  /\ DOMAIN sp = Other
  /\ at \in [Other -> {"none", "zero", "core_nulluser"}]

\* The barrier before an event: whoever sent an event to a core c, on behalf
\* of c or of a later core, has made corestart[c] visible.
EventsFollowStores ==
  /\ pc \notin {"mailbox", "dmb"} => sb = {}
  /\ \A c \in Other : c < num => Visible(c)
  /\ pc \in {"sev", "null"} => Visible(num)
  /\ pc \in {"mailbox", "dmb"} => Visible(num) \/ <<"corestart", num>> \in sb
  /\ \A c \in Other : event[c] >= c \/ cause[c] >= c => Visible(c)

StartInv ==
  /\ StartTypeOK /\ EventsFollowStores
  /\ pc \in Early => \A c \in Other : event[c] = 0 /\ cpc[c] = "parked"
  /\ \A c \in Other : cpc[c] # "parked" => cause[c] # 0
  /\ CoreStartsRight
-----------------------------------------------------------------------------
\* roundmb() and truncmb() of memory.h give multiples of the size of a
\* block, the first one not below its argument, the second one not above.
LEMMA Rounding ==
  ASSUME NEW x \in Int
  PROVE  /\ roundmb(x) \in Int /\ roundmb(x) >= x /\ roundmb(x) % MB = 0
         /\ truncmb(x) \in Int /\ truncmb(x) <= x /\ truncmb(x) % MB = 0
         /\ x % MB = 0 => roundmb(x) = x
<1>1. roundmb(x) \in Int /\ truncmb(x) \in Int
  BY DEF roundmb, truncmb, MB
<1>2. roundmb(x) >= x /\ truncmb(x) <= x
  BY DEF roundmb, truncmb, MB
<1>3. roundmb(x) % MB = 0
  BY DEF roundmb, MB
<1>4. truncmb(x) % MB = 0
  BY DEF truncmb, MB
<1>5. x % MB = 0 => roundmb(x) = x
  BY DEF roundmb, MB
<1> QED  BY Zenon, <1>1, <1>2, <1>3, <1>4, <1>5

\* The four parts of sysinit()'s heap lie one after the other between the
\* stacks and the end of memory.  A heap without room gives empty parts.
LEMMA Quarters ==
  ASSUME NEW heap \in Int, NEW max \in Int, NEW c \in Core,
         heap % MB = 0
  PROVE  LET length == truncmb((max - heap) \div 4)
         IN  /\ length \in Int /\ length % MB = 0
             /\ roundmb(heap + length * c) = heap + length * c
             /\ (heap + length * c) % MB = 0
             /\ length > 0 => heap + length * 4 <= max
<1> DEFINE q == (max - heap) \div 4
           length == truncmb(q)
<1>1. q \in Int /\ 4 * q <= max - heap
  OBVIOUS
<1>2. length \in Int /\ length % MB = 0 /\ length <= q
  BY Zenon, <1>1, Rounding
<1>3. c \in {0, 1, 2, 3}
  BY DEF Core
<1> HIDE DEF length, q
<1>4. (heap + length * c) % MB = 0 /\ heap + length * c \in Int
  BY <1>2, <1>3 DEF MB
<1>5. roundmb(heap + length * c) = heap + length * c
  BY Zenon, <1>4, Rounding
<1> QED  BY <1>1, <1>2, <1>4, <1>5 DEF length, q

\* sysinit() turns what reset_handler laid out into disjoint parts.
LEMMA SysinitDivides ==
  ASSUME BootAssumption, LayoutInv, sysinit
  PROVE  MemoryDisjoint'
<1> DEFINE heap == roundmb(memheap)
           max == truncmb(maxaddr)
           length == truncmb((max - heap) \div 4)
<1>1. /\ _end \in Nat /\ maxaddr \in Int /\ memheap = _end + NULLSTK * 4
      /\ core_init_sp = [c \in Core |-> _end + NULLSTK * (c + 1)]
      /\ nextqueue = NPROC
  BY Zenon DEF LayoutInv, sysinit, Early
<1>2. /\ heap \in Int /\ heap % MB = 0 /\ heap >= _end + NULLSTK * 4
      /\ max \in Int
  BY <1>1, Rounding DEF BootAssumption
<1>3. /\ maxaddr' = max /\ _end' = _end /\ core_init_sp' = core_init_sp
      /\ freelist' = [c \in Core |-> [base |-> roundmb(heap + length * c),
                                      length |-> length]]
      /\ nextqueue' = nextqueue + 2 * NPROC + 2 * 12
      /\ nlocks' = 1 + 4 + NPROC + NPROC + 12
  BY Zenon DEF sysinit
<1> HIDE DEF heap, max
<1>4. /\ length \in Int /\ length % MB = 0
      /\ length > 0 => heap + length * 4 <= max
      /\ \A c \in Core : /\ roundmb(heap + length * c) = heap + length * c
                         /\ (heap + length * c) % MB = 0
  <2>1. 0 \in Core
    BY DEF Core
  <2> QED  BY Zenon, <1>2, <2>1, Quarters
<1> HIDE DEF length
<1>5. ASSUME NEW c \in Core
      PROVE  /\ Heap(c)' = heap + length * c .. (heap + length * c + length) - 1
             /\ freelist'[c].base % MB = 0 /\ freelist'[c].length % MB = 0
  <2>1. freelist'[c].base = heap + length * c /\ freelist'[c].length = length
    BY Zenon, <1>3, <1>4
  <2>2. Heap(c)' = freelist'[c].base .. (freelist'[c].base + freelist'[c].length) - 1
    BY Zenon DEF Heap, Bytes
  <2>3. Heap(c)' = heap + length * c .. (heap + length * c + length) - 1
    BY Zenon, <2>1, <2>2
  <2> QED  BY Zenon, <2>1, <2>3, <1>4
<1>6. ASSUME NEW c \in Core
      PROVE  Stack(c)' = (_end + NULLSTK * (c + 1)) - NULLSTK .. (_end + NULLSTK * (c + 1)) - 1
  <2>1. core_init_sp'[c] = _end + NULLSTK * (c + 1)
    BY Zenon, <1>1, <1>3
  <2>2. Stack(c)' = core_init_sp'[c] - NULLSTK .. core_init_sp'[c] - 1
    BY Zenon DEF Stack, Bytes
  <2> QED  BY Zenon, <2>1, <2>2
<1>7. ASSUME NEW c \in Core
      PROVE  /\ Stack(c)' \cap Bytes(0, _end)' = {}
             /\ Heap(c)' \subseteq Bytes(_end, maxaddr)'
             /\ \A d \in Core : /\ Stack(c)' \cap Heap(d)' = {}
                                /\ c # d => /\ Stack(c)' \cap Stack(d)' = {}
                                            /\ Heap(c)' \cap Heap(d)' = {}
  <2> USE DEF BootAssumption
  <2>0. c \in {0, 1, 2, 3}
    BY DEF Core
  <2>1. Stack(c)' \cap Bytes(0, _end)' = {}
    BY <2>0, <1>1, <1>3, <1>6 DEF Bytes
  <2>2. Heap(c)' \subseteq Bytes(_end, maxaddr)'
    BY <2>0, <1>1, <1>2, <1>3, <1>4, <1>5 DEF Bytes
  <2>3. ASSUME NEW d \in Core PROVE Stack(c)' \cap Heap(d)' = {}
    <3>1. d \in {0, 1, 2, 3}
      BY DEF Core
    <3>2. NULLSTK * (c + 1) <= NULLSTK * 4 /\ NULLSTK * (c + 1) \in Int
      BY <2>0
    <3>3. length > 0 => heap + length * d >= heap
      BY <3>1, <1>2, <1>4
    <3>4. heap + length * d \in Int
      BY <3>1, <1>2, <1>4
    <3> QED  BY <3>2, <3>3, <3>4, <1>1, <1>2, <1>4, <1>5, <1>6
  <2>4. ASSUME NEW d \in Core, c # d
        PROVE  Stack(c)' \cap Stack(d)' = {} /\ Heap(c)' \cap Heap(d)' = {}
    <3>1. d \in {0, 1, 2, 3}
      BY DEF Core
    <3>2. Stack(c)' \cap Stack(d)' = {}
      BY <2>0, <2>4, <3>1, <1>1, <1>6
    <3>3. Heap(c)' \cap Heap(d)' = {}
      <4>1. /\ heap + length * c \in Int /\ heap + length * d \in Int
            /\ length > 0 => \/ heap + length * c + length <= heap + length * d
                             \/ heap + length * d + length <= heap + length * c
        BY <2>0, <2>4, <3>1, <1>2, <1>4
      <4> QED  BY <4>1, <1>4, <1>5
    <3> QED  BY Zenon, <3>2, <3>3
  <2> QED  BY Zenon, <2>1, <2>2, <2>3, <2>4
<1>8. (nextqueue = NPROC + 24 + NPROC + NPROC /\ nlocks <= NLOCK)'
  BY <1>1, <1>3 DEF BootAssumption
<1> QED  BY Zenon, <1>5, <1>7, <1>8 DEF MemoryDisjoint

\* Every step keeps LayoutInv: after sysinit() nothing of the layout changes.
LEMMA LayoutStep ==
  ASSUME BootAssumption, LayoutInv, [Next]_vars
  PROVE  LayoutInv'
<1> USE DEF Early, Late
<1>1. CASE reset_handler
  BY Zenon, <1>1 DEF reset_handler, LayoutInv, MemoryDisjoint
<1>2. CASE platforminit
  BY Zenon, <1>2 DEF platforminit, LayoutInv, MemoryDisjoint
<1>3. CASE sysinit
  <2>1. maxaddr' \in Int
    BY Zenon, <1>3, Rounding DEF sysinit, LayoutInv
  <2>2. MemoryDisjoint'
    BY Zenon, <1>3, SysinitDivides
  <2> QED  BY Zenon, <1>3, <2>1, <2>2 DEF sysinit, LayoutInv
<1>4. ASSUME pc \in Late, pc' \in Late, UNCHANGED layout
      PROVE  LayoutInv'
  <2>1. MemoryDisjoint'
    BY Zenon, <1>4 DEF layout, LayoutInv, MemoryDisjoint, Stack, Heap
  <2> QED  BY Zenon, <1>4, <2>1 DEF layout, LayoutInv
<1>5. ASSUME UNCHANGED <<layout, pc>>
      PROVE  LayoutInv'
  <2>1. MemoryDisjoint'
    BY ZenonT(40), <1>5 DEF layout, LayoutInv, MemoryDisjoint, Stack, Heap
  <2> QED  BY Zenon, <1>5, <2>1 DEF layout, LayoutInv
<1>6. CASE StoreStart
  BY Zenon, <1>4, <1>6 DEF StoreStart
<1>7. CASE StoreMailbox
  BY Zenon, <1>4, <1>7 DEF StoreMailbox
<1>8. CASE dmb
  BY Zenon, <1>4, <1>8 DEF dmb
<1>9. CASE sev
  BY Zenon, <1>4, <1>9 DEF sev
<1>10. CASE \E s \in sb : Drain(s)
  BY Zenon, <1>5, <1>10 DEF Drain
<1>11. CASE \E c \in Other : StartCore(c)
  BY Zenon, <1>5, <1>11 DEF StartCore, Wake, Look, setupCore
<1>12. CASE UNCHANGED vars
  BY Zenon, <1>5, <1>12 DEF vars, layout
<1> QED
  BY Zenon, <1>1, <1>2, <1>3, <1>6, <1>7, <1>8, <1>9, <1>10, <1>11, <1>12 DEF Next, nulluser

\* After sysinit() the kernel image, the null processes' stacks and the heaps
\* of the four cores are disjoint, for any image, memory and stack size.
THEOREM MemoryDisjointHolds ==
  ASSUME BootAssumption
  PROVE  Spec => []MemoryDisjoint
<1>1. Init => LayoutInv
  BY DEF Init, LayoutInv, MemoryDisjoint, BootAssumption, Early
<1>2. LayoutInv /\ [Next]_vars => LayoutInv'
  BY Zenon, LayoutStep
<1>3. LayoutInv => MemoryDisjoint
  BY Zenon DEF LayoutInv
<1> QED  BY <1>1, <1>2, <1>3, PTL DEF Spec
-----------------------------------------------------------------------------
\* Core 0's steps after sysinit() keep the stores before the events.
LEMMA UnparkStep ==
  ASSUME StartInv, nulluser \/ \E s \in sb : Drain(s)
  PROVE  StartInv'
<1> USE DEF Early, Late, Other, Visible, StartInv, StartTypeOK, EventsFollowStores,
            CoreStartsRight, secondary, layout
<1>1. CASE reset_handler
  BY Zenon, <1>1 DEF reset_handler
<1>2. CASE platforminit
  BY Zenon, <1>2 DEF platforminit
<1>3. CASE sysinit
  BY Zenon, <1>3 DEF sysinit
<1>4. CASE StoreStart
  BY <1>4 DEF StoreStart
<1>5. CASE StoreMailbox
  BY <1>5 DEF StoreMailbox
<1>6. CASE dmb
  BY Zenon, <1>6 DEF dmb
<1>7. CASE sev
  BY <1>7 DEF sev
<1>8. ASSUME NEW s \in sb, Drain(s) PROVE StartInv'
  <2>1. s \in {<<"corestart", num>>, <<"mailbox", num>>} /\ pc \in {"mailbox", "dmb"}
    OBVIOUS
  <2>2. CASE s = <<"corestart", num>>
    BY <1>8, <2>1, <2>2 DEF Drain
  <2>3. CASE s = <<"mailbox", num>>
    <3>1. /\ sb' = sb \ {s} /\ mailbox' = [mailbox EXCEPT ![num] = TRUE]
          /\ UNCHANGED <<layout, pc, num, cached, event, secondary>>
      BY Zenon, <1>8, <2>3 DEF Drain
    <3>2. StartTypeOK'
      BY Zenon, <3>1
    <3>3. EventsFollowStores'
      BY Zenon, <2>1, <2>3, <3>1
    <3> QED  BY Zenon, <3>1, <3>2, <3>3
  <2> QED  BY Zenon, <2>1, <2>2, <2>3
<1> QED
  BY Zenon, <1>1, <1>2, <1>3, <1>4, <1>5, <1>6, <1>7, <1>8 DEF nulluser

\* A core that leaves its loop has been woken, and jumps where corestart says.
LEMMA StartStep ==
  ASSUME StartInv, NEW c \in Other, StartCore(c)
  PROVE  StartInv'
<1> USE DEF Early, Late, Other, Visible, StartInv, StartTypeOK, EventsFollowStores,
            CoreStartsRight, layout
<1>1. CASE Wake(c)
  BY <1>1 DEF Wake
<1>2. CASE Look(c)
  BY Zenon, <1>2 DEF Look
<1>3. CASE setupCore(c)
  <2>1. pc \notin Early /\ cause[c] # 0 /\ (cause[c] >= c => cached[c] = "core_nulluser")
    BY Zenon, <1>3 DEF setupCore
  <2>2. /\ sp' = [sp EXCEPT ![c] = core_init_sp[c]] /\ at' = [at EXCEPT ![c] = cached[c]]
        /\ cpc' = [cpc EXCEPT ![c] = "running"]
        /\ UNCHANGED <<layout, pc, num, sb, cached, mailbox, event, cause>>
    BY Zenon, <1>3 DEF setupCore
  <2>3. StartTypeOK'
    BY <2>2
  <2>4. EventsFollowStores'
    BY Zenon, <2>2
  <2>5. CoreStartsRight'
    BY <2>1, <2>2
  <2> QED  BY Zenon, <2>1, <2>2, <2>3, <2>4, <2>5
<1> QED  BY Zenon, <1>1, <1>2, <1>3 DEF StartCore

\* platforminit() alone writes the table of the MMU, and completely.
LEMMA MmuStep ==
  ASSUME BootAssumption, MmuIdentity, [Next]_vars
  PROVE  MmuIdentity'
<1>1. CASE platforminit
  <2>1. mmu' = [s \in 0..SECTIONS - 1 |-> IF s >= PERIPH THEN <<s, "device">> ELSE <<s, "cached">>]
    BY Zenon, <1>1 DEF platforminit, mmu_init
  <2>2. ASSUME NEW s \in 0..SECTIONS - 1
        PROVE  mmu'[s] = <<s, IF s < PERIPH THEN "cached" ELSE "device">>
    <3>1. s \in Int /\ PERIPH \in Int
      BY DEF BootAssumption
    <3>2. CASE s < PERIPH
      <4>1. ~(s >= PERIPH)
        BY <3>1, <3>2
      <4> QED  BY Zenon, <2>1, <3>2, <4>1
    <3>3. CASE ~(s < PERIPH)
      <4>1. s >= PERIPH
        BY <3>1, <3>3
      <4> QED  BY Zenon, <2>1, <3>3, <4>1
    <3> QED  BY Zenon, <3>2, <3>3
  <2>3. DOMAIN mmu' = 0..SECTIONS - 1
    BY Zenon, <2>1
  <2> QED  BY Zenon, <2>2, <2>3 DEF MmuIdentity
<1>2. CASE reset_handler
  <2>1. pc' = "platforminit"
    BY Zenon, <1>2 DEF reset_handler
  <2> QED  BY Zenon, <2>1 DEF MmuIdentity
<1>3. CASE mmu' = mmu /\ (pc' = pc \/ pc \notin {"reset", "platforminit"})
  BY Zenon, <1>3 DEF MmuIdentity
<1>4. CASE sysinit
  <2>1. mmu' = mmu /\ pc = "sysinit"
    BY Zenon, <1>4 DEF sysinit
  <2> QED  BY Zenon, <1>3, <2>1
<1>5. CASE StoreStart \/ StoreMailbox \/ dmb \/ sev
  <2>1. mmu' = mmu /\ pc \in {"store", "mailbox", "dmb", "sev"}
    BY Zenon, <1>5 DEF StoreStart, StoreMailbox, dmb, sev, layout
  <2> QED  BY Zenon, <1>3, <2>1
<1>6. CASE (\E s \in sb : Drain(s)) \/ (\E c \in Other : StartCore(c)) \/ UNCHANGED vars
  <2>1. mmu' = mmu /\ pc' = pc
    BY Zenon, <1>6 DEF Drain, StartCore, Wake, Look, setupCore, layout, vars
  <2> QED  BY Zenon, <1>3, <2>1
<1> QED  BY Zenon, <1>1, <1>2, <1>4, <1>5, <1>6 DEF Next, nulluser

\* A core that was woken by its own unparkcore() or a later one, core 1 among
\* them in any case, starts at core_nulluser() on its own stack, in whatever
\* order the stores of core 0 become visible; the table of the MMU maps every
\* address to itself, the peripherals uncached, from platforminit() on.
THEOREM CoreStartsRightHolds ==
  ASSUME BootAssumption
  PROVE  Spec => [](CoreStartsRight /\ MmuIdentity)
<1>1. Init => StartInv
  BY DEF Init, Early, Late, Other, Visible, StartInv, StartTypeOK, EventsFollowStores,
         CoreStartsRight
<1>2. StartInv /\ [Next]_vars => StartInv'
  <2> SUFFICES ASSUME StartInv, [Next]_vars PROVE StartInv'
    OBVIOUS
  <2>1. CASE UNCHANGED vars
    BY Zenon, <2>1 DEF vars, StartInv, StartTypeOK, EventsFollowStores, CoreStartsRight, Visible
  <2> QED  BY Zenon, <2>1, UnparkStep, StartStep DEF Next
<1>3. StartInv => CoreStartsRight
  BY Zenon DEF StartInv
<1>4. Init => MmuIdentity
  BY Zenon DEF Init, MmuIdentity
<1>5. MmuIdentity /\ [Next]_vars => MmuIdentity'
  BY Zenon, MmuStep
<1> QED  BY <1>1, <1>2, <1>3, <1>4, <1>5, PTL DEF Spec

-----------------------------------------------------------------------------
(* Module Lifecycle, which shares the size of proctab[] with module Boot *)

CONSTANTS Creators, Stacks, SAMECORE, VICTIMS, CREATES
VARIABLES state, stkbase, regs, nextpid, numproc, free, lpc, pid, saddr, tries,
          run, serial, born, dying, lost
Life == INSTANCE Lifecycle WITH pc <- lpc

\* The process in slot p has its stack: create() has filled the entry in and
\* kill() has not given the stack back.
Holders == {p \in Life!Slot : /\ state[p] # "PRFREE" /\ run[p].at # "kill"
                              /\ \A c \in Creators : pid[c] # p}

\* create() has counted the process and not yet filled in its entry.
Making == {p \in Life!Slot : \E c \in Creators : pid[c] = p /\ lpc[c] \in {"susp", "pcb"}}

LifeType ==
  /\ state \in [Life!Slot -> {"PRFREE", "PRSUSP", "PRCURR", "PRRECV"}]
  /\ stkbase \in [Life!Slot -> Stacks \cup {Life!NONE}] /\ regs \in [Life!Slot -> Nat]
  /\ nextpid \in Life!Slot /\ numproc \in Int /\ free \subseteq Stacks
  /\ lpc \in [Creators -> {"idle", "increment", "test", "return", "check", "susp", "pcb", "kill"}]
  /\ pid \in [Creators -> Life!Slot \cup {Life!NONE}] /\ saddr \in [Creators -> Stacks \cup {Life!NONE}]
  /\ run \in [Life!Slot -> [at : {"gone", "user", "recv", "kill"}, id : Nat, stk : Stacks \cup {Life!NONE}]]
  /\ serial \in Nat /\ born \in [Life!Slot -> Nat] /\ dying \subseteq Life!Slot \X Nat /\ lost \subseteq Stacks

\* The code that runs in a slot fits its state, and its context is its own.
SlotOK(p) ==
  /\ run[p].at = "gone" <=> state[p] \in {"PRFREE", "PRSUSP"}
  /\ run[p].at = "recv" <=> state[p] = "PRRECV"
  /\ run[p].at # "gone" => run[p].id = born[p] /\ run[p].stk = stkbase[p]
  /\ state[p] = "PRSUSP" /\ (\A c \in Creators : pid[c] # p) => regs[p] = born[p]
SlotInv == \A p \in Life!Slot : SlotOK(p)

\* What the creator relies on between its accesses to the process table.
CreatorOK(c) ==
  /\ lpc[c] \in {"idle", "increment", "test", "return"} => pid[c] = Life!NONE
  /\ lpc[c] = "return" => state[nextpid] = "PRFREE"
  /\ lpc[c] \in {"susp", "pcb", "kill"} => pid[c] \in Life!Slot
  /\ lpc[c] \in {"check", "susp"} /\ pid[c] \in Life!Slot => state[pid[c]] = "PRFREE"
  /\ lpc[c] = "pcb" => state[pid[c]] = "PRSUSP"
  /\ lpc[c] = "kill" => state[pid[c]] = "PRRECV"
  /\ lpc[c] \in {"idle", "kill"} => saddr[c] = Life!NONE
  /\ lpc[c] \in {"susp", "pcb"} => saddr[c] \in Stacks
CreatorInv == \A c \in Creators : CreatorOK(c)

\* The registers of a dying process are saved in a slot that is still free.
DyingInv == \A d \in dying : state[d[1]] = "PRFREE"

\* Every stack is in one place: with a process of H, free, lost, or with a
\* creator.
StackOK(H, bs, fr, lo, sa) ==
  /\ \A p \in H : /\ bs[p] \in Stacks /\ bs[p] \notin fr /\ bs[p] \notin lo
                  /\ \A c \in Creators : sa[c] # bs[p]
  /\ \A p, q \in H : bs[p] = bs[q] => p = q
  /\ \A c \in Creators : sa[c] # Life!NONE => sa[c] \in Stacks /\ sa[c] \notin fr /\ sa[c] \notin lo
  /\ \A s \in fr : s \notin lo
  /\ \A s \in Stacks : \/ s \in fr \/ s \in lo \/ \E c \in Creators : sa[c] = s
                       \/ \E p \in H : bs[p] = s
StackInv == StackOK(Holders, stkbase, free, lost, saddr)

CountInv == numproc = Cardinality(Holders \cup Making)

\* The inductive invariant of the life cycle.
LifeInv == LifeType /\ SlotInv /\ CreatorInv /\ DyingInv /\ StackInv /\ CountInv

-----------------------------------------------------------------------------
\* NONE is no process id.
LEMMA NoneIsNone ==
  ASSUME Life!LifecycleAssumption
  PROVE  Life!NONE \notin Life!Slot /\ Life!NONE \notin Stacks
BY DEF Life!LifecycleAssumption, Life!Slot, Life!NONE

\* The sets the count is about are finite.
LEMMA HoldersFinite ==
  ASSUME Life!LifecycleAssumption
  PROVE  /\ Holders \subseteq Life!Slot /\ Making \subseteq Life!Slot /\ IsFiniteSet(Life!Slot)
         /\ IsFiniteSet(Holders \cup Making)
<1>1. IsFiniteSet(Life!Slot)
  <2>1. 0 \in Int /\ NPROC - 1 \in Int
    BY DEF Life!LifecycleAssumption
  <2> QED  BY Zenon, <2>1, FS_Interval DEF Life!Slot
<1>2. Holders \subseteq Life!Slot /\ Making \subseteq Life!Slot
  BY Zenon DEF Holders, Making
<1>3. Holders \cup Making \in SUBSET Life!Slot
  BY Zenon, <1>2
<1> QED  BY Zenon, <1>1, <1>2, <1>3, FS_Subset

\* A stack leaves its process and becomes free.
LEMMA StackFreed ==
  ASSUME NEW H, NEW bs, NEW fr, NEW lo, NEW sa, StackOK(H, bs, fr, lo, sa), NEW p \in H
  PROVE  StackOK(H \ {p}, bs, fr \cup {bs[p]}, lo, sa)
<1>1. /\ \A q \in H : /\ bs[q] \in Stacks /\ bs[q] \notin fr /\ bs[q] \notin lo
                      /\ \A c \in Creators : sa[c] # bs[q]
      /\ \A q, r \in H : bs[q] = bs[r] => q = r
      /\ \A c \in Creators : sa[c] # Life!NONE => sa[c] \in Stacks /\ sa[c] \notin fr /\ sa[c] \notin lo
      /\ \A s \in fr : s \notin lo
      /\ \A s \in Stacks : \/ s \in fr \/ s \in lo \/ \E c \in Creators : sa[c] = s
                           \/ \E q \in H : bs[q] = s
  BY Zenon DEF StackOK
<1>2. \A q \in H \ {p} : /\ bs[q] \in Stacks /\ bs[q] \notin fr \cup {bs[p]} /\ bs[q] \notin lo
                         /\ \A c \in Creators : sa[c] # bs[q]
  BY Zenon, <1>1
<1>3. \A c \in Creators : sa[c] # Life!NONE => /\ sa[c] \in Stacks /\ sa[c] \notin fr \cup {bs[p]}
                                               /\ sa[c] \notin lo
  BY Zenon, <1>1
<1>4. \A s \in Stacks : \/ s \in fr \cup {bs[p]} \/ s \in lo \/ \E c \in Creators : sa[c] = s
                        \/ \E q \in H \ {p} : bs[q] = s
  BY Zenon, <1>1
<1> QED  BY Zenon, <1>1, <1>2, <1>3, <1>4 DEF StackOK

\* Steps that change neither the stacks nor the set of processes that have
\* one.
LEMMA StackStays ==
  ASSUME LifeInv, Holders' = Holders, UNCHANGED <<stkbase, free, lost, saddr>>
  PROVE  StackInv'
BY Zenon DEF LifeInv, StackInv

\* Steps that change neither the count nor the set of processes counted.
LEMMA CountStays ==
  ASSUME LifeInv, Holders' \cup Making' = Holders \cup Making, numproc' = numproc
  PROVE  CountInv'
BY Zenon DEF LifeInv, CountInv

\* getmem() moves a stack from the free ones to the creator.
LEMMA GetmemStep ==
  ASSUME Life!LifecycleAssumption, Life!Alone, LifeInv, dying = {}, NEW c \in Creators, Life!getmem(c)
  PROVE  LifeInv'
<1>1. /\ lpc[c] = "idle" /\ lpc' = [lpc EXCEPT ![c] = "increment"]
      /\ UNCHANGED <<state, stkbase, regs, nextpid, numproc, pid, tries, run, serial, born, dying, lost>>
  BY Zenon DEF Life!getmem
<1>2. LifeType /\ SlotInv /\ CreatorInv /\ StackInv /\ CountInv /\ \A d \in Creators : d = c
  BY Zenon DEF LifeInv, Life!Alone
<1>3. pid[c] = Life!NONE /\ saddr[c] = Life!NONE
  BY Zenon, <1>1, <1>2 DEF CreatorInv, CreatorOK
<1>4. lpc'[c] = "increment" /\ \A d \in Creators : lpc'[d] = "increment"
  BY Zenon, <1>1, <1>2 DEF LifeType
<1>5. lpc' \in [Creators -> {"idle", "increment", "test", "return", "check", "susp", "pcb", "kill"}]
  BY Zenon, <1>1, <1>2 DEF LifeType
<1>6. Holders' = Holders
  BY Zenon, <1>1 DEF Holders
<1>7. Making' = {} /\ Making = {}
  BY Zenon, <1>1, <1>2, <1>4 DEF Making
<1>8. CountInv'
  BY Zenon, <1>1, <1>6, <1>7, CountStays
<1>9. SlotInv' /\ DyingInv'
  BY Zenon, <1>1, <1>2 DEF SlotInv, SlotOK, DyingInv
<1>10. CreatorInv'
  BY Zenon, <1>1, <1>2, <1>3, <1>4 DEF CreatorInv, CreatorOK
<1>11. CASE UNCHANGED <<free, saddr>>
  <2>1. StackInv'
    BY Zenon, <1>1, <1>6, <1>11, StackStays
  <2>2. LifeType'
    BY Zenon, <1>1, <1>2, <1>5, <1>11 DEF LifeType
  <2> QED  BY Zenon, <1>8, <1>9, <1>10, <2>1, <2>2 DEF LifeInv
<1>12. ASSUME NEW s \in free, free' = free \ {s}, saddr' = [saddr EXCEPT ![c] = s]
       PROVE  LifeInv'
  <2>1. s \in Stacks /\ saddr'[c] = s /\ \A d \in Creators : saddr'[d] = s /\ saddr[d] = Life!NONE
    BY Zenon, <1>2, <1>3, <1>12 DEF LifeType
  <2>2. LifeType'
    BY Zenon, <1>1, <1>2, <1>5, <1>12, <2>1 DEF LifeType
  <2>3. /\ \A p \in Holders : /\ stkbase[p] \in Stacks /\ stkbase[p] \notin free
                              /\ stkbase[p] \notin lost
        /\ \A p, q \in Holders : stkbase[p] = stkbase[q] => p = q
        /\ \A x \in free : x \notin lost
        /\ \A x \in Stacks : x \in free \/ x \in lost \/ \E p \in Holders : stkbase[p] = x
    <3>1. \A x \in Stacks : x # Life!NONE
      BY Zenon DEF Life!LifecycleAssumption
    <3> QED  BY Zenon, <1>2, <2>1, <3>1 DEF StackInv, StackOK
  <2>4. StackOK(Holders, stkbase, free', lost, saddr')
    <3>1. \A p \in Holders : /\ stkbase[p] \in Stacks /\ stkbase[p] \notin free'
                             /\ stkbase[p] \notin lost
                             /\ \A d \in Creators : saddr'[d] # stkbase[p]
      <4>1. \A p \in Holders : stkbase[p] # s
        BY Zenon, <2>3
      <4> QED  BY Zenon, <1>12, <2>1, <2>3, <4>1
    <3>2. \A d \in Creators : saddr'[d] \in Stacks /\ saddr'[d] \notin free' /\ saddr'[d] \notin lost
      <4>1. s \notin free' /\ s \notin lost
        BY Zenon, <1>12, <2>3
      <4> QED  BY Zenon, <2>1, <4>1
    <3>3. \A x \in free' : x \notin lost
      BY Zenon, <1>12, <2>3
    <3>4. \A x \in Stacks : \/ x \in free' \/ x \in lost \/ \E d \in Creators : saddr'[d] = x
                            \/ \E p \in Holders : stkbase[p] = x
      BY Zenon, <1>12, <2>1, <2>3
    <3> QED  BY Zenon, <2>3, <3>1, <3>2, <3>3, <3>4 DEF StackOK
  <2>5. StackInv'
    BY Zenon, <1>1, <1>6, <2>4 DEF StackInv
  <2> QED  BY Zenon, <1>8, <1>9, <1>10, <2>2, <2>5 DEF LifeInv
<1> QED  BY Zenon, <1>11, <1>12 DEF Life!getmem

\* newpid() without the return: nothing but the creator's place changes, and
\* at the return the id is free.
LEMMA NewpidStep ==
  ASSUME Life!LifecycleAssumption, Life!Alone, LifeInv, dying = {}, NEW c \in Creators, Life!Increment(c) \/ Life!Test(c)
  PROVE  LifeInv'
<1>1. /\ lpc[c] \in {"increment", "test"}
      /\ UNCHANGED <<state, stkbase, regs, numproc, free, pid, saddr, run, serial, born, dying, lost>>
  BY Zenon DEF Life!Increment, Life!Test
<1>2. LifeType /\ SlotInv /\ CreatorInv /\ StackInv /\ CountInv /\ \A d \in Creators : d = c
  BY Zenon DEF LifeInv, Life!Alone
<1>3. pid[c] = Life!NONE
  BY Zenon, <1>1, <1>2 DEF CreatorInv, CreatorOK
<1>4. /\ nextpid' \in Life!Slot /\ lpc'[c] \in {"test", "return", "check", "increment"}
      /\ lpc' \in [Creators -> {"idle", "increment", "test", "return", "check", "susp", "pcb", "kill"}]
      /\ lpc'[c] = "return" => state[nextpid'] = "PRFREE"
  <2>1. CASE Life!Increment(c)
    <3>1. nextpid' = (nextpid + 1) % NPROC /\ lpc' = [lpc EXCEPT ![c] = "test"]
      BY Zenon, <2>1 DEF Life!Increment
    <3>2. nextpid' \in Life!Slot
      BY <1>2, <3>1 DEF LifeType, Life!Slot, Life!LifecycleAssumption
    <3> QED  BY Zenon, <1>2, <3>1, <3>2 DEF LifeType
  <2>2. CASE Life!Test(c)
    BY Zenon, <1>2, <2>2 DEF Life!Test, LifeType
  <2> QED  BY Zenon, <2>1, <2>2
<1>5. LifeType'
  BY Zenon, <1>1, <1>2, <1>4 DEF LifeType
<1>6. SlotInv' /\ DyingInv'
  BY Zenon, <1>1, <1>2 DEF SlotInv, SlotOK, DyingInv
<1>7. CreatorInv'
  <2>1. \A d \in Creators : /\ pid'[d] = Life!NONE /\ pid'[d] \notin Life!Slot
                            /\ lpc'[d] \in {"test", "return", "check", "increment"}
                            /\ lpc'[d] = "return" => state'[nextpid'] = "PRFREE"
    BY Zenon, <1>1, <1>2, <1>3, <1>4, NoneIsNone
  <2>2. ASSUME NEW d \in Creators
        PROVE  CreatorOK(d)'
    <3>1. /\ pid'[d] = Life!NONE /\ pid'[d] \notin Life!Slot
          /\ lpc'[d] = "return" => state'[nextpid'] = "PRFREE"
          /\ lpc'[d] \notin {"susp", "pcb", "kill", "idle"}
      <4>1. lpc'[d] \in {"test", "return", "check", "increment"}
        BY Zenon, <2>1
      <4>2. lpc'[d] \notin {"susp", "pcb", "kill", "idle"}
        BY Zenon, <4>1
      <4> QED  BY Zenon, <2>1, <4>2
    <3> QED  BY Zenon, <3>1 DEF CreatorOK
  <2> QED  BY Zenon, <2>2 DEF CreatorInv
<1>8. Holders' = Holders
  BY Zenon, <1>1 DEF Holders
<1>9. Making' = {} /\ Making = {}
  BY Zenon, <1>1, <1>2, <1>4 DEF Making
<1>10. StackInv' /\ CountInv'
  BY Zenon, <1>1, <1>8, <1>9, StackStays, CountStays
<1> QED  BY Zenon, <1>5, <1>6, <1>7, <1>10 DEF LifeInv

\* newpid() returns an id that is still free: nobody else takes ids.
LEMMA ReturnStep ==
  ASSUME Life!LifecycleAssumption, Life!Alone, LifeInv, dying = {}, NEW c \in Creators, Life!Return(c)
  PROVE  LifeInv'
<1>1. /\ lpc[c] = "return" /\ pid' = [pid EXCEPT ![c] = nextpid] /\ lpc' = [lpc EXCEPT ![c] = "check"]
      /\ UNCHANGED <<state, stkbase, regs, nextpid, numproc, free, saddr, tries, run, serial, born, dying, lost>>
  BY Zenon DEF Life!Return
<1>2. LifeType /\ SlotInv /\ CreatorInv /\ StackInv /\ CountInv /\ \A d \in Creators : d = c
  BY Zenon DEF LifeInv, Life!Alone
<1>3. pid[c] = Life!NONE /\ state[nextpid] = "PRFREE" /\ nextpid \in Life!Slot
  BY Zenon, <1>1, <1>2 DEF CreatorInv, CreatorOK, LifeType
<1>4. /\ pid'[c] = nextpid /\ lpc'[c] = "check"
      /\ pid' \in [Creators -> Life!Slot \cup {Life!NONE}]
      /\ lpc' \in [Creators -> {"idle", "increment", "test", "return", "check", "susp", "pcb", "kill"}]
  BY Zenon, <1>1, <1>2, <1>3 DEF LifeType
<1>5. LifeType'
  BY Zenon, <1>1, <1>2, <1>4 DEF LifeType
<1>6. \A p \in Life!Slot : state[p] # "PRFREE" => ((\A d \in Creators : pid'[d] # p) <=> (\A d \in Creators : pid[d] # p))
  <2>1. \A p \in Life!Slot : p # Life!NONE
    BY DEF Life!Slot, Life!NONE, Life!LifecycleAssumption
  <2> QED  BY Zenon, <1>2, <1>3, <1>4, <2>1
<1>7. \A p \in Life!Slot : state[p] = "PRSUSP" => state[p] # "PRFREE"
  OBVIOUS
<1>8. SlotInv'
  BY Zenon, <1>1, <1>2, <1>6, <1>7 DEF SlotInv, SlotOK
<1>9. DyingInv'
  BY Zenon, <1>1 DEF DyingInv
<1>10. CreatorInv'
  BY Zenon, <1>1, <1>2, <1>3, <1>4 DEF CreatorInv, CreatorOK
<1>11. Holders' = Holders
  BY Zenon, <1>1, <1>6 DEF Holders
<1>12. Making' = {} /\ Making = {}
  BY Zenon, <1>1, <1>2, <1>4 DEF Making
<1>13. StackInv' /\ CountInv'
  BY Zenon, <1>1, <1>11, <1>12, StackStays, CountStays
<1> QED  BY Zenon, <1>5, <1>8, <1>9, <1>10, <1>13 DEF LifeInv

\* create() gives up and keeps the stack, or counts the process.
LEMMA CheckStep ==
  ASSUME Life!LifecycleAssumption, Life!Alone, LifeInv, dying = {}, NEW c \in Creators, Life!Check(c)
  PROVE  LifeInv'
<1>1. /\ lpc[c] = "check"
      /\ UNCHANGED <<state, stkbase, regs, nextpid, free, run, serial, born, dying>>
  BY Zenon DEF Life!Check
<1>2. LifeType /\ SlotInv /\ CreatorInv /\ StackInv /\ CountInv /\ \A d \in Creators : d = c
  BY Zenon DEF LifeInv, Life!Alone
<1>3. pid[c] \in Life!Slot => state[pid[c]] = "PRFREE"
  BY Zenon, <1>1, <1>2 DEF CreatorInv, CreatorOK
<1>4. DyingInv'
  BY Zenon, <1>1 DEF DyingInv
<1>5. Making = {}
  BY Zenon, <1>1, <1>2 DEF Making
<1>6. CASE saddr[c] = Life!NONE \/ pid[c] = Life!NONE
  <2>1. /\ pid' = [pid EXCEPT ![c] = Life!NONE] /\ saddr' = [saddr EXCEPT ![c] = Life!NONE]
        /\ lpc' = [lpc EXCEPT ![c] = "idle"] /\ lost' = lost \cup ({saddr[c]} \ {Life!NONE}) /\ numproc' = numproc
    BY Zenon, <1>6 DEF Life!Check, Life!Reset
  <2>2. \A d \in Creators : pid'[d] = Life!NONE /\ saddr'[d] = Life!NONE /\ lpc'[d] = "idle"
    BY Zenon, <1>2, <2>1 DEF LifeType
  <2>3. LifeType'
    <3>1. lpc' \in [Creators -> {"idle", "increment", "test", "return", "check", "susp", "pcb", "kill"}]
      BY Zenon, <1>2, <2>1 DEF LifeType
    <3>2. pid' \in [Creators -> Life!Slot \cup {Life!NONE}] /\ saddr' \in [Creators -> Stacks \cup {Life!NONE}]
      BY Zenon, <1>2, <2>1 DEF LifeType
    <3>3. lost' \subseteq Stacks
      BY Zenon, <1>2, <2>1 DEF LifeType
    <3> QED  BY Zenon, <1>1, <1>2, <2>1, <3>1, <3>2, <3>3 DEF LifeType
  <2>4. \A p \in Life!Slot : state[p] # "PRFREE" => /\ \A d \in Creators : pid'[d] # p
                                                    /\ \A d \in Creators : pid[d] # p
    BY Zenon, <1>2, <1>3, <2>2, NoneIsNone
  <2>5. \A p \in Life!Slot : state[p] = "PRSUSP" => state[p] # "PRFREE"
    OBVIOUS
  <2>6. SlotInv'
    BY Zenon, <1>1, <1>2, <2>4, <2>5 DEF SlotInv, SlotOK
  <2>7. CreatorInv'
    BY Zenon, <2>2, NoneIsNone DEF CreatorInv, CreatorOK
  <2>8. Holders' = Holders
    BY Zenon, <1>1, <2>4 DEF Holders
  <2>9. Making' = {}
    BY Zenon, <2>2 DEF Making
  <2>10. CountInv'
    BY Zenon, <1>5, <2>1, <2>8, <2>9, CountStays
  <2>11. StackInv'
    <3>1. StackOK(Holders, stkbase, free, lost, saddr)
      BY Zenon, <1>2 DEF StackInv
    <3>2. StackOK(Holders, stkbase, free, lost', saddr')
      <4>1. \A p \in Holders : /\ stkbase[p] \in Stacks /\ stkbase[p] \notin free
                               /\ stkbase[p] \notin lost'
                               /\ \A d \in Creators : saddr'[d] # stkbase[p]
        <5>1. \A p \in Holders : /\ stkbase[p] \in Stacks /\ stkbase[p] \notin free
                                 /\ stkbase[p] \notin lost /\ stkbase[p] # saddr[c]
          BY Zenon, <3>1 DEF StackOK
        <5>2. \A p \in Holders : stkbase[p] # Life!NONE /\ stkbase[p] \notin lost'
          BY Zenon, <2>1, <5>1, NoneIsNone
        <5> QED  BY Zenon, <2>2, <5>1, <5>2
      <4>2. \A x \in free : x \notin lost'
        BY Zenon, <2>1, <3>1 DEF StackOK
      <4>3. \A x \in Stacks : \/ x \in free \/ x \in lost' \/ \E d \in Creators : saddr'[d] = x
                              \/ \E p \in Holders : stkbase[p] = x
        BY Zenon, <1>2, <2>1, <3>1, NoneIsNone DEF StackOK
      <4> QED  BY Zenon, <2>2, <3>1, <4>1, <4>2, <4>3 DEF StackOK
    <3> QED  BY Zenon, <1>1, <2>8, <3>2 DEF StackInv
  <2> QED  BY Zenon, <1>4, <2>3, <2>6, <2>7, <2>10, <2>11 DEF LifeInv
<1>7. CASE ~(saddr[c] = Life!NONE \/ pid[c] = Life!NONE)
  <2>1. /\ numproc' = numproc + 1 /\ lpc' = [lpc EXCEPT ![c] = "susp"]
        /\ UNCHANGED <<pid, saddr, tries, lost>>
    BY Zenon, <1>7 DEF Life!Check
  <2>2. pid[c] \in Life!Slot /\ saddr[c] \in Stacks /\ state[pid[c]] = "PRFREE"
    BY Zenon, <1>2, <1>3, <1>7 DEF LifeType
  <2>3. \A d \in Creators : lpc'[d] = "susp"
    BY Zenon, <1>2, <2>1 DEF LifeType
  <2>4. LifeType'
    <3>1. lpc' \in [Creators -> {"idle", "increment", "test", "return", "check", "susp", "pcb", "kill"}]
      BY Zenon, <1>2, <2>1 DEF LifeType
    <3>2. numproc' \in Int
      BY <1>2, <2>1 DEF LifeType
    <3> QED  BY Zenon, <1>1, <1>2, <2>1, <3>1, <3>2 DEF LifeType
  <2>5. SlotInv'
    BY Zenon, <1>1, <1>2, <2>1 DEF SlotInv, SlotOK
  <2>6. CreatorInv'
    BY Zenon, <1>1, <1>2, <2>1, <2>2, <2>3 DEF CreatorInv, CreatorOK
  <2>7. Holders' = Holders
    BY Zenon, <1>1, <2>1 DEF Holders
  <2>8. Making' = {pid[c]}
    <3>1. \A p \in Life!Slot : (\E d \in Creators : pid'[d] = p /\ lpc'[d] \in {"susp", "pcb"}) <=> p = pid[c]
      BY Zenon, <1>2, <2>1, <2>3
    <3> QED  BY Zenon, <2>2, <3>1 DEF Making
  <2>9. pid[c] \notin Holders
    BY Zenon, <2>2 DEF Holders
  <2>10. CountInv'
    <3>1. IsFiniteSet(Holders)
      BY Zenon, <1>5, HoldersFinite
    <3>2. Cardinality(Holders \cup {pid[c]}) = Cardinality(Holders) + 1
      BY Zenon, <2>9, <3>1, FS_AddElement
    <3>3. numproc = Cardinality(Holders)
      BY Zenon, <1>2, <1>5 DEF CountInv
    <3> QED  BY Zenon, <2>1, <2>7, <2>8, <3>2, <3>3 DEF CountInv
  <2>11. StackInv'
    BY Zenon, <1>1, <2>1, <2>7, StackStays
  <2> QED  BY Zenon, <1>4, <2>4, <2>5, <2>6, <2>10, <2>11 DEF LifeInv
<1> QED  BY Zenon, <1>6, <1>7

\* create() marks the entry used.
LEMMA SuspStep ==
  ASSUME Life!LifecycleAssumption, Life!Alone, LifeInv, dying = {}, NEW c \in Creators, Life!Susp(c)
  PROVE  LifeInv'
<1>1. /\ lpc[c] = "susp" /\ state' = [state EXCEPT ![pid[c]] = "PRSUSP"] /\ lpc' = [lpc EXCEPT ![c] = "pcb"]
      /\ UNCHANGED <<stkbase, regs, nextpid, numproc, free, pid, saddr, tries, run, serial, born, dying, lost>>
  BY Zenon DEF Life!Susp
<1>2. LifeType /\ SlotInv /\ CreatorInv /\ StackInv /\ CountInv /\ \A d \in Creators : d = c
  BY Zenon DEF LifeInv, Life!Alone
<1>3. pid[c] \in Life!Slot /\ state[pid[c]] = "PRFREE" /\ saddr[c] \in Stacks
  BY Zenon, <1>1, <1>2 DEF CreatorInv, CreatorOK
<1>4. /\ state'[pid[c]] = "PRSUSP" /\ \A p \in Life!Slot : p # pid[c] => state'[p] = state[p]
  BY Zenon, <1>1, <1>2, <1>3 DEF LifeType
<1>5. \A d \in Creators : lpc'[d] = "pcb" /\ lpc[d] = "susp" /\ pid'[d] = pid[c] /\ saddr'[d] \in Stacks
  BY Zenon, <1>1, <1>2, <1>3 DEF LifeType
<1>6. LifeType'
  <2>1. lpc' \in [Creators -> {"idle", "increment", "test", "return", "check", "susp", "pcb", "kill"}]
    BY Zenon, <1>1, <1>2 DEF LifeType
  <2>2. state' \in [Life!Slot -> {"PRFREE", "PRSUSP", "PRCURR", "PRRECV"}]
    BY Zenon, <1>1, <1>2 DEF LifeType
  <2> QED  BY Zenon, <1>1, <1>2, <2>1, <2>2 DEF LifeType
<1>7. SlotInv'
  <2> SUFFICES ASSUME NEW p \in Life!Slot
               PROVE  SlotOK(p)'
    BY Zenon DEF SlotInv
  <2>1. CASE p # pid[c]
    BY ZenonT(40), <1>1, <1>2, <1>4, <2>1 DEF SlotInv, SlotOK
  <2>2. CASE p = pid[c]
    BY Zenon, <1>1, <1>2, <1>3, <1>4, <2>2 DEF SlotInv, SlotOK
  <2> QED  BY Zenon, <2>1, <2>2
<1>8. DyingInv'
  BY Zenon, <1>1 DEF DyingInv
<1>9. CreatorInv'
  BY Zenon, <1>3, <1>4, <1>5 DEF CreatorInv, CreatorOK
<1>10. Holders' = Holders
  <2>1. \A p \in Life!Slot : (\A d \in Creators : pid[d] # p) => state'[p] = state[p]
    BY Zenon, <1>4
  <2> QED  BY Zenon, <1>1, <2>1 DEF Holders
<1>11. Making' = Making
  <2>1. \A d \in Creators : lpc'[d] \in {"susp", "pcb"} /\ lpc[d] \in {"susp", "pcb"}
    BY Zenon, <1>5
  <2> QED  BY Zenon, <1>1, <2>1 DEF Making
<1>12. StackInv' /\ CountInv'
  BY Zenon, <1>1, <1>10, <1>11, StackStays, CountStays
<1> QED  BY Zenon, <1>6, <1>7, <1>8, <1>9, <1>12 DEF LifeInv

\* create() fills in the entry: the process has its stack and context now.
LEMMA PcbStep ==
  ASSUME Life!LifecycleAssumption, Life!Alone, LifeInv, dying = {}, NEW c \in Creators, Life!Pcb(c)
  PROVE  LifeInv'
<1> DEFINE p == pid[c]
<1>1. /\ lpc[c] = "pcb" /\ stkbase' = [stkbase EXCEPT ![p] = saddr[c]]
      /\ regs' = [regs EXCEPT ![p] = serial + 1] /\ serial' = serial + 1
      /\ born' = [born EXCEPT ![p] = serial + 1]
      /\ pid' = [pid EXCEPT ![c] = Life!NONE] /\ saddr' = [saddr EXCEPT ![c] = Life!NONE]
      /\ lpc' = [lpc EXCEPT ![c] = "idle"]
      /\ UNCHANGED <<state, nextpid, numproc, free, run, dying, lost>>
  BY Zenon DEF Life!Pcb, Life!Reset
<1>2. LifeType /\ SlotInv /\ CreatorInv /\ StackInv /\ CountInv /\ \A d \in Creators : d = c
  BY Zenon DEF LifeInv, Life!Alone
<1>3. p \in Life!Slot /\ state[p] = "PRSUSP" /\ saddr[c] \in Stacks
  BY Zenon, <1>1, <1>2 DEF CreatorInv, CreatorOK
<1>4. run[p].at = "gone"
  BY Zenon, <1>2, <1>3 DEF SlotInv, SlotOK
<1>5. \A d \in Creators : pid'[d] = Life!NONE /\ saddr'[d] = Life!NONE /\ lpc'[d] = "idle" /\ pid[d] = p
  BY Zenon, <1>1, <1>2 DEF LifeType
<1>6. /\ stkbase'[p] = saddr[c] /\ regs'[p] = born'[p]
      /\ \A q \in Life!Slot : q # p => stkbase'[q] = stkbase[q] /\ regs'[q] = regs[q] /\ born'[q] = born[q]
  <2> HIDE DEF p
  <2> QED  BY Zenon, <1>1, <1>2, <1>3 DEF LifeType
<1>7. LifeType'
  <2>1. lpc' \in [Creators -> {"idle", "increment", "test", "return", "check", "susp", "pcb", "kill"}]
    BY Zenon, <1>1, <1>2 DEF LifeType
  <2>2. pid' \in [Creators -> Life!Slot \cup {Life!NONE}] /\ saddr' \in [Creators -> Stacks \cup {Life!NONE}]
    BY Zenon, <1>1, <1>2 DEF LifeType
  <2>3. serial' \in Nat /\ serial + 1 \in Nat
    BY <1>1, <1>2 DEF LifeType
  <2>4. stkbase' \in [Life!Slot -> Stacks \cup {Life!NONE}]
    BY Zenon, <1>1, <1>2, <1>3 DEF LifeType
  <2>5. regs' \in [Life!Slot -> Nat] /\ born' \in [Life!Slot -> Nat]
    BY Zenon, <1>1, <1>2, <2>3 DEF LifeType
  <2> QED  BY Zenon, <1>1, <1>2, <2>1, <2>2, <2>3, <2>4, <2>5 DEF LifeType
<1>8. SlotInv'
  <2> SUFFICES ASSUME NEW q \in Life!Slot
               PROVE  SlotOK(q)'
    BY Zenon DEF SlotInv
  <2>1. CASE q # p
    <3>1. \A d \in Creators : pid[d] # q
      BY Zenon, <1>5, <2>1
    <3>2. SlotOK(q) /\ regs'[q] = regs[q] /\ born'[q] = born[q] /\ stkbase'[q] = stkbase[q]
      BY Zenon, <1>2, <1>6, <2>1 DEF SlotInv
    <3>3. state'[q] = state[q] /\ run'[q] = run[q]
      BY Zenon, <1>1
    <3> QED  BY Zenon, <3>1, <3>2, <3>3 DEF SlotOK
  <2>2. CASE q = p
    <3>1. /\ state'[q] = "PRSUSP" /\ run'[q].at = "gone" /\ regs'[q] = born'[q]
      BY Zenon, <1>1, <1>3, <1>4, <1>6, <2>2
    <3>2. state'[q] \in {"PRFREE", "PRSUSP"} /\ ~(state'[q] = "PRRECV") /\ ~(run'[q].at = "recv")
      BY Zenon, <3>1
    <3> QED  BY Zenon, <3>1, <3>2 DEF SlotOK
  <2> QED  BY Zenon, <2>1, <2>2
<1>9. DyingInv'
  BY Zenon, <1>1 DEF DyingInv
<1>10. CreatorInv'
  BY Zenon, <1>5, NoneIsNone DEF CreatorInv, CreatorOK
<1>11. Holders' = Holders \cup {p} /\ p \notin Holders
  <2>1. run[p].at # "kill" /\ state[p] # "PRFREE"
    BY Zenon, <1>3, <1>4
  <2>2. \A q \in Life!Slot : (\A d \in Creators : pid'[d] # q) /\ ((\A d \in Creators : pid[d] # q) <=> q # p)
    BY Zenon, <1>5, NoneIsNone
  <2>3. p \notin Holders
    BY Zenon, <2>2 DEF Holders
  <2>4. \A q \in Life!Slot : q \in Holders' <=> state[q] # "PRFREE" /\ run[q].at # "kill"
    BY Zenon, <1>1, <2>2 DEF Holders
  <2>5. \A q \in Life!Slot : q \in Holders \cup {p} <=> state[q] # "PRFREE" /\ run[q].at # "kill"
    BY Zenon, <1>3, <2>1, <2>2 DEF Holders
  <2>6. Holders \subseteq Life!Slot /\ Holders' \subseteq Life!Slot
    BY Zenon DEF Holders
  <2> QED  BY Zenon, <1>3, <2>3, <2>4, <2>5, <2>6
<1>12. Making = {p} /\ Making' = {}
  <2>1. \A q \in Life!Slot : (\E d \in Creators : pid[d] = q /\ lpc[d] \in {"susp", "pcb"}) <=> q = p
    BY Zenon, <1>1, <1>2
  <2>2. \A d \in Creators : lpc'[d] \notin {"susp", "pcb"}
    BY Zenon, <1>5
  <2> QED  BY Zenon, <1>3, <2>1, <2>2 DEF Making
<1>13. CountInv'
  <2>1. Holders' \cup Making' = Holders \cup Making
    BY Zenon, <1>11, <1>12
  <2> QED  BY Zenon, <1>1, <2>1, CountStays
<1>14. StackInv'
  <2>1. StackOK(Holders, stkbase, free, lost, saddr)
    BY Zenon, <1>2 DEF StackInv
  <2>2. /\ \A q \in Holders : /\ stkbase[q] \in Stacks /\ stkbase[q] \notin free
                              /\ stkbase[q] \notin lost /\ stkbase[q] # saddr[c]
        /\ saddr[c] # Life!NONE /\ saddr[c] \notin free /\ saddr[c] \notin lost
    BY Zenon, <1>3, <2>1, NoneIsNone DEF StackOK
  <2>3. \A q \in Holders : q # p /\ q \in Life!Slot /\ stkbase'[q] = stkbase[q]
    <3>1. \A q \in Holders : q # p /\ q \in Life!Slot
      BY Zenon, <1>11 DEF Holders
    <3> QED  BY Zenon, <1>6, <3>1
  <2>4. \A q \in Holders \cup {p} : /\ stkbase'[q] \in Stacks /\ stkbase'[q] \notin free
                                    /\ stkbase'[q] \notin lost
    BY Zenon, <1>3, <1>6, <2>2, <2>3
  <2>5. \A q \in Holders \cup {p} : \A d \in Creators : saddr'[d] # stkbase'[q]
    BY Zenon, <1>5, <2>4, NoneIsNone
  <2>6. \A q, r \in Holders \cup {p} : stkbase'[q] = stkbase'[r] => q = r
    <3>1. \A q, r \in Holders : stkbase[q] = stkbase[r] => q = r
      BY Zenon, <2>1 DEF StackOK
    <3>2. \A q \in Holders : stkbase'[q] # stkbase'[p]
      BY Zenon, <1>6, <2>2, <2>3
    <3>3. \A q, r \in Holders : stkbase'[q] = stkbase'[r] => q = r
      BY Zenon, <2>3, <3>1
    <3> QED  BY Zenon, <3>2, <3>3
  <2>7. \A x \in free : x \notin lost
    BY Zenon, <2>1 DEF StackOK
  <2>8. ASSUME NEW x \in Stacks
        PROVE  x \in free \/ x \in lost \/ \E q \in Holders \cup {p} : stkbase'[q] = x
    <3>1. x \in free \/ x \in lost \/ x = saddr[c] \/ \E q \in Holders : stkbase[q] = x
      BY Zenon, <1>2, <2>1 DEF StackOK
    <3>2. (\E q \in Holders : stkbase[q] = x) => \E q \in Holders \cup {p} : stkbase'[q] = x
      BY Zenon, <2>3
    <3>3. x = saddr[c] => \E q \in Holders \cup {p} : stkbase'[q] = x
      BY Zenon, <1>6
    <3> QED  BY Zenon, <3>1, <3>2, <3>3
  <2>9. StackOK(Holders \cup {p}, stkbase', free, lost, saddr')
    BY Zenon, <1>5, <2>4, <2>5, <2>6, <2>7, <2>8 DEF StackOK
  <2> QED  BY Zenon, <1>1, <1>11, <2>9 DEF StackInv
<1> QED  BY Zenon, <1>7, <1>8, <1>9, <1>10, <1>13, <1>14 DEF LifeInv

\* The process starts, with the context of its slot, or waits in recv().
LEMMA FirstStep ==
  ASSUME Life!LifecycleAssumption, Life!Alone, LifeInv, dying = {}, NEW p \in Life!Slot, Life!Start(p) \/ Life!Receive(p)
  PROVE  LifeInv'
<1>1. UNCHANGED <<stkbase, regs, nextpid, numproc, free, lpc, pid, saddr, tries, serial, born, dying, lost>>
  BY Zenon DEF Life!Start, Life!Receive
<1>2. LifeType /\ SlotInv /\ CreatorInv
  BY Zenon DEF LifeInv
<1>3. \A c \in Creators : pid[c] # p
  <2>1. CASE Life!Start(p)
    BY Zenon, <2>1 DEF Life!Start
  <2>2. CASE Life!Receive(p)
    <3>1. state[p] = "PRCURR"
      BY Zenon, <2>2 DEF Life!Receive
    <3> SUFFICES ASSUME NEW c \in Creators, pid[c] = p
                 PROVE  FALSE
      OBVIOUS
    <3>2. /\ lpc[c] \in {"idle", "increment", "test", "return", "check", "susp", "pcb", "kill"}
          /\ CreatorOK(c) /\ p # Life!NONE
      BY Zenon, <1>2, NoneIsNone DEF LifeType, CreatorInv
    <3> QED  BY Zenon, <3>1, <3>2 DEF CreatorOK
  <2> QED  BY Zenon, <2>1, <2>2
<1> DEFINE s == IF Life!Start(p) THEN "PRCURR" ELSE "PRRECV"
           r == IF Life!Start(p) THEN [at |-> "user", id |-> regs[p], stk |-> stkbase[p]] ELSE [run[p] EXCEPT !.at = "recv"]
<1>4. /\ state' = [state EXCEPT ![p] = s] /\ run' = [run EXCEPT ![p] = r]
  <2>1. CASE Life!Start(p)
    BY Zenon, <2>1 DEF Life!Start
  <2>2. CASE ~Life!Start(p)
    BY Zenon, <2>2 DEF Life!Receive
  <2> QED  BY Zenon, <2>1, <2>2
<1>5. /\ state[p] \in {"PRSUSP", "PRCURR"} /\ state[p] # "PRFREE" /\ run[p].at \in {"gone", "user"}
  BY Zenon, <1>2 DEF Life!Start, Life!Receive, SlotInv, SlotOK
<1>6. /\ r \in [at : {"gone", "user", "recv", "kill"}, id : Nat, stk : Stacks \cup {Life!NONE}]
      /\ r.id = born[p] /\ r.stk = stkbase[p]
      /\ (s = "PRCURR" /\ r.at = "user") \/ (s = "PRRECV" /\ r.at = "recv")
  <2>1. CASE Life!Start(p)
    <3>1. regs[p] = born[p] /\ regs[p] \in Nat /\ stkbase[p] \in Stacks \cup {Life!NONE}
      BY Zenon, <1>2, <1>3, <2>1 DEF Life!Start, SlotInv, SlotOK, LifeType
    <3>2. s = "PRCURR" /\ r = [at |-> "user", id |-> regs[p], stk |-> stkbase[p]]
      BY Zenon, <2>1
    <3> HIDE DEF s, r
    <3> QED  BY Zenon, <3>1, <3>2
  <2>2. CASE ~Life!Start(p)
    <3>1. /\ run[p] \in [at : {"gone", "user", "recv", "kill"}, id : Nat, stk : Stacks \cup {Life!NONE}]
          /\ run[p].id = born[p] /\ run[p].stk = stkbase[p]
      BY Zenon, <1>2, <2>2 DEF Life!Receive, SlotInv, SlotOK, LifeType
    <3> QED  BY Zenon, <2>2, <3>1
  <2> QED  BY Zenon, <2>1, <2>2
<1> HIDE DEF r, s
<1>7. /\ state'[p] = s /\ run'[p] = r
      /\ \A q \in Life!Slot : q # p => state'[q] = state[q] /\ run'[q] = run[q]
  BY Zenon, <1>2, <1>4 DEF LifeType
<1>8. LifeType'
  <2>1. s \in {"PRFREE", "PRSUSP", "PRCURR", "PRRECV"}
    BY Zenon, <1>6
  <2> QED  BY Zenon, <1>1, <1>2, <1>4, <1>6, <2>1 DEF LifeType
<1>9. SlotInv'
  <2> SUFFICES ASSUME NEW q \in Life!Slot
               PROVE  SlotOK(q)'
    BY Zenon DEF SlotInv
  <2>1. CASE q # p
    BY ZenonT(40), <1>1, <1>2, <1>7, <2>1 DEF SlotInv, SlotOK
  <2>2. CASE q = p
    <3>1. /\ run'[q].id = born'[q] /\ run'[q].stk = stkbase'[q]
          /\ (state'[q] = "PRCURR" /\ run'[q].at = "user") \/ (state'[q] = "PRRECV" /\ run'[q].at = "recv")
      BY Zenon, <1>1, <1>6, <1>7, <2>2
    <3> QED  BY Zenon, <3>1 DEF SlotOK
  <2> QED  BY Zenon, <2>1, <2>2
<1>10. DyingInv'
  BY Zenon, <1>1 DEF DyingInv
<1>11. CreatorInv'
  <2> SUFFICES ASSUME NEW c \in Creators
               PROVE  CreatorOK(c)'
    BY Zenon DEF CreatorInv
  <2>1. \A q \in Life!Slot : q # p => state'[q] = state[q]
    BY Zenon, <1>7
  <2>2. CreatorOK(c) /\ pid[c] # p /\ (lpc[c] = "return" => nextpid # p) /\ nextpid \in Life!Slot
    BY Zenon, <1>2, <1>3, <1>5 DEF CreatorInv, CreatorOK, LifeType
  <2>3. lpc[c] \in {"susp", "pcb", "kill"} => pid[c] \in Life!Slot
    BY Zenon, <2>2 DEF CreatorOK
  <2>4. (lpc[c] = "pcb" => pid[c] \in Life!Slot) /\ (lpc[c] = "kill" => pid[c] \in Life!Slot)
    BY Zenon, <2>3
  <2> QED  BY Zenon, <1>1, <2>1, <2>2, <2>3, <2>4 DEF CreatorOK
<1>12. Holders' = Holders /\ Making' = Making
  <2>1. state'[p] # "PRFREE" /\ run'[p].at # "kill" /\ run[p].at # "kill"
    BY Zenon, <1>5, <1>6, <1>7
  <2>2. \A q \in Life!Slot : (state'[q] # "PRFREE" /\ run'[q].at # "kill") <=> (state[q] # "PRFREE" /\ run[q].at # "kill")
    BY Zenon, <1>5, <1>7, <2>1
  <2> QED  BY Zenon, <1>1, <2>2 DEF Holders, Making
<1>13. StackInv' /\ CountInv'
  BY Zenon, <1>1, <1>12, StackStays, CountStays
<1> QED  BY Zenon, <1>8, <1>9, <1>10, <1>11, <1>13 DEF LifeInv

\* kill() of oneself counts down and frees the stack.
LEMMA ExitFreeStep ==
  ASSUME Life!LifecycleAssumption, Life!Alone, LifeInv, dying = {}, NEW p \in Life!Slot, Life!ExitFree(p)
  PROVE  LifeInv'
<1>1. /\ run[p].at = "user" /\ numproc' = numproc - 1 /\ free' = free \cup {stkbase[p]}
      /\ run' = [run EXCEPT ![p].at = "kill"]
      /\ UNCHANGED <<state, stkbase, regs, nextpid, lpc, pid, saddr, tries, serial, born, dying, lost>>
  BY Zenon DEF Life!ExitFree
<1>2. LifeType /\ SlotInv /\ CreatorInv /\ StackInv /\ CountInv
  BY Zenon DEF LifeInv
<1>3. state[p] = "PRCURR"
  BY Zenon, <1>1, <1>2 DEF SlotInv, SlotOK, LifeType
<1>4. ASSUME NEW c \in Creators
      PROVE  pid[c] # p
  <2> SUFFICES ASSUME pid[c] = p
               PROVE  FALSE
    OBVIOUS
  <2>1. /\ lpc[c] \in {"idle", "increment", "test", "return", "check", "susp", "pcb", "kill"}
        /\ CreatorOK(c) /\ p # Life!NONE
    BY Zenon, <1>2, NoneIsNone DEF LifeType, CreatorInv
  <2> QED  BY Zenon, <1>3, <2>1 DEF CreatorOK
<1>5. /\ run' \in [Life!Slot -> [at : {"gone", "user", "recv", "kill"}, id : Nat, stk : Stacks \cup {Life!NONE}]]
      /\ run'[p].at = "kill" /\ run'[p].id = run[p].id /\ run'[p].stk = run[p].stk
      /\ \A q \in Life!Slot : q # p => run'[q] = run[q]
  BY Zenon, <1>1, <1>2 DEF LifeType
<1>6. p \in Holders
  BY Zenon, <1>1, <1>3, <1>4 DEF Holders
<1>7. stkbase[p] \in Stacks
  BY Zenon, <1>2, <1>6 DEF StackInv, StackOK
<1>8. LifeType'
  <2>1. numproc' \in Int
    BY <1>1, <1>2 DEF LifeType
  <2>2. free' \subseteq Stacks
    BY Zenon, <1>1, <1>2, <1>7 DEF LifeType
  <2> QED  BY Zenon, <1>1, <1>2, <1>5, <2>1, <2>2 DEF LifeType
<1>9. SlotInv'
  <2> SUFFICES ASSUME NEW q \in Life!Slot
               PROVE  SlotOK(q)'
    BY Zenon DEF SlotInv
  <2>1. CASE q # p
    BY ZenonT(40), <1>1, <1>2, <1>5, <2>1 DEF SlotInv, SlotOK
  <2>2. CASE q = p
    <3>1. run[p].id = born[p] /\ run[p].stk = stkbase[p]
      BY Zenon, <1>1, <1>2 DEF SlotInv, SlotOK
    <3> QED  BY Zenon, <1>1, <1>3, <1>5, <2>2, <3>1 DEF SlotOK
  <2> QED  BY Zenon, <2>1, <2>2
<1>10. DyingInv' /\ CreatorInv'
  BY Zenon, <1>1, <1>2 DEF DyingInv, CreatorInv, CreatorOK
<1>11. Holders' = Holders \ {p} /\ Making' = Making
  <2>1. Making' = Making
    BY Zenon, <1>1 DEF Making
  <2> QED  BY ZenonT(40), <1>1, <1>5, <2>1 DEF Holders
<1>12. StackInv'
  <2>1. StackOK(Holders \ {p}, stkbase, free \cup {stkbase[p]}, lost, saddr)
    BY Zenon, <1>2, <1>6, StackFreed DEF StackInv
  <2> QED  BY Zenon, <1>1, <1>11, <2>1 DEF StackInv
<1>13. CountInv'
  <2>1. p \notin Making
    BY Zenon, <1>4 DEF Making
  <2>2. Holders' \cup Making' = (Holders \cup Making) \ {p} /\ p \in Holders \cup Making
    BY Zenon, <1>6, <1>11, <2>1
  <2> DEFINE C == Holders \cup Making
  <2>3. IsFiniteSet(C) /\ numproc = Cardinality(C)
    BY Zenon, <1>2, HoldersFinite DEF CountInv
  <2> HIDE DEF C
  <2>4. Cardinality(C \ {p}) = Cardinality(C) - 1
    BY Zenon, <2>2, <2>3, FS_RemoveElement DEF C
  <2> QED  BY Zenon, <1>1, <2>2, <2>3, <2>4 DEF C, CountInv
<1> QED  BY Zenon, <1>8, <1>9, <1>10, <1>12, <1>13 DEF LifeInv

\* ... gives the entry back; the process is in its last resched().
LEMMA ExitStateStep ==
  ASSUME Life!LifecycleAssumption, Life!Alone, LifeInv, dying = {}, NEW p \in Life!Slot, Life!ExitState(p)
  PROVE  LifeInv'
<1>1. /\ run[p].at = "kill" /\ state' = [state EXCEPT ![p] = "PRFREE"]
      /\ run' = [run EXCEPT ![p] = Life!Gone] /\ dying' = dying \cup {<<p, run[p].id>>}
      /\ UNCHANGED <<stkbase, regs, nextpid, numproc, free, lpc, pid, saddr, tries, serial, born, lost>>
  BY Zenon DEF Life!ExitState
<1>2. LifeType /\ SlotInv /\ CreatorInv
  BY Zenon DEF LifeInv
<1>3. state[p] = "PRCURR"
  BY Zenon, <1>1, <1>2 DEF SlotInv, SlotOK, LifeType
<1>4. /\ state'[p] = "PRFREE" /\ run'[p] = Life!Gone
      /\ \A q \in Life!Slot : q # p => state'[q] = state[q] /\ run'[q] = run[q]
  BY Zenon, <1>1, <1>2 DEF LifeType
<1>5. Life!Gone \in [at : {"gone", "user", "recv", "kill"}, id : Nat, stk : Stacks \cup {Life!NONE}] /\ Life!Gone.at = "gone"
  BY Zenon DEF Life!Gone
<1>6. LifeType'
  <2>1. "PRFREE" \in {"PRFREE", "PRSUSP", "PRCURR", "PRRECV"}
    OBVIOUS
  <2>2. run[p].id \in Nat
    BY Zenon, <1>2 DEF LifeType
  <2>3. dying' \subseteq Life!Slot \X Nat
    BY <1>1, <1>2, <2>2 DEF LifeType
  <2> QED  BY Zenon, <1>1, <1>2, <1>5, <2>1, <2>3 DEF LifeType
<1>7. SlotInv'
  <2> SUFFICES ASSUME NEW q \in Life!Slot
               PROVE  SlotOK(q)'
    BY Zenon DEF SlotInv
  <2>1. CASE q # p
    <3>1. SlotOK(q) /\ state'[q] = state[q] /\ run'[q] = run[q]
      BY Zenon, <1>2, <1>4, <2>1 DEF SlotInv
    <3> QED  BY Zenon, <1>1, <3>1 DEF SlotOK
  <2>2. CASE q = p
    BY Zenon, <1>4, <1>5, <2>2 DEF SlotOK
  <2> QED  BY Zenon, <2>1, <2>2
<1>8. DyingInv'
  <2>1. \A d \in dying' : d[1] = p
    BY <1>1
  <2> QED  BY Zenon, <1>4, <2>1 DEF DyingInv
<1>9. CreatorInv'
  <2> SUFFICES ASSUME NEW c \in Creators
               PROVE  CreatorOK(c)'
    BY Zenon DEF CreatorInv
  <2>1. CreatorOK(c) /\ lpc[c] \in {"idle", "increment", "test", "return", "check", "susp", "pcb", "kill"}
    BY Zenon, <1>2 DEF CreatorInv, LifeType
  <2>2. nextpid \in Life!Slot
    BY Zenon, <1>2 DEF LifeType
  <2>3. \A q \in Life!Slot : state'[q] = state[q] \/ state'[q] = "PRFREE"
    BY Zenon, <1>4
  <2>4. \A q \in Life!Slot : state[q] \in {"PRSUSP", "PRRECV"} => state'[q] = state[q]
    BY Zenon, <1>3, <1>4
  <2> QED  BY Zenon, <1>1, <2>1, <2>2, <2>3, <2>4 DEF CreatorOK
<1>10. Holders' = Holders /\ Making' = Making
  <2>1. Making' = Making
    BY Zenon, <1>1 DEF Making
  <2> QED  BY Zenon, <1>1, <1>4, <2>1 DEF Holders
<1>11. StackInv' /\ CountInv'
  BY Zenon, <1>1, <1>10, StackStays, CountStays
<1> QED  BY Zenon, <1>6, <1>7, <1>8, <1>9, <1>11 DEF LifeInv

\* The registers of a dead process are saved in a slot that is still free.
LEMMA ExitSwitchStep ==
  ASSUME Life!LifecycleAssumption, Life!Alone, LifeInv, NEW d \in dying, Life!ExitSwitch(d)
  PROVE  LifeInv'
<1>1. /\ regs' = [regs EXCEPT ![d[1]] = d[2]] /\ dying' = dying \ {d}
      /\ UNCHANGED <<state, stkbase, nextpid, numproc, free, lpc, pid, saddr, tries, run, serial, born, lost>>
  BY Zenon DEF Life!ExitSwitch
<1>2. LifeType /\ SlotInv /\ CreatorInv /\ DyingInv
  BY Zenon DEF LifeInv
<1>3. d[1] \in Life!Slot /\ d[2] \in Nat /\ state[d[1]] = "PRFREE"
  BY Zenon, <1>2 DEF LifeType, DyingInv
<1>4. regs' \in [Life!Slot -> Nat] /\ \A q \in Life!Slot : q # d[1] => regs'[q] = regs[q]
  BY Zenon, <1>1, <1>2, <1>3 DEF LifeType
<1>5. LifeType'
  BY Zenon, <1>1, <1>2, <1>4 DEF LifeType
<1>6. \A q \in Life!Slot : state[q] = "PRSUSP" => regs'[q] = regs[q]
  BY Zenon, <1>3, <1>4
<1>7. SlotInv' /\ CreatorInv' /\ DyingInv'
  <2>1. SlotInv'
    BY Zenon, <1>1, <1>2, <1>6 DEF SlotInv, SlotOK
  <2>2. CreatorInv' /\ DyingInv'
    BY Zenon, <1>1, <1>2 DEF CreatorInv, CreatorOK, DyingInv
  <2> QED  BY Zenon, <2>1, <2>2
<1>8. Holders' = Holders /\ Making' = Making
  BY Zenon, <1>1 DEF Holders, Making
<1>9. StackInv' /\ CountInv'
  BY Zenon, <1>1, <1>8, StackStays, CountStays
<1> QED  BY Zenon, <1>5, <1>7, <1>9 DEF LifeInv

\* kill() of a waiting process counts down and frees the stack.
LEMMA KillFreeStep ==
  ASSUME Life!LifecycleAssumption, Life!Alone, LifeInv, dying = {}, NEW c \in Creators, NEW p \in Life!Slot, Life!KillFree(c, p)
  PROVE  LifeInv'
<1>1. /\ lpc[c] = "idle" /\ state[p] \in VICTIMS /\ numproc' = numproc - 1
      /\ free' = free \cup {stkbase[p]}
      /\ lpc' = [lpc EXCEPT ![c] = "kill"] /\ pid' = [pid EXCEPT ![c] = p]
      /\ UNCHANGED <<state, stkbase, regs, nextpid, saddr, tries, run, serial, born, dying, lost>>
  BY Zenon DEF Life!KillFree
<1>2. LifeType /\ SlotInv /\ CreatorInv /\ StackInv /\ CountInv /\ \A d \in Creators : d = c
  BY Zenon DEF LifeInv, Life!Alone
<1>3. state[p] = "PRRECV" /\ run[p].at = "recv"
  <2>1. state[p] = "PRRECV"
    BY Zenon, <1>1 DEF Life!Alone
  <2> QED  BY Zenon, <1>2, <2>1 DEF SlotInv, SlotOK
<1>4. pid[c] = Life!NONE /\ saddr[c] = Life!NONE
  BY Zenon, <1>1, <1>2 DEF CreatorInv, CreatorOK
<1>5. \A d \in Creators : pid'[d] = p /\ lpc'[d] = "kill" /\ saddr'[d] = Life!NONE /\ pid[d] = Life!NONE /\ lpc[d] = "idle"
  BY Zenon, <1>1, <1>2, <1>4 DEF LifeType
<1>6. p \in Holders
  <2>1. state[p] # "PRFREE" /\ run[p].at # "kill"
    BY Zenon, <1>3
  <2> QED  BY Zenon, <1>5, <2>1, NoneIsNone DEF Holders
<1>7. stkbase[p] \in Stacks
  BY Zenon, <1>2, <1>6 DEF StackInv, StackOK
<1>8. LifeType'
  <2>1. numproc' \in Int
    BY <1>1, <1>2 DEF LifeType
  <2>2. free' \subseteq Stacks /\ pid' \in [Creators -> Life!Slot \cup {Life!NONE}]
    BY Zenon, <1>1, <1>2, <1>7 DEF LifeType
  <2>3. lpc' \in [Creators -> {"idle", "increment", "test", "return", "check", "susp", "pcb", "kill"}]
    BY Zenon, <1>1, <1>2 DEF LifeType
  <2> QED  BY Zenon, <1>1, <1>2, <2>1, <2>2, <2>3 DEF LifeType
<1>9. SlotInv'
  <2>1. \A q \in Life!Slot : \A d \in Creators : pid[d] # q
    BY Zenon, <1>5, NoneIsNone
  <2> QED  BY Zenon, <1>1, <1>2, <2>1 DEF SlotInv, SlotOK
<1>10. DyingInv'
  BY Zenon, <1>1 DEF DyingInv
<1>11. CreatorInv'
  <2>1. \A d \in Creators : pid'[d] \in Life!Slot /\ state'[pid'[d]] = "PRRECV"
    BY Zenon, <1>1, <1>3, <1>5
  <2> QED  BY Zenon, <1>5, <2>1 DEF CreatorInv, CreatorOK
<1>12. Holders' = Holders \ {p} /\ Making' = {} /\ Making = {}
  <2>1. Making' = {} /\ Making = {}
    BY Zenon, <1>5 DEF Making
  <2>2. \A q \in Life!Slot : (\A d \in Creators : pid[d] # q) /\ ((\A d \in Creators : pid'[d] # q) <=> q # p)
    BY Zenon, <1>5, NoneIsNone
  <2> QED  BY Zenon, <1>1, <2>1, <2>2 DEF Holders
<1>13. StackInv'
  <2>1. StackOK(Holders \ {p}, stkbase, free \cup {stkbase[p]}, lost, saddr)
    BY Zenon, <1>2, <1>6, StackFreed DEF StackInv
  <2> QED  BY Zenon, <1>1, <1>12, <2>1 DEF StackInv
<1>14. CountInv'
  <2>1. Holders \cup Making = Holders /\ Holders' \cup Making' = Holders \ {p}
    BY Zenon, <1>12
  <2>2. IsFiniteSet(Holders) /\ numproc = Cardinality(Holders)
    BY Zenon, <1>2, <2>1, HoldersFinite DEF CountInv
  <2>3. Cardinality(Holders \ {p}) = Cardinality(Holders) - 1
    BY Zenon, <1>6, <2>2, FS_RemoveElement
  <2> QED  BY Zenon, <1>1, <2>1, <2>2, <2>3 DEF CountInv
<1> QED  BY Zenon, <1>8, <1>9, <1>10, <1>11, <1>13, <1>14 DEF LifeInv

\* ... and gives its entry back: it is the same process still, since it waits.
LEMMA KillStateStep ==
  ASSUME Life!LifecycleAssumption, Life!Alone, LifeInv, dying = {}, NEW c \in Creators, Life!KillState(c)
  PROVE  LifeInv'
<1> DEFINE p == pid[c]
<1>1. /\ lpc[c] = "kill" /\ state' = [state EXCEPT ![p] = "PRFREE"] /\ run' = [run EXCEPT ![p] = Life!Gone]
      /\ pid' = [pid EXCEPT ![c] = Life!NONE] /\ saddr' = [saddr EXCEPT ![c] = Life!NONE]
      /\ lpc' = [lpc EXCEPT ![c] = "idle"]
      /\ UNCHANGED <<stkbase, regs, nextpid, numproc, free, serial, born, dying, lost>>
  BY Zenon DEF Life!KillState, Life!Reset
<1>2. LifeType /\ SlotInv /\ CreatorInv /\ \A d \in Creators : d = c
  BY Zenon DEF LifeInv, Life!Alone
<1>3. p \in Life!Slot /\ saddr[c] = Life!NONE
  BY Zenon, <1>1, <1>2 DEF CreatorInv, CreatorOK
<1>4. \A d \in Creators : pid'[d] = Life!NONE /\ saddr'[d] = Life!NONE /\ lpc'[d] = "idle" /\ pid[d] = p /\ lpc[d] = "kill"
  BY Zenon, <1>1, <1>2 DEF LifeType
<1>5. /\ state'[p] = "PRFREE" /\ run'[p] = Life!Gone
      /\ \A q \in Life!Slot : q # p => state'[q] = state[q] /\ run'[q] = run[q]
  BY Zenon, <1>1, <1>2, <1>3 DEF LifeType
<1>6. Life!Gone \in [at : {"gone", "user", "recv", "kill"}, id : Nat, stk : Stacks \cup {Life!NONE}] /\ Life!Gone.at = "gone"
  BY Zenon DEF Life!Gone
<1>7. LifeType'
  <2>1. "PRFREE" \in {"PRFREE", "PRSUSP", "PRCURR", "PRRECV"}
    OBVIOUS
  <2>2. pid' \in [Creators -> Life!Slot \cup {Life!NONE}] /\ saddr' \in [Creators -> Stacks \cup {Life!NONE}]
    BY Zenon, <1>1, <1>2 DEF LifeType
  <2>3. lpc' \in [Creators -> {"idle", "increment", "test", "return", "check", "susp", "pcb", "kill"}]
    BY Zenon, <1>1, <1>2 DEF LifeType
  <2> QED  BY Zenon, <1>1, <1>2, <1>6, <2>1, <2>2, <2>3 DEF LifeType
<1>8. SlotInv'
  <2> SUFFICES ASSUME NEW q \in Life!Slot
               PROVE  SlotOK(q)'
    BY Zenon DEF SlotInv
  <2>1. CASE q # p
    <3>1. SlotOK(q) /\ state'[q] = state[q] /\ run'[q] = run[q] /\ \A d \in Creators : pid[d] # q
      BY Zenon, <1>2, <1>4, <1>5, <2>1 DEF SlotInv
    <3> QED  BY Zenon, <1>1, <3>1 DEF SlotOK
  <2>2. CASE q = p
    BY Zenon, <1>5, <1>6, <2>2 DEF SlotOK
  <2> QED  BY Zenon, <2>1, <2>2
<1>9. DyingInv'
  BY Zenon, <1>1 DEF DyingInv
<1>10. CreatorInv'
  BY Zenon, <1>4, NoneIsNone DEF CreatorInv, CreatorOK
<1>11. Holders' = Holders /\ Making' = {} /\ Making = {}
  <2>1. Making' = {} /\ Making = {}
    BY Zenon, <1>4 DEF Making
  <2>2. \A q \in Life!Slot : (\A d \in Creators : pid'[d] # q) /\ ((\A d \in Creators : pid[d] # q) <=> q # p)
    BY Zenon, <1>4, NoneIsNone
  <2>3. p \notin Holders /\ p \notin Holders'
    BY Zenon, <1>5, <2>2 DEF Holders
  <2>4. ASSUME NEW q \in Life!Slot, q # p
        PROVE  q \in Holders' <=> q \in Holders
    BY Zenon, <1>5, <2>2, <2>4 DEF Holders
  <2>5. Holders \subseteq Life!Slot /\ Holders' \subseteq Life!Slot
    BY Zenon DEF Holders
  <2>6. \A q \in Life!Slot : q \in Holders' <=> q \in Holders
    BY Zenon, <2>3, <2>4
  <2>7. Holders' = Holders
    BY Zenon, <2>5, <2>6
  <2> QED  BY Zenon, <2>1, <2>7
<1>12. UNCHANGED saddr
  BY Zenon, <1>1, <1>2, <1>3 DEF LifeType
<1>13. StackInv' /\ CountInv'
  BY Zenon, <1>1, <1>11, <1>12, StackStays, CountStays
<1> QED  BY Zenon, <1>7, <1>8, <1>9, <1>10, <1>13 DEF LifeInv

\* Initially nothing is created.
LEMMA LifeInit ==
  ASSUME Life!LifecycleAssumption, Life!Alone, Life!Init
  PROVE  LifeInv
<1>1. /\ state = [p \in Life!Slot |-> "PRFREE"] /\ stkbase = [p \in Life!Slot |-> Life!NONE]
      /\ regs = [p \in Life!Slot |-> 0] /\ nextpid = 0 /\ numproc = 0 /\ free = Stacks
      /\ lpc = [c \in Creators |-> "idle"] /\ pid = [c \in Creators |-> Life!NONE]
      /\ saddr = [c \in Creators |-> Life!NONE]
      /\ run = [p \in Life!Slot |-> Life!Gone] /\ serial = 0 /\ lost = {}
      /\ born = [p \in Life!Slot |-> 0] /\ dying = {}
  BY Zenon DEF Life!Init
<1>2. Life!Gone \in [at : {"gone", "user", "recv", "kill"}, id : Nat, stk : Stacks \cup {Life!NONE}] /\ Life!Gone.at = "gone"
  BY Zenon DEF Life!Gone
<1>3. LifeType
  <2>1. 0 \in Life!Slot /\ 0 \in Nat /\ 0 \in Int
    BY DEF Life!Slot, Life!LifecycleAssumption
  <2>2. state \in [Life!Slot -> {"PRFREE", "PRSUSP", "PRCURR", "PRRECV"}]
    BY Zenon, <1>1
  <2>3. lpc \in [Creators -> {"idle", "increment", "test", "return", "check", "susp", "pcb", "kill"}]
    BY Zenon, <1>1
  <2> QED  BY Zenon, <1>1, <1>2, <2>1, <2>2, <2>3 DEF LifeType
<1>4. SlotInv
  BY Zenon, <1>1, <1>2 DEF SlotInv, SlotOK
<1>5. CreatorInv
  BY Zenon, <1>1, NoneIsNone DEF CreatorInv, CreatorOK
<1>6. Holders = {} /\ Making = {}
  BY Zenon, <1>1 DEF Holders, Making
<1>7. StackInv
  BY Zenon, <1>1, <1>6 DEF StackInv, StackOK
<1>8. CountInv
  BY Zenon, <1>1, <1>6, FS_EmptySet DEF CountInv
<1>9. DyingInv
  BY Zenon, <1>1 DEF DyingInv
<1> QED  BY Zenon, <1>3, <1>4, <1>5, <1>7, <1>8, <1>9 DEF LifeInv

\* Every step keeps the invariant.
LEMMA LifeStep ==
  ASSUME Life!LifecycleAssumption, Life!Alone, LifeInv, [Life!Next]_Life!vars
  PROVE  LifeInv'
<1>1. CASE \E d \in dying : Life!ExitSwitch(d)
  BY Zenon, <1>1, ExitSwitchStep
<1>2. CASE UNCHANGED Life!vars
  <2>1. UNCHANGED <<state, stkbase, regs, nextpid, numproc, free, lpc, pid, saddr, run, serial, born, dying, lost>>
    BY Zenon, <1>2 DEF Life!vars
  <2>2. Holders' = Holders /\ Making' = Making
    BY Zenon, <2>1 DEF Holders, Making
  <2>3. StackInv' /\ CountInv'
    BY Zenon, <2>1, <2>2, StackStays, CountStays
  <2>4. LifeType' /\ DyingInv'
    BY Zenon, <2>1 DEF LifeInv, LifeType, DyingInv
  <2>5. SlotInv'
    BY Zenon, <2>1 DEF LifeInv, SlotInv, SlotOK
  <2>6. CreatorInv'
    BY Zenon, <2>1 DEF LifeInv, CreatorInv, CreatorOK
  <2> QED  BY Zenon, <2>3, <2>4, <2>5, <2>6 DEF LifeInv
<1>3. CASE dying = {} /\ \E c \in Creators : Life!create(c) \/ Life!kill(c)
  BY Zenon, <1>3, GetmemStep, NewpidStep, ReturnStep, CheckStep, SuspStep, PcbStep, KillFreeStep, KillStateStep
     DEF Life!create, Life!kill
<1>4. CASE dying = {} /\ \E p \in Life!Slot : Life!Start(p) \/ Life!Receive(p) \/ Life!userret(p)
  BY Zenon, <1>4, FirstStep, ExitFreeStep, ExitStateStep DEF Life!userret
<1> QED  BY Zenon, <1>1, <1>2, <1>3, <1>4 DEF Life!Next, Life!Undisturbed, Life!Alone

\* LifeInv is an invariant.
LEMMA LifeInvariant ==
  ASSUME Life!LifecycleAssumption, Life!Alone
  PROVE  Life!Spec => []LifeInv
<1>1. Life!Init => LifeInv
  BY Zenon, LifeInit
<1>2. LifeInv /\ [Life!Next]_Life!vars => LifeInv'
  BY Zenon, LifeStep
<1> QED  BY <1>1, <1>2, PTL DEF Life!Spec

\* A process that has its code and its own context, and one that create() has
\* finished, has its stack.
LEMMA OwnersHold ==
  ASSUME Life!LifecycleAssumption, LifeInv, NEW p \in Life!Slot,
         run[p].at = "user" \/ (state[p] = "PRSUSP" /\ \A c \in Creators : pid[c] # p)
  PROVE  p \in Holders
<1>1. LifeType /\ SlotInv /\ CreatorInv
  BY Zenon DEF LifeInv
<1>2. CASE run[p].at = "user"
  <2>1. state[p] = "PRCURR"
    BY Zenon, <1>1, <1>2 DEF SlotInv, SlotOK, LifeType
  <2>2. ASSUME NEW c \in Creators
        PROVE  pid[c] # p
    <3> SUFFICES ASSUME pid[c] = p
                 PROVE  FALSE
      OBVIOUS
    <3>1. /\ lpc[c] \in {"idle", "increment", "test", "return", "check", "susp", "pcb", "kill"}
          /\ CreatorOK(c) /\ p # Life!NONE
      BY Zenon, <1>1, NoneIsNone DEF LifeType, CreatorInv
    <3> QED  BY Zenon, <2>1, <3>1 DEF CreatorOK
  <2> QED  BY Zenon, <1>2, <2>1, <2>2 DEF Holders
<1>3. CASE state[p] = "PRSUSP" /\ \A c \in Creators : pid[c] # p
  <2>1. run[p].at = "gone"
    BY Zenon, <1>1, <1>3 DEF SlotInv, SlotOK
  <2> QED  BY Zenon, <1>3, <2>1 DEF Holders
<1> QED  BY Zenon, <1>2, <1>3

\* With one creator on one core, newpid() returns a free process id, which stays
\* free until create() marks it used, and the code that runs in a slot is that
\* of the process last created there, for any number of slots and stacks and
\* wherever create(), kill() and exits are preempted.
THEOREM StartsOwnContextHolds ==
  ASSUME Life!LifecycleAssumption, Life!Alone
  PROVE  Life!Spec => [](Life!StartsOwnContext /\ Life!FreeProcessId)
<1>1. LifeInv => Life!StartsOwnContext /\ Life!FreeProcessId
  <2> SUFFICES ASSUME LifeInv
               PROVE  Life!StartsOwnContext /\ Life!FreeProcessId
    OBVIOUS
  <2>1. Life!StartsOwnContext
    BY Zenon DEF LifeInv, SlotInv, SlotOK, Life!StartsOwnContext
  <2>2. ASSUME NEW c \in Creators, lpc[c] \in {"check", "susp"}, pid[c] # Life!NONE
        PROVE  state[pid[c]] = "PRFREE"
    BY Zenon, <2>2 DEF LifeInv, LifeType, CreatorInv, CreatorOK
  <2> QED  BY Zenon, <2>1, <2>2 DEF Life!FreeProcessId, Life!Alone
<1> QED  BY <1>1, LifeInvariant, PTL

\* With one creator on one core, the stack of a process is its own and not free,
\* and whenever no call is under way numproc counts the processes and every
\* stack is free, with one process, or lost, and only one of these.
THEOREM StacksExactHolds ==
  ASSUME Life!LifecycleAssumption, Life!Alone
  PROVE  Life!Spec => []Life!StacksExact
<1>1. ASSUME LifeInv
      PROVE  Life!StackExclusive
  <2> SUFFICES ASSUME NEW p \in Life!Slot,
                      run[p].at = "user" \/ (state[p] = "PRSUSP" /\ \A c \in Creators : pid[c] # p)
               PROVE  /\ stkbase[p] \notin free
                      /\ \A c \in Creators : saddr[c] # stkbase[p]
                      /\ \A q \in Life!Slot \ {p} : run[q].at = "user" => run[q].stk # stkbase[p]
    BY Zenon DEF Life!StackExclusive
  <2>1. StackOK(Holders, stkbase, free, lost, saddr) /\ SlotInv
    BY Zenon, <1>1 DEF LifeInv, StackInv
  <2>2. p \in Holders
    BY Zenon, <1>1, OwnersHold
  <2>3. ASSUME NEW q \in Life!Slot \ {p}, run[q].at = "user"
        PROVE  run[q].stk # stkbase[p]
    <3>1. q \in Holders
      BY Zenon, <1>1, <2>3, OwnersHold
    <3>2. run[q].stk = stkbase[q]
      BY Zenon, <2>1, <2>3 DEF SlotInv, SlotOK
    <3> QED  BY Zenon, <2>1, <2>2, <3>1, <3>2 DEF StackOK
  <2> QED  BY Zenon, <2>1, <2>2, <2>3 DEF StackOK
<1>2. ASSUME LifeInv
      PROVE  Life!CountsSettle
  <2> SUFFICES ASSUME \A c \in Creators : lpc[c] = "idle",
                      \A p \in Life!Slot : run[p].at \in {"gone", "user", "recv"}
               PROVE  /\ numproc = Cardinality(Life!Live) /\ Cardinality(Life!Owned) = Cardinality(Life!Live)
                      /\ free \cup Life!Owned \cup lost = Stacks
                      /\ free \cap (Life!Owned \cup lost) = {} /\ Life!Owned \cap lost = {}
    <3>1. \A S : Life!Cardinality(S) = Cardinality(S)
      BY DEF Cardinality, Life!Cardinality
    <3> QED  BY Zenon, <3>1 DEF Life!CountsSettle
  <2>1. LifeType /\ CreatorInv /\ StackInv /\ CountInv
    BY Zenon, <1>2 DEF LifeInv
  <2>2. \A c \in Creators : pid[c] = Life!NONE /\ saddr[c] = Life!NONE
    BY Zenon, <2>1 DEF CreatorInv, CreatorOK
  <2>3. Making = {}
    BY Zenon DEF Making
  <2>4. Holders = Life!Live
    <3>1. \A p \in Life!Slot : run[p].at # "kill" /\ \A c \in Creators : pid[c] # p
      BY Zenon, <2>2, NoneIsNone
    <3> QED  BY Zenon, <3>1 DEF Holders, Life!Live
  <2>5. StackOK(Life!Live, stkbase, free, lost, saddr)
    BY Zenon, <2>1, <2>4 DEF StackInv
  <2>6. numproc = Cardinality(Life!Live) /\ IsFiniteSet(Life!Live)
    <3>1. Holders \cup Making = Life!Live
      BY Zenon, <2>3, <2>4
    <3> QED  BY Zenon, <2>1, <3>1, HoldersFinite DEF CountInv
  <2>7. Cardinality(Life!Owned) = Cardinality(Life!Live)
    <3> DEFINE f == [p \in Life!Live |-> stkbase[p]]
    <3>1. f \in [Life!Live -> Life!Owned] /\ \A p \in Life!Live : f[p] = stkbase[p]
      BY Zenon DEF Life!Owned
    <3>2. \A p, q \in Life!Live : f[p] = f[q] => p = q
      BY Zenon, <2>5, <3>1 DEF StackOK
    <3>3. \A x \in Life!Owned : \E p \in Life!Live : f[p] = x
      BY Zenon, <3>1 DEF Life!Owned
    <3> HIDE DEF f
    <3>4. f \in Bijection(Life!Live, Life!Owned)
      BY Zenon, <3>1, <3>2, <3>3 DEF Bijection, Injection, IsInjective, Surjection
    <3> QED  BY Zenon, <2>6, <3>4, FS_Bijection DEF ExistsBijection
  <2>8. free \cup Life!Owned \cup lost = Stacks
    <3>1. Life!Owned \subseteq Stacks /\ free \subseteq Stacks /\ lost \subseteq Stacks
      <4>1. \A p \in Life!Live : stkbase[p] \in Stacks
        BY Zenon, <2>5 DEF StackOK
      <4>2. free \subseteq Stacks /\ lost \subseteq Stacks
        BY Zenon, <2>1 DEF LifeType
      <4> QED  BY Zenon, <4>1, <4>2 DEF Life!Owned
    <3>2. \A x \in Stacks : x \in free \/ x \in lost \/ x \in Life!Owned
      <4> SUFFICES ASSUME NEW x \in Stacks PROVE x \in free \/ x \in lost \/ x \in Life!Owned
        BY Zenon
      <4>1. x # Life!NONE
        BY Zenon, NoneIsNone
      <4>2. \A c \in Creators : saddr[c] # x
        BY Zenon, <2>2, <4>1
      <4>3. \/ x \in free \/ x \in lost \/ \E c \in Creators : saddr[c] = x
            \/ \E p \in Life!Live : stkbase[p] = x
        BY Zenon, <2>5 DEF StackOK
      <4> QED  BY Zenon, <4>2, <4>3 DEF Life!Owned
    <3> QED  BY Zenon, <3>1, <3>2
  <2>9. free \cap (Life!Owned \cup lost) = {} /\ Life!Owned \cap lost = {}
    <3>1. /\ \A p \in Life!Live : stkbase[p] \notin free /\ stkbase[p] \notin lost
          /\ \A x \in free : x \notin lost
      BY Zenon, <2>5 DEF StackOK
    <3>2. \A x \in Life!Owned : x \notin free /\ x \notin lost
      BY Zenon, <3>1 DEF Life!Owned
    <3> QED  BY Zenon, <3>1, <3>2
  <2> QED  BY Zenon, <2>6, <2>7, <2>8, <2>9
<1>3. LifeInv => Life!StacksExact
  BY Zenon, <1>1, <1>2 DEF Life!StacksExact
<1> QED  BY <1>3, LifeInvariant, PTL
=============================================================================
