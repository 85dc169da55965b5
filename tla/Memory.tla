------------------------------- MODULE Memory -------------------------------
(***************************************************************************)
(* The heap: getmem() and freemem() on one free list per core, malloc()    *)
(* and free() on top of them.                                              *)
(*                                                                         *)
(* A free list is the sequence of its blocks from head on.  The functions  *)
(* run with interrupts disabled inside memlock of the list, so a call is   *)
(* one step.  Sizes and addresses are ulongs: arithmetic is modulo WORD.   *)
(*                                                                         *)
(* used stands for the callers: the blocks they were given and the size    *)
(* they asked for.  They free a block with that size, as kill() does.      *)
(***************************************************************************)
EXTENDS Integers, Sequences, FiniteSets

CONSTANTS NCORES,
          ALIGN,    \* roundmb() rounds up to a multiple of it (8)
          WORD,     \* number of ulong values (2^32)
          HEADER,   \* sizeof(struct memblock) (12)
          memheap,  \* first address of the heap
          maxaddr,  \* platform.maxaddr
          Request   \* sizes that callers ask for

SYSERR == -1
OK == 1
NULL == 0
ulong == 0 .. WORD - 1

ASSUME MemoryAssumption ==
  /\ NCORES \in Nat \ {0} /\ ALIGN \in Nat \ {0} /\ WORD \in Nat \ {0}
  /\ WORD % ALIGN = 0
  /\ HEADER \in Nat
  /\ memheap \in ulong \ {NULL} /\ maxaddr \in ulong /\ memheap <= maxaddr
  /\ memheap % ALIGN = 0
  /\ Request \subseteq ulong

Core == 0 .. NCORES - 1

VARIABLES freelist,  \* freelist[n]: the blocks of list n, from head on
          length,    \* freelist[n].length
          used,      \* blocks that callers hold: [addr, size]
          call       \* the last call and its result

vars == <<freelist, length, used, call>>

-----------------------------------------------------------------------------
Plus(x, y) == (x + y) % WORD

truncmb(x) == (x \div ALIGN) * ALIGN
roundmb(x) == truncmb(Plus(x, ALIGN - 1))

\* sysinit(): every core gets an equal share.
bound == truncmb((truncmb(maxaddr) - memheap) \div NCORES)
base(n) == roundmb(memheap + bound * n)

Init ==
  /\ freelist = [n \in Core |-> <<[addr |-> base(n), len |-> bound]>>]
  /\ length = [n \in Core |-> bound]
  /\ used = {}
  /\ call = <<>>

-----------------------------------------------------------------------------
Min(S) == CHOOSE x \in S : \A y \in S : x <= y

RemoveAt(list, i) == SubSeq(list, 1, i - 1) \o SubSeq(list, i + 1, Len(list))
InsertAt(list, i, b) == SubSeq(list, 1, i - 1) \o <<b>> \o SubSeq(list, i, Len(list))

(* getmem() *)

\* The blocks that are large enough; the walk stops at the first.
Fits(list, n) == {i \in DOMAIN list : list[i].len >= n}

\* Unlink the block, or leave its upper part in the list.
Carve(list, i, n) ==
  IF list[i].len = n THEN RemoveAt(list, i)
  ELSE [list EXCEPT ![i] = [addr |-> Plus(list[i].addr, n), len |-> list[i].len - n]]

\* Called on core c.
getmem(c, nbytes) ==
  LET n == roundmb(nbytes)
      i == Min(Fits(freelist[c], n))
  IN  IF nbytes = 0 \/ Fits(freelist[c], n) = {}
        THEN /\ call' = <<"get", c, nbytes, SYSERR>>
             /\ UNCHANGED <<freelist, length, used>>
        ELSE /\ freelist' = [freelist EXCEPT ![c] = Carve(@, i, n)]
             /\ length' = [length EXCEPT ![c] = @ - n]
             /\ used' = used \cup {[addr |-> freelist[c][i].addr, size |-> nbytes]}
             /\ call' = <<"get", c, nbytes, freelist[c][i].addr>>

-----------------------------------------------------------------------------
(* freemem() *)

\* The place where the walk stops: the first block not below the freed one.
Place(list, block) ==
  Min({i \in DOMAIN list : list[i].addr >= block} \cup {Len(list) + 1})

\* End of the block before place i, or NULL.
Top(list, i) == IF i = 1 THEN NULL ELSE Plus(list[i - 1].addr, list[i - 1].len)

\* Mutant: only the next block is looked at.
OverlapsNext(list, i, block, n) == i <= Len(list) /\ Plus(block, n) > list[i].addr

Overlaps(list, i, block, n) ==
  \/ Top(list, i) > block
  \/ i <= Len(list) /\ Plus(block, n) > list[i].addr

\* Join block j with the one after it if they are adjacent.
JoinNext(list, j) ==
  IF j < Len(list) /\ Plus(list[j].addr, list[j].len) = list[j + 1].addr
    THEN RemoveAt([list EXCEPT ![j].len = Plus(@, list[j + 1].len)], j + 1)
    ELSE list

\* Mutant: adjacent blocks stay apart.
InsertedApart(list, i, block, n) == InsertAt(list, i, [addr |-> block, len |-> n])

Inserted(list, i, block, n) ==
  IF Top(list, i) = block
    THEN JoinNext([list EXCEPT ![i - 1].len = Plus(@, n)], i - 1)
    ELSE JoinNext(InsertAt(list, i, [addr |-> block, len |-> n]), i)

\* The list whose region holds the address; NCORES if there is none.
ListOf(addr) ==
  Min({n \in Core : addr >= base(n) /\ addr < base(n) + bound} \cup {NCORES})

\* held: what the caller gives up.
freemem(addr, nbytes, held) ==
  LET l == ListOf(addr)
      n == roundmb(nbytes)
      i == Place(freelist[l], addr)
  IN  IF nbytes = 0 \/ addr < memheap \/ addr > maxaddr \/ Overlaps(freelist[l], i, addr, n)
        THEN /\ call' = <<"free", addr, nbytes, SYSERR>>
             /\ UNCHANGED <<freelist, length, used>>
        ELSE /\ freelist' = [freelist EXCEPT ![l] = Inserted(@, i, addr, n)]
             /\ length' = [length EXCEPT ![l] = Plus(@, n)]
             /\ used' = used \ held
             /\ call' = <<"free", addr, nbytes, OK>>

FreeUsed(b) == freemem(b.addr, b.size, {b})

\* A stretch of memory that is free already is freed (a second time).
FreeAgain(l, i, addr, nbytes) ==
  /\ addr % ALIGN = 0
  /\ addr + nbytes <= freelist[l][i].addr + freelist[l][i].len
  /\ freemem(addr, nbytes, {})

-----------------------------------------------------------------------------
\* malloc(): the size grows by the header, in which it is recorded.  free()
\* finds it there (block->next = block), so both are getmem() and freemem()
\* of size + HEADER; malloc(0) is refused before the addition.
malloc(c, size) == size # 0 /\ getmem(c, Plus(size, HEADER))

Next ==
  \/ \E c \in Core, n \in Request : getmem(c, n) \/ malloc(c, n)
  \/ \E b \in used : FreeUsed(b)
  \/ \E l \in Core : \E i \in DOMAIN freelist[l] :
       \E addr \in freelist[l][i].addr .. freelist[l][i].addr + freelist[l][i].len - 1 :
         \E n \in Request : FreeAgain(l, i, addr, n)

Spec == Init /\ [][Next]_vars

-----------------------------------------------------------------------------
(* Properties *)

Block == [addr : ulong, len : ulong]

TypeOK ==
  /\ freelist \in [Core -> Seq(Block)]
  /\ length \in [Core -> ulong]
  /\ used \subseteq [addr : ulong, size : ulong]

Region(n) == base(n) .. base(n) + bound - 1
FreeBytes(n) ==
  UNION {freelist[n][i].addr .. freelist[n][i].addr + freelist[n][i].len - 1 :
           i \in DOMAIN freelist[n]}
UsedBytes(b) == b.addr .. b.addr + b.size - 1

\* Every free list is sorted by address, its blocks are aligned, nonempty,
\* inside the region of the core, and no two of them touch: freemem() has
\* joined neighbours, and its walk and its overlap test rely on the order.
ListWellFormed ==
  \A n \in Core : \A i \in DOMAIN freelist[n] :
    LET b == freelist[n][i] IN
    /\ b.addr % ALIGN = 0 /\ b.len % ALIGN = 0 /\ b.len > 0
    /\ b.addr .. b.addr + b.len - 1 \subseteq Region(n)
    /\ i < Len(freelist[n]) => b.addr + b.len < freelist[n][i + 1].addr

\* The caller of getmem() has its block to itself: all the bytes it asked
\* for are in the heap, in no other caller's block and in no free block.
NoOverlap ==
  \A b \in used :
    /\ \E n \in Core : UsedBytes(b) \subseteq Region(n) \ FreeBytes(n)
    /\ \A d \in used : b # d => UsedBytes(b) \cap UsedBytes(d) = {}

\* No memory is lost or counted twice: the length field of a list is the
\* number of bytes in its blocks, which with the blocks in use, rounded up,
\* fill the region.
NothingLost ==
  \A n \in Core :
    /\ length[n] = Cardinality(FreeBytes(n))
    /\ Region(n) = FreeBytes(n) \cup
         UNION {b.addr .. b.addr + roundmb(b.size) - 1 : b \in {d \in used : ListOf(d.addr) = n}}

\* Free blocks and blocks in use divide the region of every core between
\* them after any sequence of getmem() and freemem(), and the free lists
\* keep the order their walks rely on.
HeapDivided == TypeOK /\ ListWellFormed /\ NoOverlap /\ NothingLost

\* Sizes that reach getmem()
Asked == Request \cup {Plus(n, HEADER) : n \in Request \ {0}}

Heap == INSTANCE AllocSpec WITH Size <- Asked, Need <- roundmb, owned <- used

\* First fit with joining of neighbours implements the abstract heap: a
\* request fails only if the core's region has no free stretch for it, a
\* block that was handed out can be freed, and a second free of the same
\* memory has no effect.
ImplementsHeap == Heap!Spec
=============================================================================
