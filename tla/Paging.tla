------------------------------- MODULE Paging -------------------------------
(***************************************************************************)
(* The RISC-V page allocator (safeInit.c) and three-level page tables      *)
(* (safeKmapInit.c).                                                       *)
(*                                                                         *)
(* An address is a natural number and a page has PAGE bytes; a table has   *)
(* FAN entries.  The memory of a page is the entry of each index: Null, or *)
(* <<physical page, attribute>> with attribute "link" for a pointer to the *)
(* next level and "next" for the word that chains free pages, whose valid  *)
(* bit is clear.                                                           *)
(***************************************************************************)
EXTENDS Integers, Sequences, FiniteSets, SequencesExt

CONSTANTS PAGE, FAN,
          memheap, maxaddr,   \* the heap, in bytes
          Layout,             \* addresses of the linker's symbols
          INTERRUPTADDR, UART_BASE,
          Addr, Length, Attr, \* arguments of the callers
          CALLS               \* number of calls

VARIABLES mem, pgfreelist,    \* contents of every page; first free page or Null
          roots, client,      \* pages that are top-level tables, pages handed to callers
          last,               \* the last mapping call and what it returned
          calls
vars == <<mem, pgfreelist, roots, client, last, calls>>

Null == <<>>
NONE == [root |-> -1]
roundpage(x) == PAGE * ((x + PAGE - 1) \div PAGE)
PageOf(a) == a \div PAGE
Pages == PageOf(roundpage(memheap))..PageOf(maxaddr)
Clear == [i \in 0..FAN - 1 |-> Null]
Valid(e) == e # Null /\ e[2] # "next"
PX(level, v) == (v \div FAN^level) % FAN

(* The functions below take and return the allocator's part of the state,  *)
(* [mem, free, ok].                                                        *)

(* pgfree: SYSERR for an unaligned address; the page is cleared and its    *)
(* first word points to the rest of the list                               *)
pgfree(s, addr) ==
    IF addr % PAGE # 0 THEN [s EXCEPT !.ok = FALSE]
    ELSE [s EXCEPT !.mem[PageOf(addr)] =
                       [Clear EXCEPT ![0] = IF s.free = Null THEN Null
                                            ELSE <<s.free[1], "next">>],
                   !.free = <<PageOf(addr)>>, !.ok = TRUE]

pgfreerange(s, start, end) ==
    LET first == roundpage(start)
        n == Cardinality({k \in 0..end : first + k * PAGE + PAGE < end})
    IN  IF end > maxaddr \/ start < memheap \/ end < start
        THEN [s EXCEPT !.ok = FALSE]
        ELSE FoldLeft(LAMBDA t, i : pgfree(t, first + (i - 1) * PAGE), s, [i \in 1..n |-> i])

(* Mutant: the list is advanced by two pages. *)
pgallocTwo(s) ==
    IF s.free = Null THEN [s EXCEPT !.ok = FALSE]
    ELSE LET next == s.mem[s.free[1]][0]
             next2 == IF next = Null THEN Null ELSE s.mem[next[1]][0]
         IN  [s EXCEPT !.free = IF next2 = Null THEN Null ELSE <<next2[1]>>,
                       !.mem[s.free[1]] = Clear, !.ok = TRUE]

(* pgalloc: the page it returns is the head of s.free *)
pgalloc(s) ==
    IF s.free = Null THEN [s EXCEPT !.ok = FALSE]
    ELSE LET next == s.mem[s.free[1]][0]
         IN  [s EXCEPT !.free = IF next = Null THEN Null ELSE <<next[1]>>,
                       !.mem[s.free[1]] = Clear, !.ok = TRUE]

(* one level of pgTraverseAndCreate: s.at is the table reached so far *)
Descend(s, v, level) ==
    LET pte == s.mem[s.at][PX(level, v)]
        got == pgalloc(s)
    IN  CASE ~s.ok -> s
          [] s.ok /\ Valid(pte) -> [s EXCEPT !.at = pte[1]]
          [] OTHER -> IF ~got.ok THEN got
                      ELSE [got EXCEPT !.mem[s.at][PX(level, v)] = <<s.free[1], "link">>,
                                       !.at = s.free[1]]

(* Mutant: the first level is indexed with the bits of the second. *)
TraverseWrongIndex(s, root, v) ==
    Descend(Descend([s EXCEPT !.at = root, !.ok = TRUE], v, 1), v, 1)

pgTraverseAndCreate(s, root, v) ==
    Descend(Descend([s EXCEPT !.at = root, !.ok = TRUE], v, 2), v, 1)

mapPage(s, root, page, va, attr) ==
    LET t == pgTraverseAndCreate(s, root, PageOf(va))
    IN  IF ~t.ok THEN t
        ELSE [t EXCEPT !.mem[t.at][PX(0, PageOf(va))] = <<page, attr>>]

(* mapAddress: one page after the other, stopping at the first failure *)
mapAddress(s, root, va, pa, length, attr) ==
    LET begin == [s EXCEPT !.ok = length # 0]
    IN  IF ~begin.ok THEN begin
        ELSE FoldLeft(LAMBDA t, i :
                          IF ~t.ok THEN t
                          ELSE mapPage(t, root, PageOf(pa + (i - 1) * PAGE),
                                       va + (i - 1) * PAGE, attr),
                      begin, [i \in 1..roundpage(length) \div PAGE |-> i])

(* the ranges safeKmapInit maps: virtual and physical address, end, attribute *)
KernelRanges ==
    <<<<UART_BASE, UART_BASE, UART_BASE + 1, "rw">>,
      <<Layout._start, Layout._start, Layout._ctxsws, "rx">>,
      <<INTERRUPTADDR, Layout._interrupts, INTERRUPTADDR + PAGE, "rx">>,
      <<Layout._interrupte, Layout._interrupte, Layout._datas, "rx">>,
      <<Layout._datas, Layout._datas, memheap, "rw">>,
      <<memheap, memheap, maxaddr, "rw">>>>

safeKmapInit(s) ==
    FoldLeft(LAMBDA t, g : mapAddress(t, s.at, g[1], g[2], g[3] - g[1], g[4]), s, KernelRanges)

----------------------------------------------------------------------------
State == [mem |-> mem, free |-> pgfreelist, ok |-> TRUE, at |-> -1]
Put(s) == mem' = s.mem /\ pgfreelist' = s.free

(* safeInit() *)
Init == /\ LET s == pgfreerange([mem |-> [p \in Pages |-> Clear], free |-> Null,
                                 ok |-> TRUE, at |-> -1], memheap, maxaddr)
           IN  mem = s.mem /\ pgfreelist = s.free
        /\ roots = {} /\ client = {} /\ last = NONE /\ calls = 0

Call == calls < CALLS /\ calls' = calls + 1

(* safeKmapInit(): its own pgalloc succeeds, the heap being whole *)
Kernel == /\ Call /\ roots = {} /\ client = {} /\ pgfreelist # Null
          /\ LET s == safeKmapInit([pgalloc(State) EXCEPT !.at = pgfreelist[1]])
             IN  Put(s) /\ last' = [root |-> pgfreelist[1], kernel |-> TRUE]
          /\ roots' = {pgfreelist[1]} /\ UNCHANGED client

(* pgalloc() by a caller, for a table of its own or for data *)
Alloc(table) == /\ Call /\ pgfreelist # Null
                /\ Put(pgalloc(State))
                /\ roots' = IF table THEN roots \cup {pgfreelist[1]} ELSE roots
                /\ client' = IF table THEN client ELSE client \cup {pgfreelist[1]}
                /\ last' = NONE

(* pgfree() by the owner of a page, with its address or one inside it *)
Free(p) == /\ Call /\ p \in client
           /\ \E off \in 0..PAGE - 1 :
                LET s == pgfree(State, p * PAGE + off)
                IN  Put(s) /\ client' = IF s.ok THEN client \ {p} ELSE client
           /\ last' = NONE /\ UNCHANGED roots

(* mapAddress() and mapPage() by a caller that has a table *)
Map(root) == /\ Call /\ root \in roots
             /\ \E va, pa \in Addr, n \in Length, attr \in Attr :
                  LET s == mapAddress(State, root, va, pa, n, attr)
                  IN  /\ Put(s)
                      /\ last' = [root |-> root, va |-> va, pa |-> pa, length |-> n,
                                  attr |-> attr, ok |-> s.ok]
             /\ UNCHANGED <<roots, client>>

MapPage(root) == /\ Call /\ root \in roots
                 /\ \E p \in client, va \in Addr, attr \in Attr :
                      LET s == mapPage(State, root, p, va, attr)
                      IN  /\ Put(s)
                          /\ last' = [root |-> root, va |-> PageOf(va) * PAGE, pa |-> p * PAGE,
                                      length |-> PAGE, attr |-> attr, ok |-> s.ok]
                 /\ UNCHANGED <<roots, client>>

Next == \/ Kernel \/ \E t \in BOOLEAN : Alloc(t)
        \/ \E p \in Pages : Free(p) \/ Map(p) \/ MapPage(p)
Spec == Init /\ [][Next]_vars
----------------------------------------------------------------------------
(* Properties *)

(* what the hardware finds for virtual page v: <<physical page, attribute>> *)
Walk(root, v) ==
    LET link(t, level) == IF t = -1 \/ ~Valid(mem[t][PX(level, v)]) THEN -1
                          ELSE mem[t][PX(level, v)][1]
        t == link(link(root, 2), 1)
    IN  IF t = -1 THEN Null ELSE mem[t][PX(0, v)]

VPages == 0..FAN^3 - 1
Links(t) == {mem[t][i][1] : i \in {j \in 0..FAN - 1 : Valid(mem[t][j])}}
Tables(root) == {root} \cup Links(root) \cup UNION {Links(t) : t \in Links(root)}

FreeList[n \in Nat] ==
    IF n = 0 \/ pgfreelist = Null THEN <<>>
    ELSE IF n = 1 THEN <<pgfreelist[1]>>
    ELSE LET c == FreeList[n - 1] IN
         IF Len(c) < n - 1 \/ mem[Last(c)][0] = Null THEN c ELSE Append(c, mem[Last(c)][0][1])
FreePages == FreeList[Cardinality(Pages) + 1]

(* Every whole page of the heap that safeInit() frees (a page that ends    *)
(* exactly at maxaddr is left out) is at all times in one place and in one *)
(* only: on the free list, with a caller of pgalloc(), or a table of one   *)
(* page table tree.  So no page is used twice or lost, the tables created  *)
(* by a mapping call that failed half-way included.                        *)
PagesOnce ==
    LET free == Range(FreePages)
        tables == UNION {Tables(r) : r \in roots}
    IN  /\ Cardinality(free) = Len(FreePages)
        /\ free \cap (client \cup tables) = {} /\ client \cap tables = {}
        /\ \A r1, r2 \in roots : r1 # r2 => Tables(r1) \cap Tables(r2) = {}
        /\ free \cup client \cup tables =
              {p \in Pages : p * PAGE >= memheap /\ (p + 1) * PAGE < maxaddr}

(* A mapping call that returns OK translates every address of its range to *)
(* the physical address at the same distance, with the attribute asked for *)
(* (the two addresses lie at the same place in a page; the range starts or *)
(* ends at a page boundary, without which mapAddress can leave out its     *)
(* last page).  Whatever it returns, it changes the translation of no      *)
(* other page and of no other table, and of its own pages only to the new  *)
(* one.                                                                    *)
MapsRange ==
    calls' # calls /\ "va" \in DOMAIN last' => \A root \in roots, v \in VPages :
        LET c == last'
            first == PageOf(c.va)
            mapped == Walk(root, v)'
            asked == <<PageOf(c.pa) + (v - first), c.attr>>
            whole == c.va % PAGE = 0 \/ (c.va + c.length) % PAGE = 0
            inside == c.length > 0 /\ v \in first..PageOf(c.va + c.length - 1)
        IN  /\ mapped # Walk(root, v) => root = c.root /\ inside /\ mapped = asked
            /\ c.ok /\ root = c.root /\ inside /\ c.va % PAGE = c.pa % PAGE /\ whole =>
                  mapped = asked
MapExact == [][MapsRange]_vars

(* After safeKmapInit(), if memory sufficed, the kernel can go on with     *)
(* paging on: its text is mapped to itself executable and not writable,    *)
(* its data, the heap and the UART writable and not executable, the trap   *)
(* handler at INTERRUPTADDR, and nothing else is.                          *)
KernelMapped ==
    "kernel" \in DOMAIN last /\ pgfreelist # Null =>
        LET text == (PageOf(Layout._start)..PageOf(Layout._ctxsws - 1))
                    \cup (PageOf(Layout._interrupte)..PageOf(Layout._datas - 1))
            data == PageOf(Layout._datas)..PageOf(maxaddr - 1)
        IN  \A v \in VPages :
               Walk(last.root, v) = CASE v \in text -> <<v, "rx">>
                                      [] v \in data \cup {PageOf(UART_BASE)} -> <<v, "rw">>
                                      [] v = PageOf(INTERRUPTADDR) ->
                                           <<PageOf(Layout._interrupts), "rx">>
                                      [] OTHER -> Null
=============================================================================
