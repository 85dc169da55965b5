---------------------------- MODULE MemoryProofs ----------------------------
(***************************************************************************)
(* The heap is divided between free blocks and blocks in use, for any      *)
(* number of cores, any size of the heap and any sizes that callers ask    *)
(* for, as long as rounding them up does not wrap around.                  *)
(***************************************************************************)
EXTENDS Memory, FiniteSetTheorems, TLAPS

Aligned(x) == x % ALIGN = 0

-----------------------------------------------------------------------------
(* Arithmetic *)

\* A set of natural numbers has a least element.
LEMMA MinNat ==
  ASSUME NEW S, S \subseteq Nat, S # {}
  PROVE  Min(S) \in S /\ \A y \in S : Min(S) <= y
<1> DEFINE R == OpToRel(<, Nat)
<1>1. IsWellFoundedOn(R, Nat)
  BY Zenon, NatLessThanWellFounded
<1>2. \A x, y \in Nat : x < y => <<x, y>> \in R
  BY Zenon DEF OpToRel
<1> HIDE DEF R
<1>3. PICK x \in S : \A y \in S : <<y, x>> \notin R
  BY Zenon, <1>1, WFMin
<1>4. ASSUME NEW y \in S
      PROVE  x <= y
  <2>1. x \in Nat /\ y \in Nat
    OBVIOUS
  <2>2. ~(y < x)
    BY Zenon, <1>2, <1>3, <2>1
  <2> QED  BY <2>1, <2>2
<1> QED  BY Zenon, <1>4 DEF Min

\* Sums that do not wrap.
LEMMA PlusSmall ==
  ASSUME NEW x \in Nat, NEW y \in Nat, x + y < WORD
  PROVE  Plus(x, y) = x + y
BY MemoryAssumption DEF Plus

\* An aligned number is a multiple.
LEMMA Multiple ==
  ASSUME NEW x \in Int
  PROVE  Aligned(x) <=> \E k \in Int : x = k * ALIGN
<1>1. ALIGN \in Nat /\ ALIGN > 0
  BY MemoryAssumption
<1>2. x = (x \div ALIGN) * ALIGN + (x % ALIGN) /\ x \div ALIGN \in Int
  BY <1>1
<1>3. ASSUME NEW k \in Int, x = k * ALIGN
      PROVE  Aligned(x)
  BY <1>1, <1>3 DEF Aligned
<1>4. ASSUME Aligned(x)
      PROVE  \E k \in Int : x = k * ALIGN
  <2>1. x = (x \div ALIGN) * ALIGN
    BY <1>1, <1>2, <1>4 DEF Aligned
  <2> QED  BY Zenon, <1>2, <2>1
<1> QED  BY Zenon, <1>3, <1>4

\* Sums and differences of aligned numbers are aligned.
LEMMA AlignedSum ==
  ASSUME NEW x \in Int, NEW y \in Int, Aligned(x), Aligned(y)
  PROVE  Aligned(x + y) /\ Aligned(x - y)
<1>1. PICK k \in Int : x = k * ALIGN
  BY Zenon, Multiple
<1>2. PICK l \in Int : y = l * ALIGN
  BY Zenon, Multiple
<1>3. x + y = (k + l) * ALIGN /\ x - y = (k - l) * ALIGN /\ x + y \in Int /\ x - y \in Int
  BY <1>1, <1>2, MemoryAssumption
<1> QED  BY <1>3, Multiple

\* Aligned numbers differ by ALIGN at least.
LEMMA AlignedLess ==
  ASSUME NEW x \in Int, NEW y \in Int, Aligned(x), Aligned(y), x < y
  PROVE  x + ALIGN <= y
<1>1. PICK k \in Int : x = k * ALIGN
  BY Zenon, Multiple
<1>2. PICK l \in Int : y = l * ALIGN
  BY Zenon, Multiple
<1>3. ALIGN \in Nat /\ ALIGN > 0
  BY MemoryAssumption
<1>4. k + 1 <= l
  BY <1>1, <1>2, <1>3
<1> QED  BY <1>1, <1>2, <1>3, <1>4

\* truncmb() rounds down to a multiple of ALIGN.
LEMMA Truncated ==
  ASSUME NEW x \in Nat
  PROVE  /\ truncmb(x) \in Nat /\ Aligned(truncmb(x))
         /\ truncmb(x) <= x /\ x < truncmb(x) + ALIGN
<1>1. ALIGN \in Nat /\ ALIGN > 0
  BY MemoryAssumption
<1>2. /\ x = (x \div ALIGN) * ALIGN + (x % ALIGN) /\ x \div ALIGN \in Nat
      /\ x % ALIGN \in Nat /\ x % ALIGN < ALIGN
  BY <1>1
<1>3. truncmb(x) \in Nat /\ truncmb(x) <= x /\ x < truncmb(x) + ALIGN
  BY <1>1, <1>2 DEF truncmb
<1>4. Aligned(truncmb(x))
  BY <1>1, <1>2, <1>3, Multiple DEF truncmb
<1> QED  BY Zenon, <1>3, <1>4

\* roundmb() gives the first multiple of the block size that is not below
\* its argument, if that does not wrap.
LEMMA Rounded ==
  ASSUME NEW x \in Nat, x + ALIGN <= WORD
  PROVE  /\ roundmb(x) \in Nat /\ Aligned(roundmb(x))
         /\ x <= roundmb(x) /\ roundmb(x) < x + ALIGN
         /\ \A y \in Int : Aligned(y) /\ x <= y => roundmb(x) <= y
<1>1. ALIGN \in Nat /\ ALIGN > 0 /\ WORD \in Nat
  BY MemoryAssumption
<1>2. Plus(x, ALIGN - 1) = x + (ALIGN - 1)
  BY <1>1, PlusSmall
<1>3. /\ roundmb(x) = truncmb(x + (ALIGN - 1)) /\ x + (ALIGN - 1) \in Nat
  BY <1>1, <1>2 DEF roundmb
<1>4. /\ roundmb(x) \in Nat /\ Aligned(roundmb(x)) /\ x <= roundmb(x) /\ roundmb(x) < x + ALIGN
  BY <1>1, <1>3, Truncated
<1>5. ASSUME NEW y \in Int, Aligned(y), x <= y, y < roundmb(x)
      PROVE  FALSE
  BY <1>1, <1>4, <1>5, AlignedLess
<1> QED  BY <1>4, <1>5

-----------------------------------------------------------------------------
(* The regions of the cores *)

\* The heap has room for at least one unit per core.
Room == bound > 0

\* sysinit(): the regions are aligned, one after the other, in the heap.
LEMMA Regions ==
  ASSUME Room
  PROVE  /\ bound \in Nat /\ Aligned(bound) /\ WORD \in Nat
         /\ \A n \in Core : /\ base(n) \in Nat /\ Aligned(base(n))
                            /\ memheap <= base(n) /\ 0 < base(n)
                            /\ base(n) + bound <= maxaddr /\ maxaddr < WORD
         /\ \A n, m \in Core : n < m => base(n) + bound <= base(m)
<1>1. /\ ALIGN \in Nat /\ ALIGN > 0 /\ WORD \in Nat /\ WORD > 0 /\ Aligned(WORD)
      /\ memheap \in Nat /\ memheap > 0 /\ maxaddr \in Nat /\ maxaddr < WORD
      /\ memheap <= maxaddr /\ Aligned(memheap) /\ NCORES \in Nat /\ NCORES > 0
  BY MemoryAssumption DEF ulong, NULL, Aligned
<1> DEFINE top == truncmb(maxaddr)
           share == (top - memheap) \div NCORES
<1>2. top \in Nat /\ Aligned(top) /\ top <= maxaddr /\ memheap <= top
  <2>1. top \in Nat /\ Aligned(top) /\ top <= maxaddr /\ maxaddr < top + ALIGN
    BY Zenon, <1>1, Truncated
  <2>2. ~(top < memheap)
    BY <1>1, <2>1, AlignedLess
  <2> QED  BY <1>1, <2>1, <2>2
<1> HIDE DEF top
<1>3. share \in Nat /\ share * NCORES <= top - memheap
  BY <1>1, <1>2
<1>4. bound = truncmb(share)
  BY Zenon DEF bound, share, top
<1> HIDE DEF share
<1>5. bound \in Nat /\ Aligned(bound) /\ bound <= share
  BY Zenon, <1>3, <1>4, Truncated
<1>6. PICK k \in Int : bound = k * ALIGN
  BY <1>5, Multiple
<1>7. ASSUME NEW n \in Nat, n < NCORES
      PROVE  /\ bound * n \in Nat /\ Aligned(bound * n)
             /\ memheap + bound * (n + 1) <= top /\ bound * (n + 1) = bound * n + bound
  <2>1. bound * n \in Nat /\ bound * (n + 1) = bound * n + bound
    BY <1>5
  <2>2. bound * n = (k * n) * ALIGN /\ k * n \in Int
    BY <1>1, <1>6
  <2>3. bound * (n + 1) <= bound * NCORES
    BY <1>1, <1>5, <1>7
  <2>4. bound * NCORES <= share * NCORES
    BY <1>1, <1>3, <1>5
  <2>5. bound * (n + 1) \in Nat /\ bound * NCORES \in Nat /\ share * NCORES \in Nat
    BY <1>1, <1>3, <1>5
  <2>6. Aligned(bound * n)
    BY <2>1, <2>2, Multiple
  <2> QED  BY <1>1, <1>2, <1>3, <2>1, <2>3, <2>4, <2>5, <2>6
<1>8. ASSUME NEW n \in Core
      PROVE  /\ base(n) = memheap + bound * n /\ Aligned(base(n)) /\ bound * n \in Nat
             /\ base(n) + bound <= top
  <2>1. n \in Nat /\ n < NCORES
    BY <1>1 DEF Core
  <2>2. Aligned(memheap + bound * n) /\ memheap + bound * n \in Nat
        /\ memheap + bound * n + bound <= top
    <3>1. bound * n \in Nat /\ Aligned(bound * n) /\ memheap + bound * (n + 1) <= top
          /\ bound * (n + 1) = bound * n + bound
      BY Zenon, <1>7, <2>1
    <3>2. Aligned(memheap + bound * n)
      BY <1>1, <3>1, AlignedSum
    <3> QED  BY <1>1, <1>2, <1>5, <3>1, <3>2
  <2>3. memheap + bound * n < WORD
    BY <1>1, <1>2, <1>5, <2>2 DEF Room
  <2>4. memheap + bound * n + ALIGN <= WORD
    BY <1>1, <2>2, <2>3, AlignedLess
  <2>5. base(n) = memheap + bound * n
    BY <1>1, <2>2, <2>4, Rounded DEF base
  <2> QED  BY Zenon, <1>7, <2>1, <2>2, <2>5
<1>9. ASSUME NEW n \in Core, NEW m \in Core, n < m
      PROVE  base(n) + bound <= base(m)
  <2>1. n \in Nat /\ m \in Nat /\ n + 1 <= m /\ n < NCORES
    BY <1>1, <1>9 DEF Core
  <2>2. bound * (n + 1) <= bound * m
    BY <1>5, <2>1
  <2> QED  BY <1>1, <1>5, <1>7, <1>8, <2>1, <2>2
<1> QED  BY <1>1, <1>2, <1>5, <1>8, <1>9
-----------------------------------------------------------------------------
(* Free lists *)

\* The members of a list with one taken out.
LEMMA Removed ==
  ASSUME NEW s \in Seq(Block), NEW i \in 1 .. Len(s), NEW t, t = RemoveAt(s, i)
  PROVE  /\ t \in Seq(Block) /\ Len(t) = Len(s) - 1 /\ Len(s) \in Nat
         /\ \A j \in 1 .. Len(t) : t[j] = IF j < i THEN s[j] ELSE s[j + 1]
<1> DEFINE a == SubSeq(s, 1, i - 1)
           b == SubSeq(s, i + 1, Len(s))
<1>1. Len(s) \in Nat /\ i \in Int
  OBVIOUS
<1>2. a \in Seq(Block) /\ Len(a) = i - 1 /\ \A j \in 1 .. i - 1 : a[j] = s[j]
  BY <1>1
<1>3. b \in Seq(Block) /\ Len(b) = Len(s) - i /\ \A j \in 1 .. Len(s) - i : b[j] = s[j + i]
  BY <1>1
<1>4. t = a \o b
  BY Zenon DEF RemoveAt
<1> HIDE DEF a, b
<1>5. t \in Seq(Block) /\ Len(t) = Len(s) - 1
  BY <1>1, <1>2, <1>3, <1>4
<1>6. ASSUME NEW j \in 1 .. Len(t)
      PROVE  t[j] = IF j < i THEN s[j] ELSE s[j + 1]
  <2>1. CASE j < i
    <3>1. j \in 1 .. i - 1 /\ t[j] = a[j]
      BY <1>1, <1>2, <1>3, <1>4, <1>5, <2>1
    <3> QED  BY Zenon, <1>2, <2>1, <3>1
  <2>2. CASE ~(j < i)
    <3>1. t[j] = b[(j - i) + 1] /\ (j - i) + 1 \in 1 .. Len(s) - i /\ ((j - i) + 1) + i = j + 1
      BY <1>1, <1>2, <1>3, <1>4, <1>5, <2>2
    <3> QED  BY Zenon, <1>3, <2>2, <3>1
  <2> QED  BY Zenon, <2>1, <2>2
<1> QED  BY Zenon, <1>1, <1>5, <1>6

\* The members of a list with one put in.
LEMMA InsertedAt ==
  ASSUME NEW s \in Seq(Block), NEW i \in 1 .. Len(s) + 1, NEW e \in Block,
         NEW t, t = InsertAt(s, i, e)
  PROVE  /\ t \in Seq(Block) /\ Len(t) = Len(s) + 1 /\ Len(s) \in Nat
         /\ \A j \in 1 .. Len(t) : t[j] = IF j < i THEN s[j] ELSE IF j = i THEN e ELSE s[j - 1]
<1> DEFINE a == SubSeq(s, 1, i - 1)
           b == SubSeq(s, i, Len(s))
           d == a \o <<e>>
<1>1. Len(s) \in Nat /\ i \in Int
  OBVIOUS
<1>2. a \in Seq(Block) /\ Len(a) = i - 1 /\ \A j \in 1 .. i - 1 : a[j] = s[j]
  BY <1>1
<1>3. /\ b \in Seq(Block) /\ Len(b) = (Len(s) - i) + 1
      /\ \A j \in 1 .. (Len(s) - i) + 1 : b[j] = s[(j + i) - 1]
  BY <1>1
<1>4. t = d \o b
  BY Zenon DEF InsertAt
<1> HIDE DEF a, b
<1>5. d \in Seq(Block) /\ Len(d) = i /\ d[i] = e /\ \A j \in 1 .. i - 1 : d[j] = s[j]
  BY <1>1, <1>2
<1> HIDE DEF d
<1>6. t \in Seq(Block) /\ Len(t) = Len(s) + 1
  BY <1>1, <1>3, <1>4, <1>5
<1>7. ASSUME NEW j \in 1 .. Len(t)
      PROVE  t[j] = IF j < i THEN s[j] ELSE IF j = i THEN e ELSE s[j - 1]
  <2>1. CASE j <= i
    <3>1. t[j] = d[j]
      BY <1>1, <1>3, <1>4, <1>5, <1>6, <2>1
    <3> QED  BY <1>1, <1>5, <2>1, <3>1
  <2>2. CASE ~(j <= i)
    <3>1. t[j] = b[j - i] /\ j - i \in 1 .. (Len(s) - i) + 1 /\ ((j - i) + i) - 1 = j - 1
      BY <1>1, <1>3, <1>4, <1>5, <1>6, <2>2
    <3>2. ~(j < i) /\ j # i
      BY <1>1, <2>2
    <3> QED  BY Zenon, <1>3, <3>1, <3>2
  <2> QED  BY Zenon, <2>1, <2>2
<1> QED  BY Zenon, <1>1, <1>6, <1>7

\* Aligned, nonempty blocks between lo and hi.
Within(s, lo, hi) ==
  \A i \in 1 .. Len(s) :
    /\ Aligned(s[i].addr) /\ Aligned(s[i].len) /\ s[i].len > 0
    /\ lo <= s[i].addr /\ s[i].addr + s[i].len <= hi

\* In the order of their addresses, with gaps between them.
Sorted(s) ==
  \A i, j \in 1 .. Len(s) : i < j => s[i].addr + s[i].len < s[j].addr

ListOK(s, lo, hi) == s \in Seq(Block) /\ Within(s, lo, hi) /\ Sorted(s)

\* Byte x is in block i of the list, or in some block.
At(s, i, x) == s[i].addr <= x /\ x < s[i].addr + s[i].len
Covers(s, x) == \E i \in 1 .. Len(s) : At(s, i, x)

\* The ends of a region.
Ends(lo, hi) == lo \in Nat /\ hi \in Nat /\ 0 < lo /\ hi < WORD

\* The fields of the blocks of a list are natural numbers.
LEMMA BlockFacts ==
  ASSUME NEW s \in Seq(Block)
  PROVE  /\ Len(s) \in Nat
         /\ \A i \in 1 .. Len(s) : s[i] \in Block /\ s[i].addr \in Nat /\ s[i].len \in Nat
<1>1. Len(s) \in Nat /\ \A i \in 1 .. Len(s) : s[i] \in Block
  OBVIOUS
<1>2. \A b \in Block : b.addr \in Nat /\ b.len \in Nat
  BY MemoryAssumption DEF Block, ulong
<1> QED  BY Zenon, <1>1, <1>2

\* An address and a length below WORD make a block.
LEMMA MakeBlock ==
  ASSUME NEW a \in Nat, NEW n \in Nat, a < WORD, n < WORD
  PROVE  /\ [addr |-> a, len |-> n] \in Block
         /\ [addr |-> a, len |-> n].addr = a /\ [addr |-> a, len |-> n].len = n
BY MemoryAssumption DEF Block, ulong

\* Two blocks have no byte in common.
LEMMA BlocksApart ==
  ASSUME NEW s, NEW lo, NEW hi, ListOK(s, lo, hi), NEW x \in Int,
         NEW i \in 1 .. Len(s), NEW j \in 1 .. Len(s), At(s, i, x), At(s, j, x)
  PROVE  i = j
<1>1. /\ Len(s) \in Nat /\ s[i].addr \in Nat /\ s[i].len \in Nat
      /\ s[j].addr \in Nat /\ s[j].len \in Nat
  BY Zenon, BlockFacts DEF ListOK
<1>2. i \in Int /\ j \in Int
  BY <1>1
<1>3. i < j => s[i].addr + s[i].len < s[j].addr
  BY Zenon DEF ListOK, Sorted
<1>4. j < i => s[j].addr + s[j].len < s[i].addr
  BY Zenon DEF ListOK, Sorted
<1> QED  BY <1>1, <1>2, <1>3, <1>4 DEF At

\* A list with block i taken out.
LEMMA RemovedOK ==
  ASSUME NEW s, NEW lo, NEW hi, ListOK(s, lo, hi), NEW i \in 1 .. Len(s), NEW t, t = RemoveAt(s, i)
  PROVE  /\ ListOK(t, lo, hi)
         /\ \A x \in Int : Covers(t, x) <=> Covers(s, x) /\ ~At(s, i, x)
<1>1. s \in Seq(Block)
  BY Zenon DEF ListOK
<1>2. /\ t \in Seq(Block) /\ Len(t) = Len(s) - 1 /\ Len(s) \in Nat
      /\ \A j \in 1 .. Len(t) : t[j] = IF j < i THEN s[j] ELSE s[j + 1]
  BY Zenon, <1>1, Removed
<1> DEFINE from(j) == IF j < i THEN j ELSE j + 1
<1>3. ASSUME NEW j \in 1 .. Len(t)
      PROVE  from(j) \in 1 .. Len(s) /\ from(j) # i /\ t[j] = s[from(j)]
  BY <1>2
<1>4. ASSUME NEW j \in 1 .. Len(t), NEW k \in 1 .. Len(t), j < k
      PROVE  from(j) < from(k)
  BY <1>2, <1>4
<1>5. ASSUME NEW k \in 1 .. Len(s), k # i
      PROVE  \E j \in 1 .. Len(t) : k = from(j)
  <2>1. CASE k < i
    BY <1>2, <2>1
  <2>2. CASE ~(k < i)
    <3>1. k - 1 \in 1 .. Len(t) /\ k = from(k - 1)
      BY <1>2, <1>5, <2>2
    <3> QED  BY Zenon, <3>1
  <2> QED  BY Zenon, <2>1, <2>2
<1> HIDE DEF from
<1>6. Within(t, lo, hi)
  BY Zenon, <1>3 DEF ListOK, Within
<1>7. Sorted(t)
  BY ZenonT(60), <1>3, <1>4 DEF ListOK, Sorted
<1>8. ASSUME NEW x \in Int, Covers(t, x)
      PROVE  Covers(s, x) /\ ~At(s, i, x)
  <2>1. PICK j \in 1 .. Len(t) : At(t, j, x)
    BY Zenon, <1>8 DEF Covers
  <2>2. At(s, from(j), x) /\ from(j) \in 1 .. Len(s) /\ from(j) # i
    BY Zenon, <1>3, <2>1 DEF At
  <2> QED  BY Zenon, <2>2, BlocksApart DEF Covers
<1>9. ASSUME NEW x \in Int, Covers(s, x), ~At(s, i, x)
      PROVE  Covers(t, x)
  <2>1. PICK k \in 1 .. Len(s) : At(s, k, x) /\ k # i
    BY Zenon, <1>9 DEF Covers
  <2>2. PICK j \in 1 .. Len(t) : k = from(j)
    BY Zenon, <1>5, <2>1
  <2> QED  BY Zenon, <1>3, <2>1, <2>2 DEF Covers, At
<1> QED  BY Zenon, <1>2, <1>6, <1>7, <1>8, <1>9 DEF ListOK

\* A list in which block i is replaced.
LEMMA Replaced ==
  ASSUME NEW s \in Seq(Block), NEW i \in 1 .. Len(s), NEW e \in Block,
         NEW t, t = [s EXCEPT ![i] = e]
  PROVE  /\ t \in Seq(Block) /\ Len(t) = Len(s) /\ t[i] = e
         /\ \A j \in 1 .. Len(s) : j # i => t[j] = s[j]
OBVIOUS

\* getmem() takes n bytes from the start of block i.
LEMMA CarveOK ==
  ASSUME NEW s, NEW lo, NEW hi, ListOK(s, lo, hi), Ends(lo, hi),
         NEW i \in 1 .. Len(s), NEW n \in Nat, n > 0, Aligned(n), s[i].len >= n
  PROVE  /\ ListOK(Carve(s, i, n), lo, hi)
         /\ \A x \in Int : Covers(Carve(s, i, n), x) <=>
                            Covers(s, x) /\ ~(s[i].addr <= x /\ x < s[i].addr + n)
<1>1. /\ s \in Seq(Block) /\ Len(s) \in Nat
      /\ \A j \in 1 .. Len(s) : s[j].addr \in Nat /\ s[j].len \in Nat
      /\ Within(s, lo, hi) /\ Sorted(s)
  BY Zenon, BlockFacts DEF ListOK
<1>2. CASE s[i].len = n
  <2>1. Carve(s, i, n) = RemoveAt(s, i)
    BY Zenon, <1>2 DEF Carve
  <2> QED  BY Zenon, <1>2, <2>1, RemovedOK DEF At
<1>3. CASE s[i].len # n
  <2> DEFINE a == s[i].addr
             l == s[i].len
             e == [addr |-> a + n, len |-> l - n]
  <2>0. PICK t : t = [s EXCEPT ![i] = e]
    OBVIOUS
  <2>1. /\ a \in Nat /\ l \in Nat /\ n < l /\ a + l <= hi /\ lo <= a /\ hi < WORD /\ lo \in Nat
        /\ Aligned(a) /\ Aligned(l) /\ hi \in Nat /\ WORD \in Nat
    BY <1>1, <1>3, MemoryAssumption DEF Within, Ends
  <2>2. e \in Block /\ e.addr = a + n /\ e.len = l - n
    BY <2>1, MakeBlock
  <2>3. Carve(s, i, n) = t
    <3>1. Plus(a, n) = a + n
      BY <2>1, PlusSmall
    <3> QED  BY Zenon, <1>3, <2>0, <3>1 DEF Carve
  <2>i. s[i].addr = a /\ s[i].len = l
    OBVIOUS
  <2> HIDE DEF a, l, e
  <2>4. /\ t \in Seq(Block) /\ Len(t) = Len(s) /\ t[i] = e
        /\ \A j \in 1 .. Len(s) : j # i => t[j] = s[j]
    BY <1>1, <2>0, <2>2, Replaced
  <2>5. Aligned(a + n) /\ Aligned(l - n)
    BY <2>1, AlignedSum
  <2>6. Within(t, lo, hi)
    <3>1. /\ Aligned(t[i].addr) /\ Aligned(t[i].len) /\ t[i].len > 0
          /\ lo <= t[i].addr /\ t[i].addr + t[i].len <= hi
      BY <2>1, <2>2, <2>4, <2>5
    <3> QED  BY Zenon, <1>1, <2>4, <3>1 DEF Within
  <2>7. Sorted(t)
    <3> SUFFICES ASSUME NEW j \in 1 .. Len(s), NEW k \in 1 .. Len(s), j < k
                 PROVE  t[j].addr + t[j].len < t[k].addr
      BY Zenon, <2>4 DEF Sorted
    <3>1. s[j].addr + s[j].len < s[k].addr
      BY Zenon, <1>1 DEF Sorted
    <3>2. t[j].addr + t[j].len = s[j].addr + s[j].len
      <4>1. (a + n) + (l - n) = a + l
        BY <2>1
      <4> QED  BY Zenon, <2>2, <2>4, <2>i, <4>1
    <3>3. t[k].addr >= s[k].addr /\ t[k].addr \in Nat
      <4>1. k = i => t[k].addr = a + n /\ s[k].addr = a
        BY Zenon, <2>2, <2>4, <2>i
      <4>2. k # i => t[k].addr = s[k].addr
        BY Zenon, <2>4
      <4>3. s[k].addr \in Nat
        BY Zenon, <1>1
      <4> QED  BY SMTT(30), <2>1, <4>1, <4>2, <4>3
    <3> QED  BY SMTT(30), <1>1, <3>1, <3>2, <3>3
  <2>8. ASSUME NEW x \in Int, NEW j \in 1 .. Len(s)
        PROVE  At(t, j, x) <=> At(s, j, x) /\ ~(j = i /\ x < a + n)
    <3>1. CASE j = i
      BY SMTT(30), <2>1, <2>2, <2>4, <2>i, <3>1 DEF At
    <3>2. CASE j # i
      BY Zenon, <2>4, <3>2 DEF At
    <3> QED  BY Zenon, <3>1, <3>2
  <2>9. ASSUME NEW x \in Int
        PROVE  Covers(t, x) <=> Covers(s, x) /\ ~(a <= x /\ x < a + n)
    <3>1. a <= x /\ x < a + n => At(s, i, x)
      BY <2>1, <2>i DEF At
    <3>2. At(s, i, x) => a <= x
      BY Zenon, <2>i DEF At
    <3> QED  BY Zenon, <2>4, <2>8, <3>1, <3>2, BlocksApart DEF Covers
  <2> QED  BY Zenon, <2>3, <2>4, <2>6, <2>7, <2>9, <2>i DEF ListOK
<1> QED  BY Zenon, <1>2, <1>3

\* A list whose blocks j and j + 1 may touch.
Loose(s, j, lo, hi) ==
  /\ s \in Seq(Block) /\ Within(s, lo, hi)
  /\ \A i, k \in 1 .. Len(s) : i < k =>
       \/ s[i].addr + s[i].len < s[k].addr
       \/ i = j /\ k = j + 1 /\ s[i].addr + s[i].len = s[k].addr

\* freemem() joins block j with the next one if they touch.
LEMMA JoinNextOK ==
  ASSUME NEW s, NEW lo, NEW hi, NEW j \in 1 .. Len(s), Loose(s, j, lo, hi), Ends(lo, hi)
  PROVE  /\ ListOK(JoinNext(s, j), lo, hi)
         /\ \A x \in Int : Covers(JoinNext(s, j), x) <=> Covers(s, x)
<1>1. /\ s \in Seq(Block) /\ Len(s) \in Nat /\ Within(s, lo, hi)
      /\ \A i \in 1 .. Len(s) : s[i] \in Block /\ s[i].addr \in Nat /\ s[i].len \in Nat
  BY Zenon, BlockFacts DEF Loose
<1>2. lo \in Nat /\ hi \in Nat /\ 0 < lo /\ hi < WORD /\ WORD \in Nat
  BY Zenon, MemoryAssumption DEF Ends
<1>3. PICK a \in Nat, l \in Nat : s[j].addr = a /\ s[j].len = l
  BY Zenon, <1>1
<1>4. /\ lo <= a /\ a + l <= hi /\ Aligned(a) /\ Aligned(l) /\ l > 0 /\ Plus(a, l) = a + l
  <2>1. lo <= a /\ a + l <= hi /\ Aligned(a) /\ Aligned(l) /\ l > 0
    BY Zenon, <1>1, <1>3 DEF Within
  <2> QED  BY <1>2, <2>1, PlusSmall
<1>5. CASE j < Len(s) /\ a + l = s[j + 1].addr
  <2>1. j + 1 \in 1 .. Len(s)
    BY <1>1, <1>5
  <2>2. PICK m \in Nat : s[j + 1].len = m
    BY Zenon, <1>1, <2>1
  <2>3. /\ m > 0 /\ (a + l) + m <= hi /\ Aligned(m) /\ Aligned(l + m) /\ l + m \in Nat
    <3>1. m > 0 /\ (a + l) + m <= hi /\ Aligned(m)
      BY Zenon, <1>1, <1>5, <2>1, <2>2 DEF Within
    <3> QED  BY <1>4, <3>1, AlignedSum
  <2>4. Plus(l, m) = l + m
    BY <1>2, <1>4, <2>3, PlusSmall
  <2>5. PICK e : e = [addr |-> a, len |-> l + m]
    OBVIOUS
  <2>6. e \in Block /\ e.addr = a /\ e.len = l + m
    BY <1>2, <1>4, <2>3, <2>5, MakeBlock
  <2>7. PICK v : v = [s EXCEPT ![j] = e]
    OBVIOUS
  <2>8. PICK t : t = RemoveAt(v, j + 1)
    OBVIOUS
  <2>9. JoinNext(s, j) = t
    <3>1. [s EXCEPT ![j].len = Plus(@, s[j + 1].len)] = v
      <4>1. [s[j] EXCEPT !.len = Plus(@, s[j + 1].len)] = e
        <5>1. s[j] = [addr |-> a, len |-> l]
          BY Zenon, <1>1, <1>3 DEF Block
        <5> QED  BY <1>3, <2>2, <2>4, <2>5, <5>1
      <4> QED  BY Zenon, <2>7, <4>1
    <3> QED  BY Zenon, <1>3, <1>4, <1>5, <2>8, <3>1 DEF JoinNext
  <2>10. /\ v \in Seq(Block) /\ Len(v) = Len(s) /\ v[j] = e
         /\ \A k \in 1 .. Len(s) : k # j => v[k] = s[k]
    BY <1>1, <2>6, <2>7, Replaced
  <2>11. /\ t \in Seq(Block) /\ Len(t) = Len(s) - 1
         /\ \A k \in 1 .. Len(t) : t[k] = IF k < j + 1 THEN v[k] ELSE v[k + 1]
    <3>1. v \in Seq(Block) /\ j + 1 \in 1 .. Len(v) /\ Len(v) = Len(s)
      BY Zenon, <2>1, <2>10
    <3>2. t \in Seq(Block) /\ Len(t) = Len(v) - 1
      BY Zenon, <2>8, <3>1, Removed
    <3>3. \A k \in 1 .. Len(t) : t[k] = IF k < j + 1 THEN v[k] ELSE v[k + 1]
      BY Zenon, <2>8, <3>1, Removed
    <3> QED  BY Zenon, <3>1, <3>2, <3>3
  <2>12. /\ t[j] = e /\ j \in 1 .. Len(t)
         /\ \A k \in 1 .. Len(t) : /\ k < j => t[k] = s[k] /\ k \in 1 .. Len(s)
                                   /\ k > j => t[k] = s[k + 1] /\ k + 1 \in 1 .. Len(s)
    BY <1>1, <1>5, <2>10, <2>11
  <2>13. Within(t, lo, hi)
    <3>1. /\ Aligned(t[j].addr) /\ Aligned(t[j].len) /\ t[j].len > 0
          /\ lo <= t[j].addr /\ t[j].addr + t[j].len <= hi
      BY <1>2, <1>4, <2>3, <2>6, <2>12
    <3>2. \A k \in 1 .. Len(t) : k = j \/ k < j \/ k > j
      BY <1>1, <2>11
    <3> QED  BY Zenon, <1>1, <2>12, <3>1, <3>2 DEF Within
  <2>14. ASSUME NEW i \in 1 .. Len(t), NEW k \in 1 .. Len(t), i < k
         PROVE  t[i].addr + t[i].len < t[k].addr
    <3> DEFINE to == IF i < j THEN i ELSE i + 1
               from == IF k <= j THEN k ELSE k + 1
    <3>1. to \in 1 .. Len(s) /\ from \in 1 .. Len(s) /\ to < from /\ to # j
      BY <1>1, <2>11, <2>14
    <3>2. s[to].addr + s[to].len < s[from].addr
      BY Zenon, <3>1 DEF Loose
    <3>3. t[k].addr = s[from].addr
      <4>1. k = j \/ k < j \/ k > j
        BY <1>1, <2>11
      <4>2. (k < j => k <= j) /\ (k > j => ~(k <= j)) /\ (k = j => k <= j)
        BY <1>1, <2>11
      <4> QED  BY Zenon, <1>3, <2>6, <2>12, <4>1, <4>2
    <3>4. t[i].addr + t[i].len = s[to].addr + s[to].len
      <4>1. i = j \/ i < j \/ i > j
        BY <1>1, <2>11
      <4>2. (i = j => ~(i < j)) /\ (i > j => ~(i < j)) /\ a + (l + m) = (a + l) + m
        BY <1>1, <2>11
      <4> QED  BY Zenon, <1>5, <2>2, <2>6, <2>12, <4>1, <4>2
    <3> QED  BY Zenon, <3>2, <3>3, <3>4
  <2>15. ASSUME NEW x \in Int
         PROVE  At(t, j, x) <=> At(s, j, x) \/ At(s, j + 1, x)
    BY <1>3, <1>4, <1>5, <2>2, <2>3, <2>6, <2>12 DEF At
  <2>16. ASSUME NEW x \in Int, Covers(t, x)
         PROVE  Covers(s, x)
    <3>1. PICK k \in 1 .. Len(t) : At(t, k, x)
      BY Zenon, <2>16 DEF Covers
    <3>2. k = j \/ k < j \/ k > j
      BY <1>1, <2>11
    <3> QED  BY Zenon, <2>1, <2>12, <2>15, <3>1, <3>2 DEF Covers, At
  <2>17. ASSUME NEW x \in Int, Covers(s, x)
         PROVE  Covers(t, x)
    <3>1. PICK i \in 1 .. Len(s) : At(s, i, x)
      BY Zenon, <2>17 DEF Covers
    <3>2. CASE i < j
      <4>1. i \in 1 .. Len(t)
        BY <1>1, <2>11, <3>2, <1>5
      <4> QED  BY Zenon, <2>12, <3>1, <3>2, <4>1 DEF Covers, At
    <3>3. CASE i = j \/ i = j + 1
      BY Zenon, <2>12, <2>15, <3>1, <3>3 DEF Covers
    <3>4. CASE i > j + 1
      <4>1. i - 1 \in 1 .. Len(t) /\ i - 1 > j /\ (i - 1) + 1 = i
        BY <1>1, <2>11, <3>4
      <4> QED  BY Zenon, <2>12, <3>1, <4>1 DEF Covers, At
    <3>5. i < j \/ i = j \/ i = j + 1 \/ i > j + 1
      BY <1>1
    <3> QED  BY Zenon, <3>2, <3>3, <3>4, <3>5
  <2> QED  BY Zenon, <2>9, <2>11, <2>13, <2>14, <2>16, <2>17 DEF ListOK, Sorted
<1>6. CASE ~(j < Len(s) /\ a + l = s[j + 1].addr)
  <2>1. JoinNext(s, j) = s
    BY Zenon, <1>3, <1>4, <1>6 DEF JoinNext
  <2>2. Sorted(s)
    <3> SUFFICES ASSUME NEW i \in 1 .. Len(s), NEW k \in 1 .. Len(s), i < k
                 PROVE  s[i].addr + s[i].len < s[k].addr
      BY Zenon DEF Sorted
    <3>1. i = j /\ k = j + 1 => j < Len(s)
      BY <1>1
    <3> QED  BY Zenon, <1>3, <1>6, <3>1 DEF Loose
  <2> QED  BY Zenon, <1>1, <2>1, <2>2 DEF ListOK
<1> QED  BY Zenon, <1>5, <1>6

\* freemem(): the walk stops at the first block not below the freed one.
LEMMA PlaceFacts ==
  ASSUME NEW s \in Seq(Block), NEW a \in Nat, NEW i, i = Place(s, a)
  PROVE  /\ i \in 1 .. Len(s) + 1
         /\ \A j \in 1 .. Len(s) : j < i => s[j].addr < a
         /\ i \in 1 .. Len(s) => s[i].addr >= a
<1> DEFINE S == {j \in DOMAIN s : s[j].addr >= a} \cup {Len(s) + 1}
<1>1. /\ Len(s) \in Nat /\ DOMAIN s = 1 .. Len(s)
      /\ \A j \in 1 .. Len(s) : s[j].addr \in Nat
  BY BlockFacts
<1>2. S \subseteq Nat /\ S # {}
  BY <1>1
<1>3. i \in S /\ \A j \in S : i <= j
  <2>1. i = Min(S)
    BY Zenon DEF Place
  <2> HIDE DEF S
  <2> QED  BY Zenon, <1>2, <2>1, MinNat
<1> QED  BY <1>1, <1>3

\* The blocks before place i end at a or below, the others begin at a + n or
\* above; only the neighbours can touch.
Clear(s, i, a, n) ==
  /\ \A j \in 1 .. Len(s) : /\ j < i => s[j].addr + s[j].len <= a
                            /\ j < i - 1 => s[j].addr + s[j].len < a
                            /\ j >= i => a + n <= s[j].addr
                            /\ j > i => a + n < s[j].addr
  /\ i \in 1 .. Len(s) + 1
  /\ i > 1 => Top(s, i) = s[i - 1].addr + s[i - 1].len

\* freemem(): what its overlap test shows.
LEMMA NoOverlaps ==
  ASSUME NEW s, NEW lo, NEW hi, ListOK(s, lo, hi), Ends(lo, hi),
         NEW a \in Nat, NEW n \in Nat, n > 0, lo <= a, a + n <= hi,
         NEW i, i = Place(s, a), ~Overlaps(s, i, a, n)
  PROVE  Clear(s, i, a, n)
<1>1. /\ s \in Seq(Block) /\ Len(s) \in Nat /\ Within(s, lo, hi) /\ Sorted(s)
      /\ \A j \in 1 .. Len(s) : s[j].addr \in Nat /\ s[j].len \in Nat
  BY Zenon, BlockFacts DEF ListOK
<1>2. lo \in Nat /\ hi \in Nat /\ 0 < lo /\ hi < WORD /\ WORD \in Nat
  BY Zenon, MemoryAssumption DEF Ends
<1>3. /\ i \in 1 .. Len(s) + 1
      /\ \A j \in 1 .. Len(s) : j < i => s[j].addr < a
      /\ i \in 1 .. Len(s) => s[i].addr >= a
  BY Zenon, <1>1, PlaceFacts
<1>4. i \in Int /\ (i # 1 => i - 1 \in 1 .. Len(s)) /\ (i <= Len(s) => i \in 1 .. Len(s))
  BY <1>1, <1>3
<1>5. i # 1 => Top(s, i) = s[i - 1].addr + s[i - 1].len
  <2> SUFFICES ASSUME i # 1
               PROVE  Top(s, i) = s[i - 1].addr + s[i - 1].len
    OBVIOUS
  <2>1. s[i - 1].addr \in Nat /\ s[i - 1].len \in Nat /\ s[i - 1].addr + s[i - 1].len <= hi
    BY Zenon, <1>1, <1>4 DEF Within
  <2>2. Plus(s[i - 1].addr, s[i - 1].len) = s[i - 1].addr + s[i - 1].len
    BY <1>2, <2>1, PlusSmall
  <2> QED  BY Zenon, <2>2 DEF Top
<1>6. i # 1 => s[i - 1].addr + s[i - 1].len <= a
  <2>1. ~(Top(s, i) > a)
    BY Zenon DEF Overlaps
  <2> QED  BY <1>1, <1>4, <1>5, <2>1
<1>7. i <= Len(s) => a + n <= s[i].addr
  <2>1. Plus(a, n) = a + n
    BY <1>2, PlusSmall
  <2>2. i <= Len(s) => ~(a + n > s[i].addr)
    BY Zenon, <2>1 DEF Overlaps
  <2> QED  BY <1>1, <1>4, <2>2
<1>8. ASSUME NEW j \in 1 .. Len(s)
      PROVE  /\ j < i => s[j].addr + s[j].len <= a
             /\ j < i - 1 => s[j].addr + s[j].len < a
             /\ j >= i => a + n <= s[j].addr
             /\ j > i => a + n < s[j].addr
  <2>1. s[j].addr \in Nat /\ s[j].len \in Nat
    BY Zenon, <1>1
  <2>2. ASSUME j < i - 1
        PROVE  s[j].addr + s[j].len < a
    <3>1. i # 1 /\ i - 1 \in 1 .. Len(s) /\ j < i - 1
      BY <1>1, <1>3, <2>2
    <3>2. s[j].addr + s[j].len < s[i - 1].addr
      BY Zenon, <1>1, <3>1 DEF Sorted
    <3>3. s[i - 1].addr \in Nat /\ s[i - 1].len \in Nat
      BY Zenon, <1>1, <3>1
    <3> QED  BY SMTT(30), <1>6, <2>1, <3>1, <3>2, <3>3
  <2>3. ASSUME j > i
        PROVE  a + n < s[j].addr
    <3>1. i <= Len(s) /\ i < j
      BY <1>1, <1>4, <2>3
    <3>2. i \in 1 .. Len(s)
      BY Zenon, <1>4, <3>1
    <3>3. s[i].addr + s[i].len < s[j].addr /\ s[i].len > 0
      BY Zenon, <1>1, <3>1, <3>2 DEF Sorted, Within
    <3>4. s[i].addr \in Nat /\ s[i].len \in Nat
      BY Zenon, <1>1, <3>2
    <3> QED  BY SMTT(30), <1>7, <2>1, <3>1, <3>3, <3>4
  <2>4. j < i => (j = i - 1 /\ i # 1) \/ j < i - 1
    BY <1>1, <1>4
  <2>5. j >= i => (j = i /\ i <= Len(s)) \/ j > i
    BY <1>1, <1>4
  <2>6. j < i => s[j].addr + s[j].len <= a
    <3>1. j < i - 1 => s[j].addr + s[j].len <= a
      BY <2>1, <2>2
    <3> QED  BY Zenon, <1>6, <2>4, <3>1
  <2>7. j >= i => a + n <= s[j].addr
    <3>1. j > i => a + n <= s[j].addr
      BY <2>1, <2>3
    <3> QED  BY Zenon, <1>7, <2>5, <3>1
  <2> QED  BY Zenon, <2>2, <2>3, <2>6, <2>7
<1>9. i > 1 => i # 1
  BY <1>4
<1> QED  BY Zenon, <1>3, <1>5, <1>8, <1>9 DEF Clear

\* freemem() of a block that touches the one before: that one grows.
Grown(s, i, n) == [s EXCEPT ![i - 1].len = Plus(@, n)]

\* The grown block may touch the one after it, and the bytes are added.
LEMMA GrownLoose ==
  ASSUME NEW s, NEW lo, NEW hi, ListOK(s, lo, hi), Ends(lo, hi),
         NEW a \in Nat, NEW n \in Nat, n > 0, lo <= a, a + n <= hi, Aligned(n),
         NEW i, Clear(s, i, a, n), Top(s, i) = a,
         NEW t, t = Grown(s, i, n)
  PROVE  /\ i - 1 \in 1 .. Len(t) /\ Loose(t, i - 1, lo, hi)
         /\ \A x \in Int : Covers(t, x) <=> Covers(s, x) \/ (a <= x /\ x < a + n)
<1>1. /\ s \in Seq(Block) /\ Len(s) \in Nat /\ Within(s, lo, hi) /\ Sorted(s)
      /\ \A j \in 1 .. Len(s) : s[j] \in Block /\ s[j].addr \in Nat /\ s[j].len \in Nat
  BY Zenon, BlockFacts DEF ListOK
<1>2. lo \in Nat /\ hi \in Nat /\ 0 < lo /\ hi < WORD /\ WORD \in Nat
  BY Zenon, MemoryAssumption DEF Ends
<1>3. /\ \A j \in 1 .. Len(s) : /\ j < i => s[j].addr + s[j].len <= a
                                /\ j < i - 1 => s[j].addr + s[j].len < a
                                /\ j >= i => a + n <= s[j].addr
                                /\ j > i => a + n < s[j].addr
      /\ i \in 1 .. Len(s) + 1
      /\ i > 1 => Top(s, i) = s[i - 1].addr + s[i - 1].len
  BY Zenon DEF Clear
<1>4. i # 1
  BY <1>2 DEF Top, NULL
<1>5. PICK p \in Int : p = i - 1 /\ p \in 1 .. Len(s)
  BY <1>1, <1>3, <1>4
<1>6. PICK b \in Nat, l \in Nat : s[p].addr = b /\ s[p].len = l
  BY Zenon, <1>1, <1>5
<1>7. b + l = a /\ lo <= b /\ l > 0 /\ Aligned(b) /\ Aligned(l)
  <2>1. i > 1
    BY <1>3, <1>4, <1>1
  <2> QED  BY Zenon, <1>1, <1>3, <1>5, <1>6, <2>1 DEF Within
<1>8. Plus(l, n) = l + n /\ Aligned(l + n)
  BY <1>2, <1>7, PlusSmall, AlignedSum
<1>9. PICK e : e = [addr |-> b, len |-> l + n]
  OBVIOUS
<1>10. e \in Block /\ e.addr = b /\ e.len = l + n
  BY <1>2, <1>7, <1>9, MakeBlock
<1>11. t = [s EXCEPT ![p] = e]
  <2>1. s[p] = [addr |-> b, len |-> l]
    BY Zenon, <1>1, <1>5, <1>6 DEF Block
  <2>2. [s[p] EXCEPT !.len = Plus(@, n)] = e
    BY <1>6, <1>8, <1>9, <2>1
  <2> QED  BY Zenon, <1>5, <2>2 DEF Grown
<1>12. /\ t \in Seq(Block) /\ Len(t) = Len(s) /\ t[p] = e
       /\ \A j \in 1 .. Len(s) : j # p => t[j] = s[j]
  BY <1>1, <1>5, <1>10, <1>11, Replaced
<1>13. Within(t, lo, hi)
  <2>1. /\ Aligned(t[p].addr) /\ Aligned(t[p].len) /\ t[p].len > 0
        /\ lo <= t[p].addr /\ t[p].addr + t[p].len <= hi
    <3>1. b + (l + n) <= hi /\ l + n > 0
      BY <1>2, <1>7
    <3> QED  BY Zenon, <1>7, <1>8, <1>10, <1>12, <3>1
  <2> QED  BY Zenon, <1>1, <1>12, <2>1 DEF Within
<1>14. ASSUME NEW j \in 1 .. Len(t), NEW k \in 1 .. Len(t), j < k
       PROVE  \/ t[j].addr + t[j].len < t[k].addr
              \/ j = p /\ k = p + 1 /\ t[j].addr + t[j].len = t[k].addr
  <2>1. s[j].addr + s[j].len < s[k].addr
    BY Zenon, <1>1, <1>12, <1>14 DEF Sorted
  <2>2. CASE j = p
    <3>1. /\ k >= i /\ k # p /\ k \in 1 .. Len(s) /\ (k = p + 1 \/ k > i)
      <4>1. k \in Int /\ p \in Int /\ p < k /\ i = p + 1
        BY <1>1, <1>3, <1>5, <1>12, <1>14, <2>2
      <4>2. k >= i /\ k # p /\ (k = p + 1 \/ k > i)
        BY <4>1
      <4> QED  BY Zenon, <1>12, <4>2
    <3>4. b + (l + n) = a + n
      BY <1>7
    <3>5. t[j].addr + t[j].len = a + n
      BY Zenon, <1>10, <1>12, <2>2, <3>4
    <3>2. t[k] = s[k] /\ a + n <= s[k].addr /\ (k > i => a + n < s[k].addr)
      BY Zenon, <1>3, <1>12, <3>1
    <3>3. s[k].addr \in Nat
      BY Zenon, <1>1, <3>1
    <3>6. PICK q \in Nat : q = s[k].addr
      BY Zenon, <3>3
    <3>7. a + n <= q /\ (k = p + 1 \/ a + n < q)
      BY Zenon, <3>1, <3>2, <3>6
    <3>8. a + n < q \/ (k = p + 1 /\ a + n = q)
      BY <3>7
    <3> QED  BY Zenon, <2>2, <3>2, <3>5, <3>6, <3>8
  <2>3. CASE j # p
    <3>1. t[j] = s[j] /\ t[k].addr = s[k].addr
      BY Zenon, <1>6, <1>10, <1>12, <2>3
    <3> QED  BY Zenon, <2>1, <3>1
  <2> QED  BY Zenon, <2>2, <2>3
<1>15. ASSUME NEW x \in Int
       PROVE  At(t, p, x) <=> At(s, p, x) \/ (a <= x /\ x < a + n)
  <2>1. b <= x /\ x < b + (l + n) <=> (b <= x /\ x < b + l) \/ (a <= x /\ x < a + n)
    BY <1>7
  <2> QED  BY Zenon, <1>6, <1>10, <1>12, <2>1 DEF At
<1>16. ASSUME NEW x \in Int
       PROVE  Covers(t, x) <=> Covers(s, x) \/ (a <= x /\ x < a + n)
  BY Zenon, <1>5, <1>12, <1>15 DEF Covers, At
<1>17. Loose(t, p, lo, hi)
  BY Zenon, <1>12, <1>13, <1>14 DEF Loose
<1> QED  BY Zenon, <1>5, <1>12, <1>16, <1>17

\* freemem() of a block that does not: a new one is linked.
LEMMA LinkedLoose ==
  ASSUME NEW s, NEW lo, NEW hi, ListOK(s, lo, hi), Ends(lo, hi),
         NEW a \in Nat, NEW n \in Nat, n > 0, lo <= a, a + n <= hi, Aligned(a), Aligned(n),
         NEW i, Clear(s, i, a, n), Top(s, i) # a,
         NEW e, e = [addr |-> a, len |-> n], NEW t, t = InsertAt(s, i, e)
  PROVE  /\ i \in 1 .. Len(t) /\ Loose(t, i, lo, hi)
         /\ \A x \in Int : Covers(t, x) <=> Covers(s, x) \/ (a <= x /\ x < a + n)
<1>1. /\ s \in Seq(Block) /\ Len(s) \in Nat /\ Within(s, lo, hi) /\ Sorted(s)
      /\ \A j \in 1 .. Len(s) : s[j] \in Block /\ s[j].addr \in Nat /\ s[j].len \in Nat
  BY Zenon, BlockFacts DEF ListOK
<1>2. lo \in Nat /\ hi \in Nat /\ 0 < lo /\ hi < WORD /\ WORD \in Nat
  BY Zenon, MemoryAssumption DEF Ends
<1>3. /\ \A j \in 1 .. Len(s) : /\ j < i => s[j].addr + s[j].len <= a
                                /\ j < i - 1 => s[j].addr + s[j].len < a
                                /\ j >= i => a + n <= s[j].addr
                                /\ j > i => a + n < s[j].addr
      /\ i \in 1 .. Len(s) + 1
      /\ i > 1 => Top(s, i) = s[i - 1].addr + s[i - 1].len
  BY Zenon DEF Clear
<1>4. ASSUME NEW j \in 1 .. Len(s), j < i
      PROVE  s[j].addr + s[j].len < a
  <2>1. j < i - 1 \/ (j = i - 1 /\ i > 1)
    BY <1>1, <1>3, <1>4
  <2>2. s[j].addr \in Nat /\ s[j].len \in Nat
    BY Zenon, <1>1
  <2>3. PICK m \in Int : m = s[j].addr + s[j].len
    BY <2>2
  <2>4. m <= a /\ (j < i - 1 => m < a)
    BY Zenon, <1>3, <1>4, <2>3
  <2>5. CASE j = i - 1 /\ i > 1
    <3>1. m # a
      BY Zenon, <1>3, <2>3, <2>5
    <3> QED  BY <2>3, <2>4, <3>1
  <2> QED  BY Zenon, <2>1, <2>3, <2>4, <2>5
<1>6. e \in Block /\ e.addr = a /\ e.len = n
  BY <1>2, MakeBlock
<1>7. /\ t \in Seq(Block) /\ Len(t) = Len(s) + 1
      /\ \A j \in 1 .. Len(t) : t[j] = IF j < i THEN s[j] ELSE IF j = i THEN e ELSE s[j - 1]
  BY <1>1, <1>3, <1>6, InsertedAt
<1>8. /\ i \in 1 .. Len(t) /\ t[i] = e /\ i \in Int
      /\ \A j \in 1 .. Len(t) : /\ j < i => t[j] = s[j] /\ j \in 1 .. Len(s)
                                /\ j > i => t[j] = s[j - 1] /\ j - 1 \in 1 .. Len(s)
                                /\ j < i \/ j = i \/ j > i
  BY <1>1, <1>3, <1>7
<1>9. Within(t, lo, hi)
  <2>1. /\ Aligned(t[i].addr) /\ Aligned(t[i].len) /\ t[i].len > 0
        /\ lo <= t[i].addr /\ t[i].addr + t[i].len <= hi
    BY Zenon, <1>6, <1>8
  <2>2. ASSUME NEW j \in 1 .. Len(t)
        PROVE  /\ Aligned(t[j].addr) /\ Aligned(t[j].len) /\ t[j].len > 0
               /\ lo <= t[j].addr /\ t[j].addr + t[j].len <= hi
    <3>1. CASE j = i
      BY Zenon, <2>1, <3>1
    <3>2. CASE j < i
      BY Zenon, <1>1, <1>8, <3>2 DEF Within
    <3>3. CASE j > i
      BY Zenon, <1>1, <1>8, <3>3 DEF Within
    <3> QED  BY Zenon, <1>8, <3>1, <3>2, <3>3
  <2> QED  BY Zenon, <2>2 DEF Within
<1>10. ASSUME NEW j \in 1 .. Len(t), NEW k \in 1 .. Len(t), j < k
       PROVE  \/ t[j].addr + t[j].len < t[k].addr
              \/ j = i /\ k = i + 1 /\ t[j].addr + t[j].len = t[k].addr
  <2>1. CASE j < i /\ k < i
    BY Zenon, <1>1, <1>8, <1>10, <2>1 DEF Sorted
  <2>2. CASE j < i /\ k = i
    BY ZenonT(60), <1>4, <1>6, <1>8, <2>2
  <2>3. CASE j < i /\ k > i
    <3>1. j < k - 1
      BY <1>1, <1>3, <2>3, <1>7
    <3> QED  BY Zenon, <1>1, <1>8, <2>3, <3>1 DEF Sorted
  <2>4. CASE j = i
    <3>1. k > i /\ k - 1 >= i /\ (k = i + 1 \/ k - 1 > i)
      BY <1>1, <1>3, <1>7, <1>10, <2>4
    <3>2. t[k] = s[k - 1] /\ k - 1 \in 1 .. Len(s)
      BY Zenon, <1>8, <3>1
    <3>3. a + n <= s[k - 1].addr /\ (k - 1 > i => a + n < s[k - 1].addr) /\ s[k - 1].addr \in Nat
      BY Zenon, <1>1, <1>3, <3>1, <3>2
    <3>4. PICK q \in Nat : q = s[k - 1].addr
      BY Zenon, <3>3
    <3>5. a + n < q \/ (k = i + 1 /\ a + n = q)
      BY <3>1, <3>3, <3>4
    <3> QED  BY ZenonT(60), <1>6, <1>8, <2>4, <3>2, <3>4, <3>5
  <2>5. CASE j > i
    <3>1. k > i /\ j - 1 < k - 1
      BY <1>1, <1>3, <1>7, <1>10, <2>5
    <3> QED  BY Zenon, <1>1, <1>8, <2>5, <3>1 DEF Sorted
  <2> QED  BY Zenon, <1>8, <2>1, <2>2, <2>3, <2>4, <2>5
<1>11. ASSUME NEW x \in Int, Covers(t, x)
       PROVE  Covers(s, x) \/ (a <= x /\ x < a + n)
  <2>1. PICK j \in 1 .. Len(t) : At(t, j, x)
    BY Zenon, <1>11 DEF Covers
  <2>2. CASE j < i
    BY Zenon, <1>8, <2>1, <2>2 DEF Covers, At
  <2>3. CASE j = i
    BY Zenon, <1>6, <1>8, <2>1, <2>3 DEF At
  <2>4. CASE j > i
    BY Zenon, <1>8, <2>1, <2>4 DEF Covers, At
  <2> QED  BY Zenon, <1>8, <2>2, <2>3, <2>4
<1>12. ASSUME NEW x \in Int, a <= x /\ x < a + n
       PROVE  Covers(t, x)
  BY Zenon, <1>6, <1>8, <1>12 DEF Covers, At
<1>13. ASSUME NEW x \in Int, Covers(s, x)
       PROVE  Covers(t, x)
  <2>1. PICK j \in 1 .. Len(s) : At(s, j, x)
    BY Zenon, <1>13 DEF Covers
  <2>2. CASE j < i
    <3>1. j \in 1 .. Len(t)
      BY <1>1, <1>7
    <3> QED  BY Zenon, <1>8, <2>1, <2>2, <3>1 DEF Covers, At
  <2>3. CASE ~(j < i)
    <3>1. j + 1 \in 1 .. Len(t) /\ j + 1 > i /\ (j + 1) - 1 = j
      BY <1>1, <1>3, <1>7, <2>3
    <3>2. t[j + 1] = s[j]
      BY Zenon, <1>8, <3>1
    <3> QED  BY Zenon, <2>1, <3>1, <3>2 DEF Covers, At
  <2> QED  BY Zenon, <2>2, <2>3
<1> QED  BY Zenon, <1>7, <1>8, <1>9, <1>10, <1>11, <1>12, <1>13 DEF Loose

\* Where the place is clear, no byte is free.
LEMMA ClearUncovered ==
  ASSUME NEW s, NEW lo, NEW hi, ListOK(s, lo, hi),
         NEW a \in Nat, NEW n \in Nat, NEW i, Clear(s, i, a, n)
  PROVE  \A x \in Int : a <= x /\ x < a + n => ~Covers(s, x)
<1>1. ASSUME NEW x \in Int, a <= x, x < a + n, NEW j \in 1 .. Len(s), At(s, j, x)
      PROVE  FALSE
  <2>1. /\ j < i => s[j].addr + s[j].len <= a
        /\ j >= i => a + n <= s[j].addr
        /\ i \in 1 .. Len(s) + 1
    BY Zenon DEF Clear
  <2>2. s[j].addr \in Nat /\ s[j].len \in Nat /\ Len(s) \in Nat
    BY Zenon, BlockFacts DEF ListOK
  <2> QED  BY SMTT(30), <1>1, <2>1, <2>2 DEF At
<1> QED  BY Zenon, <1>1 DEF Covers

\* freemem() at a place that is clear adds its bytes to the list.
LEMMA InsertedOK ==
  ASSUME NEW s, NEW lo, NEW hi, ListOK(s, lo, hi), Ends(lo, hi),
         NEW a \in Nat, NEW n \in Nat, n > 0, lo <= a, a + n <= hi, Aligned(a), Aligned(n),
         NEW i, Clear(s, i, a, n)
  PROVE  /\ ListOK(Inserted(s, i, a, n), lo, hi)
         /\ \A x \in Int : Covers(Inserted(s, i, a, n), x) <=>
                            Covers(s, x) \/ (a <= x /\ x < a + n)
<1> DEFINE Result == /\ ListOK(Inserted(s, i, a, n), lo, hi)
                     /\ \A x \in Int : Covers(Inserted(s, i, a, n), x) <=>
                                        Covers(s, x) \/ (a <= x /\ x < a + n)
<1>1. ASSUME Top(s, i) = a
      PROVE  Result
  <2>1. PICK t : t = Grown(s, i, n)
    OBVIOUS
  <2>2. /\ i - 1 \in 1 .. Len(t) /\ Loose(t, i - 1, lo, hi)
        /\ \A x \in Int : Covers(t, x) <=> Covers(s, x) \/ (a <= x /\ x < a + n)
    BY ZenonT(60), <1>1, <2>1, GrownLoose
  <2>3. Inserted(s, i, a, n) = JoinNext(t, i - 1)
    BY Zenon, <1>1, <2>1 DEF Inserted, Grown
  <2>4. /\ ListOK(JoinNext(t, i - 1), lo, hi)
        /\ \A x \in Int : Covers(JoinNext(t, i - 1), x) <=> Covers(t, x)
    BY Zenon, <2>2, JoinNextOK
  <2>5. \A x \in Int : Covers(JoinNext(t, i - 1), x) <=> Covers(s, x) \/ (a <= x /\ x < a + n)
    BY Zenon, <2>2, <2>4
  <2> QED  BY Zenon, <2>3, <2>4, <2>5
<1>2. ASSUME Top(s, i) # a
      PROVE  Result
  <2>1. PICK e, t : e = [addr |-> a, len |-> n] /\ t = InsertAt(s, i, e)
    OBVIOUS
  <2>2. /\ i \in 1 .. Len(t) /\ Loose(t, i, lo, hi)
        /\ \A x \in Int : Covers(t, x) <=> Covers(s, x) \/ (a <= x /\ x < a + n)
    BY <1>2, <2>1, LinkedLoose
  <2>3. Inserted(s, i, a, n) = JoinNext(t, i)
    BY Zenon, <1>2, <2>1 DEF Inserted
  <2>4. /\ ListOK(JoinNext(t, i), lo, hi)
        /\ \A x \in Int : Covers(JoinNext(t, i), x) <=> Covers(t, x)
    BY Zenon, <2>2, JoinNextOK
  <2>5. \A x \in Int : Covers(JoinNext(t, i), x) <=> Covers(s, x) \/ (a <= x /\ x < a + n)
    BY Zenon, <2>2, <2>4
  <2> QED  BY Zenon, <2>3, <2>4, <2>5
<1> QED  BY Zenon, <1>1, <1>2

\* freemem() does not refuse bytes of which none is free.
LEMMA NotRefused ==
  ASSUME NEW s, NEW lo, NEW hi, ListOK(s, lo, hi), Ends(lo, hi),
         NEW a \in Nat, NEW n \in Nat, n > 0, lo <= a, a + n <= hi,
         \A x \in Int : a <= x /\ x < a + n => ~Covers(s, x)
  PROVE  ~Overlaps(s, Place(s, a), a, n)
<1>1. /\ s \in Seq(Block) /\ Len(s) \in Nat /\ Within(s, lo, hi)
      /\ \A j \in 1 .. Len(s) : s[j].addr \in Nat /\ s[j].len \in Nat
  BY Zenon, BlockFacts DEF ListOK
<1>2. lo \in Nat /\ hi \in Nat /\ 0 < lo /\ hi < WORD /\ WORD \in Nat
  BY Zenon, MemoryAssumption DEF Ends
<1>3. PICK i : i = Place(s, a)
  OBVIOUS
<1>4. /\ i \in 1 .. Len(s) + 1
      /\ \A j \in 1 .. Len(s) : j < i => s[j].addr < a
      /\ i \in 1 .. Len(s) => s[i].addr >= a
  BY Zenon, <1>1, <1>3, PlaceFacts
<1>5. ~(Top(s, i) > a)
  <2>1. CASE i = 1
    BY <1>2, <2>1 DEF Top, NULL
  <2>2. CASE i # 1
    <3>1. PICK p \in Int : p = i - 1 /\ p \in 1 .. Len(s) /\ p < i
      BY <1>1, <1>4, <2>2
    <3>2. PICK b \in Nat, l \in Nat : s[p].addr = b /\ s[p].len = l
      BY Zenon, <1>1, <3>1
    <3>3. b < a /\ b + l <= hi
      BY Zenon, <1>1, <1>4, <3>1, <3>2 DEF Within
    <3>4. Top(s, i) = b + l
      <4>1. Plus(b, l) = b + l
        BY <1>2, <3>3, PlusSmall
      <4> QED  BY Zenon, <2>2, <3>1, <3>2, <4>1 DEF Top
    <3>5. ASSUME b + l > a
          PROVE  FALSE
      <4>1. At(s, p, a)
        BY <3>2, <3>3, <3>5 DEF At
      <4>2. a <= a /\ a < a + n /\ a \in Int
        OBVIOUS
      <4> QED  BY Zenon, <3>1, <4>1, <4>2 DEF Covers
    <3> QED  BY Zenon, <3>4, <3>5
  <2> QED  BY Zenon, <2>1, <2>2
<1>6. ASSUME i <= Len(s), Plus(a, n) > s[i].addr
      PROVE  FALSE
  <2>1. i \in 1 .. Len(s)
    BY <1>1, <1>4, <1>6
  <2>2. PICK b \in Nat, l \in Nat : s[i].addr = b /\ s[i].len = l
    BY Zenon, <1>1, <2>1
  <2>3. Plus(a, n) = a + n
    BY <1>2, PlusSmall
  <2>4. b >= a /\ l > 0
    BY Zenon, <1>1, <1>4, <2>1, <2>2 DEF Within
  <2>5. a + n > b
    BY Zenon, <1>6, <2>2, <2>3
  <2>6. a <= b /\ b < a + n /\ b \in Int /\ b <= b /\ b < b + l
    BY <2>4, <2>5
  <2> QED  BY Zenon, <2>1, <2>2, <2>6 DEF Covers, At
<1> QED  BY Zenon, <1>3, <1>5, <1>6 DEF Overlaps

-----------------------------------------------------------------------------
(* Requests, regions and the number of free bytes *)

\* roundmb() of a size that callers ask for does not wrap around.
NoWrap == \A n \in Asked : n + ALIGN <= WORD

\* getmem() rounds a size up to at least one unit.
LEMMA SizeFacts ==
  ASSUME NoWrap, NEW k \in Asked
  PROVE  /\ k \in ulong /\ k \in Nat /\ roundmb(k) \in Nat /\ Aligned(roundmb(k))
         /\ k <= roundmb(k) /\ (k # 0 => roundmb(k) > 0)
         /\ \A y \in Int : Aligned(y) /\ k <= y => roundmb(k) <= y
<1>1. k \in ulong
  <2>1. WORD \in Nat /\ WORD > 0 /\ HEADER \in Nat /\ Request \subseteq ulong
    BY MemoryAssumption
  <2>2. ASSUME NEW n \in Request
        PROVE  Plus(n, HEADER) \in ulong
    <3>1. n \in Nat
      BY <2>1 DEF ulong
    <3> QED  BY <2>1, <3>1 DEF Plus, ulong
  <2> QED  BY Zenon, <2>1, <2>2 DEF Asked
<1>2. k \in Nat
  BY <1>1, MemoryAssumption DEF ulong
<1>3. k + ALIGN <= WORD
  BY Zenon DEF NoWrap
<1>4. /\ roundmb(k) \in Nat /\ Aligned(roundmb(k)) /\ k <= roundmb(k)
      /\ \A y \in Int : Aligned(y) /\ k <= y => roundmb(k) <= y
  BY Zenon, <1>2, <1>3, Rounded
<1>5. k # 0 => roundmb(k) > 0
  BY <1>2, <1>4
<1> QED  BY Zenon, <1>1, <1>2, <1>4, <1>5

\* The ends of a core's region.
LEMMA RegionFacts ==
  ASSUME Room, NEW c \in Core
  PROVE  /\ Ends(base(c), base(c) + bound) /\ base(c) \in Nat /\ bound \in Nat
         /\ Aligned(base(c)) /\ Aligned(base(c) + bound) /\ bound < WORD
         /\ memheap <= base(c) /\ base(c) + bound <= maxaddr
         /\ \A x : x \in Region(c) <=> x \in Int /\ base(c) <= x /\ x < base(c) + bound
<1>1. /\ bound \in Nat /\ Aligned(bound) /\ WORD \in Nat /\ base(c) \in Nat /\ Aligned(base(c))
      /\ memheap <= base(c) /\ 0 < base(c) /\ base(c) + bound <= maxaddr /\ maxaddr < WORD
  BY Zenon, Regions
<1>2. maxaddr \in Int
  BY MemoryAssumption DEF ulong
<1>3. Aligned(base(c) + bound)
  BY <1>1, AlignedSum
<1>4. base(c) + bound < WORD /\ bound < WORD /\ base(c) + bound \in Nat
  BY <1>1, <1>2
<1>5. \A x : x \in Region(c) <=> x \in Int /\ base(c) <= x /\ x < base(c) + bound
  BY <1>1 DEF Region
<1> QED  BY Zenon, <1>1, <1>3, <1>4, <1>5 DEF Ends

\* The regions are disjoint.
LEMMA OneRegion ==
  ASSUME Room, NEW m \in Core, NEW n \in Core, NEW x \in Region(m), x \in Region(n)
  PROVE  m = n
<1>1. /\ base(m) \in Nat /\ base(n) \in Nat /\ bound \in Nat
      /\ x \in Int /\ base(m) <= x /\ x < base(m) + bound /\ base(n) <= x /\ x < base(n) + bound
  BY Zenon, RegionFacts
<1>2. m < n => base(m) + bound <= base(n)
  BY Zenon, Regions
<1>3. n < m => base(n) + bound <= base(m)
  BY Zenon, Regions
<1>4. ~(m < n)
  BY <1>1, <1>2
<1>5. ~(n < m)
  BY <1>1, <1>3
<1>6. m \in Int /\ n \in Int
  BY DEF Core
<1> QED  BY <1>4, <1>5, <1>6

\* freemem() finds the list of the region that holds the address.
LEMMA ListOfOK ==
  ASSUME Room, NEW c \in Core, NEW a \in Region(c)
  PROVE  ListOf(a) = c
<1> DEFINE S == {n \in Core : a >= base(n) /\ a < base(n) + bound} \cup {NCORES}
<1>1. a \in Int /\ base(c) <= a /\ a < base(c) + bound /\ base(c) \in Nat
  BY Zenon, RegionFacts
<1>2. c \in S
  BY Zenon, <1>1
<1>3. S \subseteq Nat /\ S # {}
  BY <1>2, MemoryAssumption DEF Core
<1>4. PICK m : m = ListOf(a)
  OBVIOUS
<1>5. m \in S /\ m <= c
  BY Zenon, <1>2, <1>3, <1>4, MinNat DEF ListOf
<1>6. m # NCORES
  BY <1>5, MemoryAssumption DEF Core
<1>7. m \in Core /\ a >= base(m) /\ a < base(m) + bound
  BY Zenon, <1>5, <1>6
<1>8. base(m) \in Nat
  BY Zenon, <1>7, RegionFacts
<1>9. base(m) <= a
  BY Zenon, <1>1, <1>7, <1>8
<1>10. a \in Region(m)
  BY Zenon, <1>1, <1>7, <1>9, RegionFacts
<1> QED  BY Zenon, <1>4, <1>7, <1>10, OneRegion

\* The free bytes of a region, and how many they are.
FreeSet(s, c) == {x \in Region(c) : Covers(s, x)}

\* The free bytes of a region are finitely many, at most bound.
LEMMA CountFacts ==
  ASSUME Room, NEW c \in Core, NEW s
  PROVE  /\ IsFiniteSet(FreeSet(s, c)) /\ Cardinality(FreeSet(s, c)) \in Nat
         /\ Cardinality(FreeSet(s, c)) <= bound
         /\ Cardinality(Region(c)) = bound
<1>1. base(c) \in Nat /\ bound \in Nat
  BY Zenon, RegionFacts
<1>2. PICK e \in Int : e = base(c) + bound - 1
  BY <1>1
<1>3. Region(c) = base(c) .. e
  BY Zenon, <1>2 DEF Region
<1>4. /\ IsFiniteSet(base(c) .. e)
      /\ Cardinality(base(c) .. e) = IF base(c) > e THEN 0 ELSE e - base(c) + 1
  BY SMTT(30), <1>1, FS_Interval
<1>5. (IF base(c) > e THEN 0 ELSE e - base(c) + 1) = bound
  BY <1>1, <1>2
<1>6. FreeSet(s, c) \in SUBSET Region(c)
  BY Zenon DEF FreeSet
<1>7. IsFiniteSet(FreeSet(s, c)) /\ Cardinality(FreeSet(s, c)) <= Cardinality(Region(c))
  BY Zenon, <1>3, <1>4, <1>6, FS_Subset
<1>8. Cardinality(FreeSet(s, c)) \in Nat
  BY Zenon, <1>7, FS_CardinalityType
<1> QED  BY Zenon, <1>3, <1>4, <1>5, <1>7, <1>8

\* List t covers what s does but for n bytes at a.
Less(s, t, a, n) ==
  /\ \A x \in Int : Covers(t, x) <=> Covers(s, x) /\ ~(a <= x /\ x < a + n)
  /\ \A x \in Int : a <= x /\ x < a + n => Covers(s, x)

\* n bytes taken out of the free ones are n fewer.
LEMMA CountLess ==
  ASSUME Room, NEW c \in Core, NEW s, NEW t, NEW a \in Nat, NEW n \in Nat, n > 0,
         base(c) <= a, a + n <= base(c) + bound, Less(s, t, a, n)
  PROVE  Cardinality(FreeSet(t, c)) = Cardinality(FreeSet(s, c)) - n
<1>1. base(c) \in Nat /\ bound \in Nat
  BY Zenon, RegionFacts
<1>2. PICK e \in Int : e = a + n - 1
  OBVIOUS
<1>3. \A x : x \in a .. e <=> x \in Int /\ a <= x /\ x < a + n
  BY <1>2
<1>4. \A x \in a .. e : x \in Int /\ base(c) <= x /\ x < base(c) + bound
  BY <1>1, <1>3
<1>5. FreeSet(s, c) \cap (a .. e) = a .. e
  <2>1. \A x \in a .. e : x \in Region(c)
    BY Zenon, <1>4, RegionFacts
  <2> QED  BY Zenon, <1>3, <2>1 DEF FreeSet, Less
<1>6. FreeSet(t, c) = FreeSet(s, c) \ (a .. e)
  <2>1. \A x \in Region(c) : x \in Int
    BY Zenon, RegionFacts
  <2> QED  BY Zenon, <1>3, <2>1 DEF FreeSet, Less
<1>7. IsFiniteSet(FreeSet(s, c)) /\ Cardinality(FreeSet(s, c)) \in Nat
  BY Zenon, CountFacts
<1>8. Cardinality(FreeSet(s, c) \ (a .. e)) = Cardinality(FreeSet(s, c)) - Cardinality(FreeSet(s, c) \cap (a .. e))
  BY Zenon, <1>7, FS_Difference
<1>9. Cardinality(a .. e) = IF a > e THEN 0 ELSE e - a + 1
  BY FS_Interval
<1>10. (IF a > e THEN 0 ELSE e - a + 1) = n
  BY <1>2
<1> QED  BY Zenon, <1>5, <1>6, <1>8, <1>9, <1>10

\* The blocks of a free list and the bytes it covers.
LEMMA FreeBytesAre ==
  ASSUME Room, NEW c \in Core, ListOK(freelist[c], base(c), base(c) + bound)
  PROVE  FreeBytes(c) = FreeSet(freelist[c], c)
<1>1. /\ Len(freelist[c]) \in Nat /\ DOMAIN freelist[c] = 1 .. Len(freelist[c])
      /\ \A i \in 1 .. Len(freelist[c]) : freelist[c][i].addr \in Nat /\ freelist[c][i].len \in Nat
  <2>1. freelist[c] \in Seq(Block)
    BY Zenon DEF ListOK
  <2>2. DOMAIN freelist[c] = 1 .. Len(freelist[c])
    BY <2>1
  <2> QED  BY Zenon, <2>1, <2>2, BlockFacts
<1>2. base(c) \in Nat /\ bound \in Nat
  BY Zenon, RegionFacts
<1>3. ASSUME NEW i \in 1 .. Len(freelist[c]), NEW x
      PROVE  x \in freelist[c][i].addr .. freelist[c][i].addr + freelist[c][i].len - 1
               <=> x \in Region(c) /\ At(freelist[c], i, x)
  <2>1. PICK b \in Nat, l \in Nat : freelist[c][i].addr = b /\ freelist[c][i].len = l
    BY Zenon, <1>1
  <2>2. base(c) <= b /\ b + l <= base(c) + bound
    BY Zenon, <2>1 DEF ListOK, Within
  <2>3. x \in b .. b + l - 1 <=> x \in Int /\ (b <= x /\ x < b + l)
    BY <2>1
  <2>4. x \in Int /\ b <= x /\ x < b + l => base(c) <= x /\ x < base(c) + bound
    BY <1>2, <2>1, <2>2
  <2>5. x \in Region(c) <=> x \in Int /\ base(c) <= x /\ x < base(c) + bound
    BY Zenon, RegionFacts
  <2> QED  BY Zenon, <2>1, <2>3, <2>4, <2>5 DEF At
<1> QED  BY Zenon, <1>1, <1>3 DEF FreeBytes, FreeSet, Covers

-----------------------------------------------------------------------------
(* The inductive invariant *)

\* Byte x belongs to a block in use, the bytes of rounding included.
Held(b, x) == b.addr <= x /\ x < b.addr + roundmb(b.size)

\* A block in use is aligned and inside one region.
InRegion(b, n) == base(n) <= b.addr /\ b.addr + roundmb(b.size) <= base(n) + bound
UserOK(b) ==
  /\ b \in [addr : ulong, size : ulong] /\ b.size \in Asked /\ b.size # 0 /\ Aligned(b.addr)
  /\ \E n \in Core : InRegion(b, n)

ListsOK == \A n \in Core : ListOK(freelist[n], base(n), base(n) + bound)
Counted == \A n \in Core : length[n] = Cardinality(FreeSet(freelist[n], n))
Exclusive == \A b, d \in used : b # d => \A x \in Int : ~(Held(b, x) /\ Held(d, x))
Divided ==
  \A n \in Core : \A x \in Region(n) :
    Covers(freelist[n], x) <=> \A b \in used : ~Held(b, x)

MemInv ==
  /\ freelist \in [Core -> Seq(Block)] /\ length \in [Core -> Nat]
  /\ ListsOK /\ Counted
  /\ \A b \in used : UserOK(b)
  /\ Exclusive /\ Divided

\* What is known of a block in use.
LEMMA UserFacts ==
  ASSUME Room, NoWrap, NEW b, UserOK(b), NEW c \in Core, InRegion(b, c)
  PROVE  /\ b.addr \in Nat /\ b.size \in Nat /\ roundmb(b.size) \in Nat /\ roundmb(b.size) > 0
         /\ Aligned(b.addr) /\ Aligned(roundmb(b.size)) /\ b.size <= roundmb(b.size)
         /\ b.addr \in Region(c)
         /\ \A x \in Int : Held(b, x) => x \in Region(c)
<1>1. b.addr \in ulong /\ b.size \in Asked /\ b.size # 0 /\ Aligned(b.addr)
  BY Zenon DEF UserOK
<1>2. b.addr \in Nat
  BY <1>1, MemoryAssumption DEF ulong
<1>3. /\ b.size \in Nat /\ roundmb(b.size) \in Nat /\ roundmb(b.size) > 0
      /\ Aligned(roundmb(b.size)) /\ b.size <= roundmb(b.size)
  BY Zenon, <1>1, SizeFacts
<1>4. base(c) \in Nat /\ bound \in Nat
  BY Zenon, RegionFacts
<1>5. base(c) <= b.addr /\ b.addr + roundmb(b.size) <= base(c) + bound
  BY Zenon DEF InRegion
<1>6. ASSUME NEW x \in Int, b.addr <= x, x < b.addr + roundmb(b.size)
      PROVE  x \in Region(c)
  <2>1. base(c) <= x /\ x < base(c) + bound
    BY <1>2, <1>3, <1>4, <1>5, <1>6
  <2> QED  BY Zenon, <2>1, RegionFacts
<1>7. b.addr \in Int /\ b.addr <= b.addr /\ b.addr < b.addr + roundmb(b.size)
  BY <1>2, <1>3
<1>8. b.addr \in Region(c)
  BY Zenon, <1>6, <1>7
<1> QED  BY Zenon, <1>1, <1>2, <1>3, <1>6, <1>8 DEF Held

\* One list is replaced by a well-formed one and its length kept up.
LEMMA ListReplaced ==
  ASSUME MemInv, NEW c \in Core, NEW t, ListOK(t, base(c), base(c) + bound),
         NEW l \in Nat, l = Cardinality(FreeSet(t, c)),
         freelist' = [freelist EXCEPT ![c] = t], length' = [length EXCEPT ![c] = l]
  PROVE  /\ freelist' \in [Core -> Seq(Block)] /\ length' \in [Core -> Nat]
         /\ ListsOK' /\ Counted'
         /\ freelist'[c] = t /\ \A n \in Core : n # c => freelist'[n] = freelist[n]
<1>1. t \in Seq(Block)
  BY Zenon DEF ListOK
<1>2. freelist \in [Core -> Seq(Block)] /\ length \in [Core -> Nat] /\ ListsOK /\ Counted
  BY Zenon DEF MemInv
<1>3. /\ freelist'[c] = t /\ \A n \in Core : n # c => freelist'[n] = freelist[n]
      /\ length'[c] = l /\ \A n \in Core : n # c => length'[n] = length[n]
  BY Zenon, <1>2
<1>4. freelist' \in [Core -> Seq(Block)] /\ length' \in [Core -> Nat]
  BY Zenon, <1>1, <1>2
<1>5. ASSUME NEW n \in Core
      PROVE  ListOK(freelist'[n], base(n), base(n) + bound)
  BY Zenon, <1>2, <1>3 DEF ListsOK
<1>6. ASSUME NEW n \in Core
      PROVE  length'[n] = Cardinality(FreeSet(freelist'[n], n))
  BY Zenon, <1>2, <1>3 DEF Counted
<1> QED  BY Zenon, <1>3, <1>4, <1>5, <1>6 DEF ListsOK, Counted

\* A call that fails changes nothing.
LEMMA SameHeap ==
  ASSUME MemInv, UNCHANGED <<freelist, length, used>>
  PROVE  MemInv'
<1>1. freelist' = freelist /\ length' = length /\ used' = used
  OBVIOUS
<1>2. ListsOK' /\ Counted' /\ Exclusive' /\ Divided'
  BY Zenon, <1>1 DEF MemInv, ListsOK, Counted, Exclusive, Divided
<1> QED  BY Zenon, <1>1, <1>2 DEF MemInv

-----------------------------------------------------------------------------
(* getmem() *)

\* The block is taken from block i of the list.
Taken(c, k, i) ==
  /\ freelist[c][i].len >= roundmb(k)
  /\ freelist' = [freelist EXCEPT ![c] = Carve(@, i, roundmb(k))]
  /\ length' = [length EXCEPT ![c] = @ - roundmb(k)]
  /\ used' = used \cup {[addr |-> freelist[c][i].addr, size |-> k]}
  /\ call' = <<"get", c, k, freelist[c][i].addr>>

\* No block of the list is large enough.
TooLarge(c, k) == \A i \in 1 .. Len(freelist[c]) : ~(freelist[c][i].len >= roundmb(k))

\* getmem() fails for size 0 or if no block is large enough, and otherwise
\* takes memory from a block that is.
LEMMA GetCases ==
  ASSUME MemInv, NEW c \in Core, NEW k, getmem(c, k)
  PROVE  \/ /\ k = 0 \/ TooLarge(c, k)
            /\ UNCHANGED <<freelist, length, used>> /\ call' = <<"get", c, k, SYSERR>>
         \/ k # 0 /\ \E i \in 1 .. Len(freelist[c]) : Taken(c, k, i)
<1>1. PICK s, n : s = freelist[c] /\ n = roundmb(k)
  OBVIOUS
<1>2. s \in Seq(Block)
  BY Zenon, <1>1 DEF MemInv
<1>3. DOMAIN s = 1 .. Len(s)
  BY <1>2
<1>4. CASE k = 0 \/ Fits(s, n) = {}
  <2>1. UNCHANGED <<freelist, length, used>> /\ call' = <<"get", c, k, SYSERR>>
    BY Zenon, <1>1, <1>4 DEF getmem
  <2>2. Fits(s, n) = {} => TooLarge(c, k)
    BY Zenon, <1>1, <1>3 DEF Fits, TooLarge
  <2> QED  BY Zenon, <1>4, <2>1, <2>2
<1>5. CASE k # 0 /\ Fits(s, n) # {}
  <2>1. PICK i : i = Min(Fits(s, n))
    OBVIOUS
  <2>2. Fits(s, n) \subseteq Nat
    BY <1>3 DEF Fits
  <2>3. i \in Fits(s, n)
    BY Zenon, <1>5, <2>1, <2>2, MinNat
  <2>4. i \in 1 .. Len(s) /\ s[i].len >= n
    BY Zenon, <1>3, <2>3 DEF Fits
  <2>5. /\ freelist' = [freelist EXCEPT ![c] = Carve(@, i, n)]
        /\ length' = [length EXCEPT ![c] = @ - n]
        /\ used' = used \cup {[addr |-> freelist[c][i].addr, size |-> k]}
        /\ call' = <<"get", c, k, freelist[c][i].addr>>
    BY Zenon, <1>1, <1>5, <2>1 DEF getmem
  <2> QED  BY Zenon, <1>1, <1>5, <2>4, <2>5 DEF Taken
<1> QED  BY Zenon, <1>4, <1>5

\* The bytes that getmem() takes are free ones of the caller's region.
LEMMA TakenFacts ==
  ASSUME Room, NoWrap, MemInv, NEW c \in Core, NEW k \in Asked, k # 0,
         NEW i \in 1 .. Len(freelist[c]), Taken(c, k, i),
         NEW a, a = freelist[c][i].addr, NEW n, n = roundmb(k)
  PROVE  /\ a \in Nat /\ a \in ulong /\ n \in Nat /\ n > 0 /\ Aligned(a) /\ Aligned(n)
         /\ base(c) <= a /\ a + n <= base(c) + bound /\ a \in Region(c)
         /\ \A x \in Int : a <= x /\ x < a + n =>
              /\ x \in Region(c) /\ Covers(freelist[c], x)
              /\ \A d \in used : ~Held(d, x)
<1>1. PICK s : s = freelist[c]
  OBVIOUS
<1>2. ListOK(s, base(c), base(c) + bound)
  BY Zenon, <1>1 DEF MemInv, ListsOK
<1>3. n \in Nat /\ Aligned(n) /\ n > 0
  BY Zenon, SizeFacts
<1>4. i \in 1 .. Len(s) /\ s \in Seq(Block) /\ s[i] \in Block
  BY <1>1, <1>2 DEF ListOK
<1>5. PICK l \in Nat : l = s[i].len
  BY Zenon, <1>4, BlockFacts
<1>6. a \in ulong /\ a \in Nat
  <2>1. a \in ulong
    BY Zenon, <1>1, <1>4 DEF Block
  <2> QED  BY <2>1, MemoryAssumption DEF ulong
<1>7. l >= n
  BY Zenon, <1>1, <1>5 DEF Taken
<1>8. base(c) <= a /\ a + l <= base(c) + bound /\ Aligned(a)
  BY Zenon, <1>1, <1>2, <1>4, <1>5 DEF ListOK, Within
<1>9. base(c) \in Nat /\ bound \in Nat
  BY Zenon, RegionFacts
<1>10. a + n <= base(c) + bound
  <2>1. \A h \in Int : a + l <= h => a + n <= h
    BY <1>3, <1>6, <1>7
  <2>2. base(c) + bound \in Int
    BY <1>9
  <2> QED  BY Zenon, <1>8, <2>1, <2>2
<1>11. ASSUME NEW x \in Int, a <= x, x < a + n
       PROVE  x \in Region(c) /\ Covers(s, x)
  <2>1. base(c) <= x /\ x < base(c) + bound
    BY SMTT(30), <1>3, <1>6, <1>8, <1>9, <1>10, <1>11
  <2>2. x \in Region(c)
    BY Zenon, <2>1, RegionFacts
  <2>3. x < a + l
    BY SMTT(30), <1>3, <1>5, <1>6, <1>7, <1>11
  <2> QED  BY ZenonT(60), <1>1, <1>4, <1>5, <1>11, <2>2, <2>3 DEF Covers, At
<1>12. a \in Int /\ a <= a /\ a < a + n
  BY <1>3, <1>6
<1>13. a \in Region(c)
  BY Zenon, <1>11, <1>12
<1>14. Divided
  BY Zenon DEF MemInv
<1> QED  BY ZenonT(60), <1>1, <1>3, <1>6, <1>8, <1>10, <1>11, <1>13, <1>14 DEF Divided

\* getmem() that takes a block keeps the invariant.
LEMMA TakenStep ==
  ASSUME Room, NoWrap, MemInv, NEW c \in Core, NEW k \in Asked, k # 0,
         NEW i \in 1 .. Len(freelist[c]), Taken(c, k, i)
  PROVE  MemInv'
<1>1. PICK s, n, a : s = freelist[c] /\ n = roundmb(k) /\ a = freelist[c][i].addr
  OBVIOUS
<1>2. PICK t : t = Carve(s, i, n)
  OBVIOUS
<1>3. PICK b : b = [addr |-> a, size |-> k]
  OBVIOUS
<1>4. /\ a \in Nat /\ a \in ulong /\ n \in Nat /\ n > 0 /\ Aligned(a) /\ Aligned(n)
      /\ base(c) <= a /\ a + n <= base(c) + bound
      /\ \A x \in Int : a <= x /\ x < a + n =>
           /\ x \in Region(c) /\ Covers(freelist[c], x)
           /\ \A d \in used : ~Held(d, x)
  BY Zenon, <1>1, TakenFacts
<1>5. ListOK(s, base(c), base(c) + bound) /\ Ends(base(c), base(c) + bound)
  BY Zenon, <1>1, RegionFacts DEF MemInv, ListsOK
<1>6. i \in 1 .. Len(s) /\ s[i].len >= n /\ s[i].addr = a
  BY Zenon, <1>1 DEF Taken
<1>7. /\ ListOK(t, base(c), base(c) + bound)
      /\ \A x \in Int : Covers(t, x) <=> Covers(s, x) /\ ~(s[i].addr <= x /\ x < s[i].addr + n)
  BY Zenon, <1>2, <1>4, <1>5, <1>6, CarveOK
<1>8. \A x \in Int : Covers(t, x) <=> Covers(s, x) /\ ~(a <= x /\ x < a + n)
  BY Zenon, <1>6, <1>7
<1>9. \A x \in Int : a <= x /\ x < a + n => Covers(s, x)
  BY Zenon, <1>1, <1>4
<1>10. Cardinality(FreeSet(t, c)) = Cardinality(FreeSet(s, c)) - n
  <2>1. Less(s, t, a, n)
    BY Zenon, <1>8, <1>9 DEF Less
  <2> QED  BY Zenon, <1>4, <2>1, CountLess
<1>11. PICK l \in Nat : l = Cardinality(FreeSet(t, c))
  BY Zenon, CountFacts
<1>12. length[c] - n = l
  BY Zenon, <1>1, <1>10, <1>11 DEF MemInv, Counted
<1>13. freelist' = [freelist EXCEPT ![c] = t] /\ length' = [length EXCEPT ![c] = l]
  BY Zenon, <1>1, <1>2, <1>12 DEF Taken
<1>14. /\ freelist' \in [Core -> Seq(Block)] /\ length' \in [Core -> Nat]
       /\ ListsOK' /\ Counted'
       /\ freelist'[c] = t /\ \A m \in Core : m # c => freelist'[m] = freelist[m]
  BY Zenon, <1>7, <1>11, <1>13, ListReplaced
<1>15. used' = used \cup {b}
  BY Zenon, <1>1, <1>3 DEF Taken
<1>16. b.addr = a /\ b.size = k /\ b \in [addr : ulong, size : ulong]
  <2>1. k \in ulong
    BY Zenon, SizeFacts
  <2> QED  BY Zenon, <1>3, <1>4, <2>1
<1>17. \A x : Held(b, x) <=> a <= x /\ x < a + n
  BY Zenon, <1>1, <1>16 DEF Held
<1>18. UserOK(b)
  BY Zenon, <1>1, <1>4, <1>16 DEF UserOK, InRegion
<1>19. \A d \in used' : UserOK(d)
  BY Zenon, <1>15, <1>18 DEF MemInv
<1>20. \A d \in used : \A x \in Int : ~(Held(b, x) /\ Held(d, x))
  BY Zenon, <1>4, <1>17
<1>21. Exclusive'
  <2>1. ASSUME NEW d \in used', NEW e \in used', d # e, NEW x \in Int
        PROVE  ~(Held(d, x) /\ Held(e, x))
    BY Zenon, <1>15, <1>20, <2>1 DEF MemInv, Exclusive
  <2> QED  BY Zenon, <2>1 DEF Exclusive
<1>22. ASSUME NEW m \in Core, NEW x \in Region(m)
       PROVE  Covers(freelist'[m], x) <=> \A d \in used' : ~Held(d, x)
  <2>1. x \in Int
    BY Zenon, RegionFacts
  <2>2. Covers(freelist[m], x) <=> \A d \in used : ~Held(d, x)
    BY Zenon DEF MemInv, Divided
  <2>3. CASE m = c
    BY ZenonT(60), <1>1, <1>8, <1>14, <1>15, <1>17, <2>1, <2>2, <2>3
  <2>4. CASE m # c
    <3>1. ~Held(b, x)
      BY Zenon, <1>4, <1>17, <2>1, <2>4, OneRegion
    <3> QED  BY Zenon, <1>14, <1>15, <2>2, <2>4, <3>1
  <2> QED  BY Zenon, <2>3, <2>4
<1>23. Divided'
  BY Zenon, <1>22 DEF Divided, Region
<1> QED  BY Zenon, <1>14, <1>19, <1>21, <1>23 DEF MemInv

-----------------------------------------------------------------------------
(* freemem() *)

\* freemem() of a block in use succeeds and keeps the invariant.
LEMMA FreeStep ==
  ASSUME Room, NoWrap, MemInv, NEW b \in used, FreeUsed(b)
  PROVE  MemInv' /\ used' = used \ {b} /\ call' = <<"free", b.addr, b.size, OK>>
<1>1. UserOK(b)
  BY Zenon DEF MemInv
<1>2. PICK c \in Core : InRegion(b, c)
  BY Zenon, <1>1 DEF UserOK
<1>3. PICK s, n, a, i : /\ s = freelist[c] /\ n = roundmb(b.size) /\ a = b.addr
                        /\ i = Place(s, a)
  OBVIOUS
<1>4. PICK t : t = Inserted(s, i, a, n)
  OBVIOUS
<1>5. /\ a \in Nat /\ n \in Nat /\ n > 0 /\ Aligned(a) /\ Aligned(n) /\ a \in Region(c)
      /\ \A x \in Int : Held(b, x) => x \in Region(c)
  BY Zenon, <1>1, <1>2, <1>3, UserFacts
<1>6. base(c) <= a /\ a + n <= base(c) + bound
  BY Zenon, <1>2, <1>3 DEF InRegion
<1>7. \A x : Held(b, x) <=> a <= x /\ x < a + n
  BY Zenon, <1>3 DEF Held
<1>8. ListOK(s, base(c), base(c) + bound) /\ Ends(base(c), base(c) + bound)
  BY Zenon, <1>3, RegionFacts DEF MemInv, ListsOK
<1>9. \A x \in Int : a <= x /\ x < a + n => ~Covers(s, x)
  BY Zenon, <1>3, <1>5, <1>7 DEF MemInv, Divided
<1>10. ~Overlaps(s, Place(s, a), a, n)
  BY Zenon, <1>5, <1>6, <1>8, <1>9, NotRefused
<1>11. ListOf(a) = c
  BY Zenon, <1>5, ListOfOK
<1>12. b.size # 0 /\ ~(a < memheap) /\ ~(a > maxaddr)
  <2>1. /\ base(c) \in Nat /\ bound \in Nat /\ memheap <= base(c)
        /\ base(c) + bound <= maxaddr
    BY Zenon, RegionFacts
  <2>2. memheap \in Int /\ maxaddr \in Int
    BY MemoryAssumption DEF ulong
  <2>3. b.size # 0
    BY Zenon, <1>1 DEF UserOK
  <2>4. ~(a < memheap) /\ ~(a > maxaddr)
    BY <1>5, <1>6, <2>1, <2>2
  <2> QED  BY Zenon, <2>3, <2>4
<1>13. /\ freelist' = [freelist EXCEPT ![c] = Inserted(@, i, a, n)]
       /\ length' = [length EXCEPT ![c] = Plus(@, n)]
       /\ used' = used \ {b}
       /\ call' = <<"free", a, b.size, OK>>
  BY Zenon, <1>3, <1>10, <1>11, <1>12 DEF FreeUsed, freemem
<1>14. Clear(s, i, a, n)
  BY Zenon, <1>3, <1>5, <1>6, <1>8, <1>10, NoOverlaps
<1>15. /\ ListOK(t, base(c), base(c) + bound)
       /\ \A x \in Int : Covers(t, x) <=> Covers(s, x) \/ (a <= x /\ x < a + n)
  BY Zenon, <1>4, <1>5, <1>6, <1>8, <1>14, InsertedOK
<1>16. Cardinality(FreeSet(t, c)) = Cardinality(FreeSet(s, c)) + n
  <2>1. \A x \in Int : Covers(s, x) <=> Covers(t, x) /\ ~(a <= x /\ x < a + n)
    BY Zenon, <1>9, <1>15
  <2>2. \A x \in Int : a <= x /\ x < a + n => Covers(t, x)
    BY Zenon, <1>15
  <2>3. Less(t, s, a, n)
    BY Zenon, <2>1, <2>2 DEF Less
  <2>4. Cardinality(FreeSet(s, c)) = Cardinality(FreeSet(t, c)) - n
    BY Zenon, <1>5, <1>6, <2>3, CountLess
  <2>5. PICK u \in Nat, v \in Nat : u = Cardinality(FreeSet(s, c)) /\ v = Cardinality(FreeSet(t, c))
    BY Zenon, CountFacts
  <2>6. v = u + n
    BY <1>5, <2>4, <2>5
  <2> QED  BY Zenon, <2>5, <2>6
<1>17. PICK l \in Nat : l = Cardinality(FreeSet(t, c)) /\ l <= bound
  BY Zenon, CountFacts
<1>18. Plus(length[c], n) = l
  <2>1. length[c] \in Nat /\ length[c] + n = l
    BY Zenon, <1>3, <1>16, <1>17 DEF MemInv, Counted
  <2>2. bound < WORD /\ bound \in Nat /\ WORD \in Nat
    BY Zenon, RegionFacts, Regions
  <2>3. l < WORD
    BY <1>17, <2>2
  <2> QED  BY Zenon, <1>5, <2>1, <2>3, PlusSmall
<1>19. freelist' = [freelist EXCEPT ![c] = t] /\ length' = [length EXCEPT ![c] = l]
  BY Zenon, <1>3, <1>4, <1>13, <1>18
<1>20. /\ freelist' \in [Core -> Seq(Block)] /\ length' \in [Core -> Nat]
       /\ ListsOK' /\ Counted'
       /\ freelist'[c] = t /\ \A m \in Core : m # c => freelist'[m] = freelist[m]
  BY Zenon, <1>15, <1>17, <1>19, ListReplaced
<1>21. \A d \in used' : UserOK(d)
  BY Zenon, <1>13 DEF MemInv
<1>22. Exclusive'
  BY Zenon, <1>13 DEF MemInv, Exclusive
<1>23. ASSUME NEW m \in Core, NEW x \in Region(m)
       PROVE  Covers(freelist'[m], x) <=> \A d \in used' : ~Held(d, x)
  <2>1. x \in Int
    BY Zenon, RegionFacts
  <2>2. Covers(freelist[m], x) <=> \A d \in used : ~Held(d, x)
    BY Zenon DEF MemInv, Divided
  <2>3. CASE Held(b, x)
    <3>1. m = c
      BY Zenon, <1>5, <2>1, <2>3, OneRegion
    <3>2. Covers(freelist'[m], x)
      BY Zenon, <1>7, <1>15, <1>20, <2>1, <2>3, <3>1
    <3>3. \A d \in used' : ~Held(d, x)
      BY Zenon, <1>13, <2>1, <2>3 DEF MemInv, Exclusive
    <3> QED  BY Zenon, <3>2, <3>3
  <2>4. CASE ~Held(b, x)
    <3>1. Covers(freelist'[m], x) <=> Covers(freelist[m], x)
      BY Zenon, <1>3, <1>7, <1>15, <1>20, <2>1, <2>4
    <3> QED  BY Zenon, <1>13, <2>2, <2>4, <3>1
  <2> QED  BY Zenon, <2>3, <2>4
<1>24. Divided'
  BY Zenon, <1>23 DEF Divided, Region
<1>25. MemInv'
  BY Zenon, <1>20, <1>21, <1>22, <1>24 DEF MemInv
<1> QED  BY Zenon, <1>3, <1>13, <1>25

\* freemem() of memory that is free is refused.
LEMMA AgainRefused ==
  ASSUME Room, NoWrap, MemInv, NEW c \in Core, NEW j \in DOMAIN freelist[c],
         NEW a \in freelist[c][j].addr .. freelist[c][j].addr + freelist[c][j].len - 1,
         NEW k \in Request, FreeAgain(c, j, a, k)
  PROVE  /\ UNCHANGED <<freelist, length, used>> /\ call' = <<"free", a, k, SYSERR>>
         /\ a \in Region(c) /\ k \in Asked /\ [addr |-> a, size |-> k] \notin used
<1>1. PICK s, n : s = freelist[c] /\ n = roundmb(k)
  OBVIOUS
<1>2. ListOK(s, base(c), base(c) + bound) /\ Ends(base(c), base(c) + bound)
  BY Zenon, <1>1, RegionFacts DEF MemInv, ListsOK
<1>3. s \in Seq(Block) /\ j \in 1 .. Len(s)
  BY <1>1, <1>2 DEF ListOK
<1>4. PICK b \in Nat, l \in Nat : s[j].addr = b /\ s[j].len = l
  BY Zenon, <1>3, BlockFacts
<1>5. base(c) <= b /\ b + l <= base(c) + bound /\ Aligned(b) /\ Aligned(l)
  BY Zenon, <1>2, <1>3, <1>4 DEF ListOK, Within
<1>6. a \in b .. b + l - 1
  BY Zenon, <1>1, <1>4
<1>7. base(c) \in Nat /\ bound \in Nat
  BY Zenon, RegionFacts
<1>8. a \in Nat /\ b <= a /\ a < b + l /\ base(c) <= a /\ a < base(c) + bound
  BY <1>4, <1>5, <1>6, <1>7
<1>9. a \in Region(c)
  <2>1. a \in Int
    BY <1>8
  <2> QED  BY Zenon, <1>8, <2>1, RegionFacts
<1>10. Covers(s, a)
  BY Zenon, <1>3, <1>4, <1>8 DEF Covers, At
<1>11. k \in Asked
  BY Zenon DEF Asked
<1>12. k \in Nat /\ n \in Nat /\ Aligned(n) /\ (k # 0 => n > 0)
       /\ \A y \in Int : Aligned(y) /\ k <= y => n <= y
  BY Zenon, <1>1, <1>11, SizeFacts
<1>13. Aligned(a) /\ a + k <= b + l
  BY Zenon, <1>1, <1>4 DEF FreeAgain, Aligned
<1>14. ASSUME k # 0
       PROVE  Overlaps(s, Place(s, a), a, n)
  <2>1. PICK y \in Int : y = (b + l) - a
    BY <1>8
  <2>2. Aligned(b + l) /\ b + l \in Int /\ a \in Int
    BY <1>5, <1>8, AlignedSum
  <2>3. Aligned(y)
    BY Zenon, <1>13, <2>1, <2>2, AlignedSum
  <2>4. k <= y
    BY <1>8, <1>12, <1>13, <2>1
  <2>5. n <= y
    BY Zenon, <1>12, <2>3, <2>4
  <2>6. a + n <= b + l
    BY <1>8, <1>12, <2>1, <2>5
  <2>7. a + n <= base(c) + bound
    BY <1>5, <1>7, <1>8, <1>12, <2>6
  <2>8. ASSUME ~Overlaps(s, Place(s, a), a, n)
        PROVE  FALSE
    <3>1. PICK i : i = Place(s, a)
      OBVIOUS
    <3>2. n > 0
      BY Zenon, <1>12, <1>14
    <3>3. Clear(s, i, a, n)
      BY ZenonT(60), <1>2, <1>8, <1>12, <2>7, <2>8, <3>1, <3>2, NoOverlaps
    <3>4. \A x \in Int : a <= x /\ x < a + n => ~Covers(s, x)
      BY Zenon, <1>2, <1>8, <1>12, <3>3, ClearUncovered
    <3>5. a \in Int /\ a <= a /\ a < a + n
      BY <1>8, <1>12, <3>2
    <3> QED  BY Zenon, <1>10, <3>4, <3>5
  <2> QED  BY Zenon, <2>8
<1>15. ListOf(a) = c
  BY Zenon, <1>9, ListOfOK
<1>16. UNCHANGED <<freelist, length, used>> /\ call' = <<"free", a, k, SYSERR>>
  BY Zenon, <1>1, <1>14, <1>15 DEF FreeAgain, freemem
<1>17. ASSUME [addr |-> a, size |-> k] \in used
       PROVE  FALSE
  <2>1. PICK d : d = [addr |-> a, size |-> k]
    OBVIOUS
  <2>2. d \in used /\ d.addr = a /\ d.size = k
    BY Zenon, <1>17, <2>1
  <2>3. k # 0
    BY Zenon, <2>2 DEF MemInv, UserOK
  <2>4. a <= a /\ a < a + n
    BY <1>8, <1>12, <2>3
  <2>5. Held(d, a)
    BY Zenon, <1>1, <2>2, <2>4 DEF Held
  <2> QED  BY Zenon, <1>1, <1>9, <1>10, <2>2, <2>5 DEF MemInv, Divided
<1> QED  BY Zenon, <1>9, <1>11, <1>16, <1>17

-----------------------------------------------------------------------------
(* The invariant holds *)

\* sysinit(): every region is one free block.
LEMMA MemInit ==
  ASSUME Room, Init
  PROVE  MemInv
<1>1. ASSUME NEW c \in Core, NEW s, s = <<[addr |-> base(c), len |-> bound]>>
      PROVE  /\ s \in Seq(Block) /\ ListOK(s, base(c), base(c) + bound)
             /\ \A x \in Region(c) : Covers(s, x)
  <2>1. /\ base(c) \in Nat /\ bound \in Nat /\ Aligned(base(c)) /\ bound < WORD
        /\ Ends(base(c), base(c) + bound)
    BY Zenon, RegionFacts
  <2>2. Aligned(bound) /\ WORD \in Nat
    BY Zenon, Regions
  <2>3. base(c) + bound < WORD /\ bound > 0
    BY Zenon, <2>1 DEF Ends, Room
  <2>4. PICK b : b = [addr |-> base(c), len |-> bound]
    OBVIOUS
  <2>5. b \in Block /\ b.addr = base(c) /\ b.len = bound
    BY <2>1, <2>2, <2>3, <2>4, MakeBlock
  <2>6. s \in Seq(Block) /\ Len(s) = 1 /\ s[1] = b
    BY <1>1, <2>4, <2>5
  <2>7. \A i \in 1 .. Len(s) : i = 1
    BY <2>6
  <2>8. base(c) <= base(c) /\ base(c) + bound <= base(c) + bound
    BY <2>1
  <2>9. Within(s, base(c), base(c) + bound)
    BY Zenon, <2>1, <2>2, <2>3, <2>5, <2>6, <2>7, <2>8 DEF Within
  <2>10. Sorted(s)
    BY <2>6 DEF Sorted
  <2>11. 1 \in 1 .. Len(s)
    BY <2>6
  <2>12. \A x \in Region(c) : base(c) <= x /\ x < base(c) + bound
    BY Zenon, RegionFacts
  <2>13. \A x \in Region(c) : Covers(s, x)
    BY Zenon, <2>5, <2>6, <2>11, <2>12 DEF Covers, At
  <2> QED  BY Zenon, <2>6, <2>9, <2>10, <2>13 DEF ListOK
<1>2. \A c \in Core : freelist[c] = <<[addr |-> base(c), len |-> bound]>> /\ length[c] = bound
  BY Zenon DEF Init
<1>3. \A c \in Core : /\ freelist[c] \in Seq(Block)
                      /\ ListOK(freelist[c], base(c), base(c) + bound)
                      /\ \A x \in Region(c) : Covers(freelist[c], x)
  BY Zenon, <1>1, <1>2
<1>4. freelist \in [Core -> Seq(Block)]
  BY Zenon, <1>3 DEF Init
<1>5. length \in [Core -> Nat]
  <2>1. bound \in Nat
    BY Zenon, Regions
  <2> QED  BY Zenon, <2>1 DEF Init
<1>6. Counted
  <2>1. ASSUME NEW c \in Core
        PROVE  length[c] = Cardinality(FreeSet(freelist[c], c))
    <3>1. FreeSet(freelist[c], c) = Region(c)
      BY Zenon, <1>3 DEF FreeSet
    <3>2. Cardinality(Region(c)) = bound
      BY Zenon, CountFacts
    <3> QED  BY Zenon, <1>2, <3>1, <3>2
  <2> QED  BY Zenon, <2>1 DEF Counted
<1> QED  BY Zenon, <1>3, <1>4, <1>5, <1>6 DEF MemInv, ListsOK, Exclusive, Divided, Init

\* getmem(), also as malloc() calls it, keeps the invariant.
LEMMA GetStep ==
  ASSUME Room, NoWrap, MemInv, NEW c \in Core, NEW k \in Asked, getmem(c, k)
  PROVE  MemInv'
<1>1. CASE UNCHANGED <<freelist, length, used>>
  BY Zenon, <1>1, SameHeap
<1>2. CASE k # 0 /\ \E i \in 1 .. Len(freelist[c]) : Taken(c, k, i)
  BY Zenon, <1>2, TakenStep
<1> QED  BY Zenon, <1>1, <1>2, GetCases

\* Every step keeps the invariant.
LEMMA MemNext ==
  ASSUME Room, NoWrap, MemInv, [Next]_vars
  PROVE  MemInv'
<1>1. CASE UNCHANGED vars
  BY Zenon, <1>1, SameHeap DEF vars
<1>2. ASSUME NEW c \in Core, NEW n \in Request, getmem(c, n) \/ malloc(c, n)
      PROVE  MemInv'
  BY Zenon, <1>2, GetStep DEF malloc, Asked
<1>3. ASSUME NEW b \in used, FreeUsed(b)
      PROVE  MemInv'
  BY Zenon, <1>3, FreeStep
<1>4. ASSUME NEW c \in Core, NEW i \in DOMAIN freelist[c],
             NEW a \in freelist[c][i].addr .. freelist[c][i].addr + freelist[c][i].len - 1,
             NEW n \in Request, FreeAgain(c, i, a, n)
      PROVE  MemInv'
  BY Zenon, <1>4, AgainRefused, SameHeap
<1> QED  BY Zenon, <1>1, <1>2, <1>3, <1>4 DEF Next

\* The invariant holds in every reachable state.
LEMMA MemInvariant ==
  ASSUME Room, NoWrap
  PROVE  Spec => []MemInv
<1>1. Init => MemInv
  BY Zenon, MemInit
<1>2. MemInv /\ [Next]_vars => MemInv'
  BY Zenon, MemNext
<1> QED  BY Zenon, <1>1, <1>2, PTL DEF Spec

\* The bytes of a block in use, as sets.
LEMMA UserBytes ==
  ASSUME Room, NoWrap, NEW b, UserOK(b), NEW x
  PROVE  /\ x \in b.addr .. b.addr + roundmb(b.size) - 1 <=> x \in Int /\ Held(b, x)
         /\ x \in UsedBytes(b) => x \in Int /\ Held(b, x)
<1>1. PICK c \in Core : InRegion(b, c)
  BY Zenon DEF UserOK
<1>2. PICK a \in Nat, k \in Nat, n \in Nat : a = b.addr /\ k = b.size /\ n = roundmb(b.size) /\ k <= n
  BY Zenon, <1>1, UserFacts
<1>3. x \in a .. a + n - 1 <=> x \in Int /\ (a <= x /\ x < a + n)
  OBVIOUS
<1>4. x \in a .. a + k - 1 => x \in Int /\ a <= x /\ x < a + n
  BY <1>2
<1> QED  BY Zenon, <1>2, <1>3, <1>4 DEF Held, UsedBytes

\* The invariant implies the four parts of HeapDivided.
LEMMA HeapFollows ==
  ASSUME Room, NoWrap, MemInv
  PROVE  HeapDivided
<1>1. ASSUME NEW c \in Core
      PROVE  /\ ListOK(freelist[c], base(c), base(c) + bound)
             /\ FreeBytes(c) = FreeSet(freelist[c], c)
             /\ length[c] = Cardinality(FreeSet(freelist[c], c))
  <2>1. ListOK(freelist[c], base(c), base(c) + bound)
    BY Zenon DEF MemInv, ListsOK
  <2>2. FreeBytes(c) = FreeSet(freelist[c], c)
    BY Zenon, <2>1, FreeBytesAre
  <2> QED  BY Zenon, <2>1, <2>2 DEF MemInv, Counted
<1>2. TypeOK
  <2>1. ASSUME NEW c \in Core
        PROVE  length[c] \in ulong
    <3>1. PICK l \in Nat : l = length[c] /\ l <= bound
      BY Zenon, <1>1, CountFacts
    <3>2. bound \in Nat /\ bound < WORD /\ WORD \in Nat
      BY Zenon, RegionFacts, Regions
    <3>3. l \in ulong
      BY <3>1, <3>2 DEF ulong
    <3> QED  BY Zenon, <3>1, <3>3
  <2>2. length \in [Core -> ulong]
    BY Zenon, <2>1 DEF MemInv
  <2>3. used \subseteq [addr : ulong, size : ulong]
    BY Zenon DEF MemInv, UserOK
  <2> QED  BY Zenon, <2>2, <2>3 DEF MemInv, TypeOK
<1>3. ListWellFormed
  <2>1. ASSUME NEW c \in Core, NEW i \in DOMAIN freelist[c], NEW d, d = freelist[c][i]
        PROVE  /\ d.addr % ALIGN = 0 /\ d.len % ALIGN = 0 /\ d.len > 0
               /\ d.addr .. d.addr + d.len - 1 \subseteq Region(c)
               /\ i < Len(freelist[c]) => d.addr + d.len < freelist[c][i + 1].addr
    <3>1. ListOK(freelist[c], base(c), base(c) + bound)
      BY Zenon, <1>1
    <3>2. i \in 1 .. Len(freelist[c]) /\ freelist[c] \in Seq(Block) /\ Len(freelist[c]) \in Nat
      BY <3>1 DEF ListOK
    <3>3. d.addr % ALIGN = 0 /\ d.len % ALIGN = 0 /\ d.len > 0
      BY Zenon, <2>1, <3>1, <3>2 DEF ListOK, Within, Aligned
    <3>4. d.addr .. d.addr + d.len - 1 \subseteq Region(c)
      BY Zenon, <1>1, <2>1 DEF FreeBytes, FreeSet
    <3>5. ASSUME i < Len(freelist[c])
          PROVE  d.addr + d.len < freelist[c][i + 1].addr
      <4>1. i + 1 \in 1 .. Len(freelist[c]) /\ i < i + 1
        BY <3>2, <3>5
      <4> QED  BY Zenon, <2>1, <3>1, <3>2, <4>1 DEF ListOK, Sorted
    <3> QED  BY Zenon, <3>3, <3>4, <3>5
  <2> QED  BY Zenon, <2>1 DEF ListWellFormed
<1>4. \A b \in used : UserOK(b)
  BY Zenon DEF MemInv
<1>5. NoOverlap
  <2>1. ASSUME NEW b \in used
        PROVE  \E c \in Core : UsedBytes(b) \subseteq Region(c) \ FreeBytes(c)
    <3>1. PICK c \in Core : InRegion(b, c)
      BY Zenon, <1>4 DEF UserOK
    <3>2. ASSUME NEW x \in UsedBytes(b)
          PROVE  x \in Region(c) /\ x \notin FreeBytes(c)
      <4>1. x \in Int /\ Held(b, x)
        BY Zenon, <1>4, UserBytes
      <4>2. x \in Region(c)
        BY Zenon, <1>4, <3>1, <4>1, UserFacts
      <4>3. ~Covers(freelist[c], x)
        BY Zenon, <4>1, <4>2 DEF MemInv, Divided
      <4> QED  BY Zenon, <1>1, <4>2, <4>3 DEF FreeSet
    <3> QED  BY Zenon, <3>2
  <2>2. ASSUME NEW b \in used, NEW d \in used, b # d
        PROVE  UsedBytes(b) \cap UsedBytes(d) = {}
    <3>1. ASSUME NEW x, x \in UsedBytes(b), x \in UsedBytes(d)
          PROVE  FALSE
      <4>1. x \in Int /\ Held(b, x)
        BY Zenon, <1>4, <3>1, UserBytes
      <4>2. Held(d, x)
        BY Zenon, <1>4, <3>1, UserBytes
      <4> QED  BY Zenon, <2>2, <4>1, <4>2 DEF MemInv, Exclusive
    <3> QED  BY Zenon, <3>1
  <2> QED  BY Zenon, <2>1, <2>2 DEF NoOverlap
<1>6. NothingLost
  <2>1. ASSUME NEW c \in Core, NEW x
        PROVE  x \in Region(c) <=> \/ x \in FreeBytes(c)
                                   \/ \E b \in {d \in used : ListOf(d.addr) = c} :
                                       x \in b.addr .. b.addr + roundmb(b.size) - 1
    <3>1. ASSUME x \in Region(c), x \notin FreeBytes(c)
          PROVE  \E b \in {d \in used : ListOf(d.addr) = c} :
                   x \in b.addr .. b.addr + roundmb(b.size) - 1
      <4>1. PICK b \in used : Held(b, x)
        BY Zenon, <1>1, <3>1 DEF MemInv, Divided, FreeSet
      <4>2. PICK m \in Core : InRegion(b, m)
        BY Zenon, <1>4 DEF UserOK
      <4>3. x \in Int
        BY Zenon, <3>1, RegionFacts
      <4>4. x \in Region(m) /\ b.addr \in Region(m)
        BY Zenon, <1>4, <4>1, <4>2, <4>3, UserFacts
      <4>5. m = c
        BY Zenon, <3>1, <4>4, OneRegion
      <4>6. ListOf(b.addr) = c
        BY Zenon, <4>4, <4>5, ListOfOK
      <4>7. x \in b.addr .. b.addr + roundmb(b.size) - 1
        BY Zenon, <1>4, <4>1, <4>3, UserBytes
      <4> QED  BY Zenon, <4>6, <4>7
    <3>2. ASSUME NEW b \in used, ListOf(b.addr) = c, x \in b.addr .. b.addr + roundmb(b.size) - 1
          PROVE  x \in Region(c)
      <4>1. PICK m \in Core : InRegion(b, m)
        BY Zenon, <1>4 DEF UserOK
      <4>2. b.addr \in Region(m)
        BY Zenon, <1>4, <4>1, UserFacts
      <4>3. m = c
        BY Zenon, <3>2, <4>2, ListOfOK
      <4>4. x \in Int /\ Held(b, x)
        BY Zenon, <1>4, <3>2, UserBytes
      <4> QED  BY Zenon, <1>4, <4>1, <4>3, <4>4, UserFacts
    <3>3. x \in FreeBytes(c) => x \in Region(c)
      BY Zenon, <1>1 DEF FreeSet
    <3> QED  BY Zenon, <3>1, <3>2, <3>3
  <2>2. ASSUME NEW c \in Core
        PROVE  Region(c) = FreeBytes(c) \cup
                 UNION {b.addr .. b.addr + roundmb(b.size) - 1 : b \in {d \in used : ListOf(d.addr) = c}}
    <3> DEFINE inuse == {d \in used : ListOf(d.addr) = c}
               bytes(b) == b.addr .. b.addr + roundmb(b.size) - 1
    <3>1. \A x : x \in Region(c) <=> x \in FreeBytes(c) \/ \E b \in inuse : x \in bytes(b)
      BY Zenon, <2>1
    <3> HIDE DEF inuse, bytes
    <3>2. Region(c) = FreeBytes(c) \cup UNION {bytes(b) : b \in inuse}
      BY Zenon, <3>1
    <3> QED  BY Zenon, <3>2 DEF inuse, bytes
  <2>3. \A c \in Core : length[c] = Cardinality(FreeBytes(c))
    BY Zenon, <1>1
  <2> QED  BY Zenon, <2>2, <2>3 DEF NothingLost
<1> QED  BY Zenon, <1>2, <1>3, <1>5, <1>6 DEF HeapDivided

\* After any sequence of getmem(), freemem(), malloc() and free() the free
\* blocks and the blocks in use divide every region between them, no byte is
\* lost or in two of them, and the free lists are sorted and joined: for any
\* number of cores and any heap with room for a unit per core.
THEOREM HeapDividedHolds ==
  ASSUME Room, NoWrap
  PROVE  Spec => []HeapDivided
<1>1. MemInv => HeapDivided
  BY Zenon, HeapFollows
<1> QED  BY Zenon, <1>1, MemInvariant, PTL

-----------------------------------------------------------------------------
(* The abstract heap *)

\* A free stretch lies inside one free block: neighbours have been joined.
LEMMA Stretch ==
  ASSUME NEW s, NEW lo, NEW hi, ListOK(s, lo, hi), NEW a \in Int, NEW n \in Nat, n > 0,
         \A x \in Int : a <= x /\ x < a + n => Covers(s, x)
  PROVE  \E i \in 1 .. Len(s) : s[i].len >= n
<1>1. /\ s \in Seq(Block) /\ Len(s) \in Nat /\ Sorted(s)
      /\ \A j \in 1 .. Len(s) : s[j].addr \in Nat /\ s[j].len \in Nat
  BY Zenon, BlockFacts DEF ListOK
<1>2. a <= a /\ a < a + n
  OBVIOUS
<1>3. PICK i \in 1 .. Len(s) : At(s, i, a)
  BY Zenon, <1>2 DEF Covers
<1>4. PICK b \in Nat, l \in Nat : s[i].addr = b /\ s[i].len = l
  BY Zenon, <1>1
<1>5. b <= a /\ a < b + l
  BY Zenon, <1>3, <1>4 DEF At
<1>6. ASSUME b + l < a + n
      PROVE  FALSE
  <2>1. PICK x \in Int : x = b + l
    OBVIOUS
  <2>2. a <= x /\ x < a + n
    BY <1>4, <1>5, <1>6, <2>1
  <2>3. PICK j \in 1 .. Len(s) : At(s, j, x)
    BY Zenon, <2>2 DEF Covers
  <2>4. PICK d \in Nat, m \in Nat : s[j].addr = d /\ s[j].len = m
    BY Zenon, <1>1
  <2>5. d <= x /\ x < d + m
    BY Zenon, <2>3, <2>4 DEF At
  <2>6. i < j => b + l < d
    BY Zenon, <1>1, <1>4, <2>4 DEF Sorted
  <2>7. j < i => d + m < b
    BY Zenon, <1>1, <1>4, <2>4 DEF Sorted
  <2>8. ~(i < j)
    BY <2>1, <2>5, <2>6
  <2>9. ~(j < i)
    BY <1>4, <2>1, <2>4, <2>5, <2>7
  <2>10. i = j
    BY <1>1, <2>8, <2>9
  <2>11. b = d /\ l = m
    BY Zenon, <1>4, <2>4, <2>10
  <2> QED  BY <2>1, <2>5, <2>11
<1>7. l >= n
  BY <1>4, <1>5, <1>6
<1> QED  BY Zenon, <1>4, <1>7

\* getmem() is Allocate or Fail.
LEMMA GetImplements ==
  ASSUME Room, NoWrap, MemInv, NEW c \in Core, NEW k \in Asked, getmem(c, k)
  PROVE  Heap!Allocate(c, k) \/ Heap!Fail(c, k)
<1>1. ASSUME k # 0, NEW i \in 1 .. Len(freelist[c]), Taken(c, k, i)
      PROVE  Heap!Allocate(c, k)
  <2>1. PICK a, n : a = freelist[c][i].addr /\ n = roundmb(k)
    OBVIOUS
  <2>2. /\ a \in Nat /\ n \in Nat /\ Aligned(a) /\ a \in Region(c)
        /\ \A x \in Int : a <= x /\ x < a + n =>
             /\ x \in Region(c) /\ Covers(freelist[c], x)
             /\ \A d \in used : ~Held(d, x)
    BY Zenon, <1>1, <2>1, TakenFacts
  <2>3. \A x \in a .. a + n - 1 : x \in Int /\ a <= x /\ x < a + n
    BY <2>2
  <2>4. \A d \in used : (d.addr .. d.addr + roundmb(d.size) - 1) \cap (a .. a + n - 1) = {}
    BY Zenon, <2>2, <2>3, UserBytes DEF MemInv
  <2>5. Heap!Gap(c, a, n)
    BY Zenon, <2>2, <2>3, <2>4 DEF Heap!Gap, Aligned
  <2>6. used' = used \cup {[addr |-> a, size |-> k]} /\ call' = <<"get", c, k, a>>
    BY Zenon, <1>1, <2>1 DEF Taken
  <2> QED  BY Zenon, <1>1, <2>1, <2>2, <2>5, <2>6 DEF Heap!Allocate
<1>2. ASSUME k # 0, TooLarge(c, k), NEW a \in Region(c), Heap!Gap(c, a, roundmb(k))
      PROVE  FALSE
  <2>1. PICK s, n : s = freelist[c] /\ n = roundmb(k)
    OBVIOUS
  <2>2. n \in Nat /\ n > 0
    BY Zenon, <1>2, <2>1, SizeFacts
  <2>3. a \in Int
    BY Zenon, RegionFacts
  <2>4. /\ a .. a + n - 1 \subseteq Region(c)
        /\ \A b \in used : (b.addr .. b.addr + roundmb(b.size) - 1) \cap (a .. a + n - 1) = {}
    BY Zenon, <1>2, <2>1 DEF Heap!Gap
  <2>5. ASSUME NEW x \in Int, a <= x, x < a + n
        PROVE  Covers(s, x)
    <3>1. x \in a .. a + n - 1
      BY <2>2, <2>3, <2>5
    <3>2. \A b \in used : ~Held(b, x)
      BY Zenon, <2>4, <3>1, UserBytes DEF MemInv
    <3> QED  BY Zenon, <2>1, <2>4, <3>1, <3>2 DEF MemInv, Divided
  <2>6. ListOK(s, base(c), base(c) + bound)
    BY Zenon, <2>1 DEF MemInv, ListsOK
  <2>7. \E i \in 1 .. Len(s) : s[i].len >= n
    BY Zenon, <2>2, <2>3, <2>5, <2>6, Stretch
  <2> QED  BY Zenon, <1>2, <2>1, <2>7 DEF TooLarge
<1>3. ASSUME k = 0 \/ TooLarge(c, k), UNCHANGED <<freelist, length, used>>,
             call' = <<"get", c, k, SYSERR>>
      PROVE  Heap!Fail(c, k)
  <2>1. used' = used
    BY Zenon, <1>3
  <2> QED  BY Zenon, <1>2, <1>3, <2>1 DEF Heap!Fail
<1> QED  BY Zenon, <1>1, <1>3, GetCases

\* Every step is a step of the abstract heap or leaves it unchanged.
LEMMA HeapStep ==
  ASSUME Room, NoWrap, MemInv, [Next]_vars
  PROVE  [Heap!Next]_(Heap!allocvars)
<1>1. CASE UNCHANGED vars
  BY Zenon, <1>1 DEF vars, Heap!allocvars
<1>2. ASSUME NEW c \in Core, NEW n \in Request, getmem(c, n) \/ malloc(c, n)
      PROVE  Heap!Next
  <2>1. PICK k \in Asked : getmem(c, k)
    BY Zenon, <1>2 DEF malloc, Asked
  <2> QED  BY Zenon, <2>1, GetImplements DEF Heap!Next
<1>3. ASSUME NEW b \in used, FreeUsed(b)
      PROVE  Heap!Next
  <2>1. Heap!Free(b)
    BY Zenon, <1>3, FreeStep DEF Heap!Free
  <2> QED  BY Zenon, <2>1 DEF Heap!Next
<1>4. ASSUME NEW c \in Core, NEW i \in DOMAIN freelist[c],
             NEW a \in freelist[c][i].addr .. freelist[c][i].addr + freelist[c][i].len - 1,
             NEW n \in Request, FreeAgain(c, i, a, n)
      PROVE  Heap!Next
  <2>1. /\ UNCHANGED <<freelist, length, used>> /\ call' = <<"free", a, n, SYSERR>>
        /\ a \in Region(c) /\ n \in Asked /\ [addr |-> a, size |-> n] \notin used
    BY Zenon, <1>4, AgainRefused
  <2>2. used' = used
    BY Zenon, <2>1
  <2>3. Heap!Refuse(a, n)
    BY Zenon, <2>1, <2>2 DEF Heap!Refuse
  <2> QED  BY Zenon, <2>1, <2>3 DEF Heap!Next
<1> QED  BY Zenon, <1>1, <1>2, <1>3, <1>4 DEF Next

\* First fit with joining implements the abstract heap: getmem() fails only
\* if the region has no free stretch of the size, freemem() of a block that
\* was handed out succeeds, and freemem() of free memory changes nothing.
THEOREM ImplementsHeapHolds ==
  ASSUME Room, NoWrap
  PROVE  Spec => ImplementsHeap
<1>1. Init => Heap!Init
  BY Zenon DEF Init, Heap!Init
<1>2. MemInv /\ [Next]_vars => [Heap!Next]_(Heap!allocvars)
  BY Zenon, HeapStep
<1> QED  BY Zenon, <1>1, <1>2, MemInvariant, PTL DEF Spec, ImplementsHeap, Heap!Spec
=============================================================================
