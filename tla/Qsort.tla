------------------------------- MODULE Qsort -------------------------------
(***************************************************************************)
(* lib/libxc/qsort.c.  An array is a sequence, a pointer into it an index; *)
(* base is the index of the first element of the part being sorted.        *)
(* compar is the comparison callback as a function of two elements.        *)
(***************************************************************************)
EXTENDS Integers, Sequences

(* swap_elements, byte by byte in the code *)
Swap(a, i, j) == [a EXCEPT ![i] = a[j], ![j] = a[i]]

(* The do-while of partition(): [p1, p2) is what has not been compared with *)
(* the pivot at base.  The element that comes back from p2 is compared next.*)
RECURSIVE PartitionLoop(_, _, _, _, _)
PartitionLoop(a, base, p1, p2, compar) ==
    LET keep == compar[a[p1], a[base]] <= 0
        b == IF keep THEN a ELSE Swap(a, p1, p2 - 1)
        q1 == IF keep THEN p1 + 1 ELSE p1
        q2 == IF keep THEN p2 ELSE p2 - 1
    IN  IF q1 = q2 THEN [a |-> b, p |-> q1]
        ELSE PartitionLoop(b, base, q1, q2, compar)

(* Called with two elements or more; .p is the index of the pivot. *)
partition(a, base, nmemb, compar) ==
    LET l == PartitionLoop(a, base, base + 1, base + nmemb, compar)
    IN  [a |-> Swap(l.a, l.p - 1, base), p |-> l.p - 1]

RECURSIVE qsort(_, _, _, _)
qsort(a, base, nmemb, compar) ==
    IF nmemb <= 1 THEN a
    ELSE LET r == partition(a, base, nmemb, compar)
             before == r.p - base
             left == qsort(r.a, base, before, compar)
         IN  qsort(left, r.p + 1, nmemb - (before + 1), compar)
=============================================================================
