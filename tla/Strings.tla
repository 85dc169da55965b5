------------------------------ MODULE Strings ------------------------------
(***************************************************************************)
(* The string and memory functions of lib/libxc.  A buffer is a function   *)
(* from 0..n-1 to bytes, indexed as in C; every buffer of one call has the *)
(* same size, and a string is a buffer that holds a NUL.  A position is an *)
(* offset into the first argument, NULL is -1.  The loops of the code all  *)
(* advance an index until a condition holds, which is Until below.         *)
(***************************************************************************)
EXTENDS Integers, FiniteSetsExt

Byte == 0..255
NULL == -1
uchar(c) == c % 256
Size(s) == Cardinality(DOMAIN s)

(* for (i = from; i < n && !stop(i); i++): the value of i after the loop *)
Until(from, n, stop(_)) == Min({i \in from..n : i = n \/ stop(i)})

(* what a store loop leaves: d with the indices of I overwritten by val *)
Store(d, I, val(_)) == [i \in DOMAIN d |-> IF i \in I THEN val(i) ELSE d[i]]

----------------------------------------------------------------------------
(* Lengths and searches *)

strlen(s) == Until(0, Size(s), LAMBDA i : s[i] = 0)

strnlen(s, len) == Until(0, IF len < Size(s) THEN len ELSE Size(s),
                         LAMBDA i : s[i] = 0)

memchr(s, c, n) == LET i == Until(0, n, LAMBDA j : s[j] = uchar(c))
                   IN  IF i = n THEN NULL ELSE i

strchr(s, c) == LET i == Until(0, Size(s), LAMBDA j : s[j] \in {uchar(c), 0})
                IN  IF s[i] = uchar(c) THEN i ELSE NULL

(* the whole string is walked and the last match kept, the NUL included *)
strrchr(s, c) == LET M == {i \in 0..strlen(s) : s[i] = uchar(c)}
                 IN  IF M = {} THEN NULL ELSE Max(M)

----------------------------------------------------------------------------
(* Comparisons: the difference of the first unequal bytes, unsigned *)

memcmp(s1, s2, n) == LET i == Until(0, n, LAMBDA j : s1[j] # s2[j])
                     IN  IF i = n THEN 0 ELSE s1[i] - s2[i]

strcmp(s1, s2) ==
    LET i == Until(0, Size(s1), LAMBDA j : s1[j] # s2[j] \/ s1[j] = 0)
    IN  s1[i] - s2[i]

strncmp(s1, s2, n) ==
    LET i == Until(0, n, LAMBDA j : s1[j] # s2[j] \/ s1[j] = 0)
    IN  IF i = n THEN 0 ELSE s1[i] - s2[i]

(* the first offset before the NUL at which strncmp finds the needle *)
strstr(s, find) ==
    LET len == strlen(find)
        From(k) == [i \in DOMAIN s |-> IF i + k \in DOMAIN s THEN s[i + k] ELSE 0]
        i == Until(0, strlen(s), LAMBDA j : strncmp(From(j), find, len) = 0)
    IN  IF i = strlen(s) THEN NULL ELSE i

----------------------------------------------------------------------------
(* Copies: the destination buffer afterwards (strlcpy also returns strlen) *)

memcpy(d, s, n) == Store(d, 0..n-1, LAMBDA i : s[i])
memset(d, c, n) == Store(d, 0..n-1, LAMBDA i : uchar(c))
bzero(d, n) == Store(d, 0..n-1, LAMBDA i : 0)

strcpy(d, s) == Store(d, 0..strlen(s), LAMBDA i : s[i])

(* the rest of the n bytes is filled with NULs; with n <= strlen(s) the    *)
(* copy has no terminator                                                  *)
strncpy(d, s, n) ==
    LET len == strlen(s)
    IN  Store(d, 0..n-1, LAMBDA i : IF i < len THEN s[i] ELSE 0)

strncat(d, s, n) ==
    LET at == strlen(d)
        len == strnlen(s, n)
    IN  Store(d, at..at+len, LAMBDA i : IF i < at + len THEN s[i - at] ELSE 0)

(* Mutant: the terminator is not counted. *)
strlcpyFull(d, s, size) ==
    LET len == strnlen(s, size)
    IN  IF size = 0 THEN d
        ELSE Store(d, 0..len, LAMBDA i : IF i < len THEN s[i] ELSE 0)

(* size counts the terminator; size 0 writes nothing *)
strlcpy(d, s, size) ==
    LET len == strnlen(s, size - 1)
    IN  IF size = 0 THEN d
        ELSE Store(d, 0..len, LAMBDA i : IF i < len THEN s[i] ELSE 0)
=============================================================================
