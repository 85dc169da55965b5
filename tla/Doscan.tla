------------------------------- MODULE Doscan -------------------------------
(***************************************************************************)
(* _doscan() of lib/libxc/doscan.c with its two character sources, the     *)
(* string of sscanf() and the device of fscanf().  A source is a record:   *)
(* data is all there is to read, pos the next character of it; a device    *)
(* also has the one-character buffer of struct ch_buf (ch_avail, c).       *)
(* Characters, NUL, EOF and the width of an int are those of Doprnt.       *)
(***************************************************************************)
EXTENDS Doprnt

CONSTANT SHORT_BITS

(* ~0u: more than any input holds *)
UNLIMITED_LENGTH == 2^16

(* EOF as the result of getch, where the others are characters *)
EOFCH == "EOF"
Space == {" ", "\t", "\n"}
Letters == [A |-> "a", B |-> "b", C |-> "c", D |-> "d", E |-> "e", F |-> "f",
            O |-> "o", S |-> "s", U |-> "u", X |-> "x"]
isupper(c) == c \in DOMAIN Letters
tolower(c) == IF isupper(c) THEN Letters[c] ELSE c

----------------------------------------------------------------------------
(* Sources *)

StringSource(str) == [kind |-> "string", data |-> str, pos |-> 1,
                      ch_avail |-> FALSE, c |-> NUL]
DeviceSource(str) == [StringSource(str) EXCEPT !.kind = "device"]

(* sgetch() and getch(): the character and the source after it *)
getch(src) ==
    IF src.ch_avail THEN [c |-> src.c, src |-> [src EXCEPT !.ch_avail = FALSE]]
    ELSE IF src.pos > Len(src.data) THEN [c |-> EOFCH, src |-> src]
    ELSE LET c == src.data[src.pos]
         IN  [c |-> c, src |-> [src EXCEPT !.pos = @ + 1,
                                           !.c = IF src.kind = "device" THEN c ELSE NUL]]

(* Mutant: ungetch() forgets the character. *)
ungetchNone(src) == IF src.kind = "string" THEN [src EXCEPT !.pos = @ - 1] ELSE src

(* sungetch() steps back, ungetch() marks the buffered character unread *)
ungetch(src) == IF src.kind = "string" THEN [src EXCEPT !.pos = @ - 1]
                ELSE [src EXCEPT !.ch_avail = TRUE]

(* reads up to and including the first character that is not white space *)
RECURSIVE SkipSpace(_)
SkipSpace(src) == LET g == getch(src)
                  IN  IF g.c \in Space THEN SkipSpace(g.src) ELSE g

----------------------------------------------------------------------------
(* Conversions.  Each returns ok (1 in the code), eof, what was stored and *)
(* the source afterwards.                                                  *)

(* the for loop of scan_string; stop is the set of stop characters *)
RECURSIVE TakeString(_, _, _, _)
TakeString(src, stop, maxlen, acc) ==
    LET g == getch(src)
    IN  IF Len(acc) >= maxlen THEN [val |-> acc, eof |-> FALSE, src |-> src]
        ELSE IF g.c = EOFCH THEN [val |-> acc, eof |-> TRUE, src |-> g.src]
        ELSE IF g.c \in stop
        THEN [val |-> acc, eof |-> FALSE, src |-> ungetch(g.src)]
        ELSE TakeString(g.src, stop, maxlen, Append(acc, g.c))

scan_string(src, type, maxlen, stop) ==
    LET max == IF type = "c" /\ maxlen = UNLIMITED_LENGTH THEN 1 ELSE maxlen
        t == TakeString(src, CASE type = "[" -> stop [] type = "s" -> Space
                               [] OTHER -> {}, max, <<>>)
    IN  [ok |-> t.val # <<>> /\ ~(type = "c" /\ Len(t.val) < max),
         eof |-> t.eof, val |-> t.val, src |-> t.src]

(* the digit loop: c is the character just read, len counts it too; the    *)
(* limit is tested only after a digit                                      *)
ScanDigit(c, base) == IF \E d \in 1..base : digits_lc[d] = tolower(c)
                      THEN CHOOSE d \in 0..base - 1 : digits_lc[d + 1] = tolower(c)
                      ELSE -1

RECURSIVE TakeDigits(_, _, _, _, _, _)
TakeDigits(c, src, base, maxlen, len, n) ==
    LET d == IF c = EOFCH THEN -1 ELSE ScanDigit(c, base)
        m == (n * base + d) % 2^LONG_BITS
        g == getch(src)
    IN  IF c = EOFCH THEN [n |-> n, len |-> len, eof |-> TRUE, src |-> src]
        ELSE IF d = -1 THEN [n |-> n, len |-> len, eof |-> FALSE, src |-> ungetch(src)]
        ELSE IF len + 1 >= maxlen
        THEN [n |-> m, len |-> len + 1, eof |-> FALSE, src |-> src]
        ELSE TakeDigits(g.c, g.src, base, maxlen, len + 1, m)

(* the value an integer object of so many bits has after n is stored *)
Signed(n, bits) == LET m == n % 2^bits IN IF m < 2^(bits - 1) THEN m ELSE m - 2^bits

(* c is the first character after the white space.  A number is stored,    *)
(* and matched, only when the conversion has a pointer.                    *)
scan_number(c, src, type, maxlen, size, assign) ==
    LET base == CASE type = "o" -> 8 [] type = "x" -> 16 [] OTHER -> 10
        had_sign == c \in {"-", "+"}
        g == IF had_sign THEN getch(src) ELSE [c |-> c, src |-> src]
        t == TakeDigits(g.c, g.src, base, maxlen, IF had_sign THEN 1 ELSE 0, 0)
        n == IF c = "-" THEN (-t.n) % 2^LONG_BITS ELSE t.n
    IN  [ok |-> assign /\ t.len # 0 /\ ~(had_sign /\ t.len = 1),
         eof |-> t.eof, src |-> t.src,
         val |-> Signed(n, IF size = "h" THEN SHORT_BITS ELSE LONG_BITS)]

scan_number_or_string(src, type, maxlen, size, stop, assign) ==
    LET s == SkipSpace(src)
    IN  IF type \in {"c", "["} THEN scan_string(src, type, maxlen, stop)
        ELSE IF s.c = EOFCH
        THEN [ok |-> FALSE, eof |-> TRUE, val |-> 0, src |-> s.src]
        ELSE IF type = "s" THEN scan_string(ungetch(s.src), type, maxlen, stop)
        ELSE scan_number(s.c, s.src, type, maxlen, size, assign)

(* build_stopchar_tab: the set between the brackets, inverted unless it    *)
(* starts with '^'; a ']' in first place belongs to the set.  Chars is the *)
(* alphabet the table ranges over.                                         *)
build_stopchar_tab(fmt, i, Chars) ==
    LET from == IF At(fmt, i) = "^" THEN i + 1 ELSE i
        end == Min({j \in from..Len(fmt) + 1 :
                       At(fmt, j) = NUL \/ (j > from /\ fmt[j] = "]")})
        set == Range(SubSeq(fmt, from, end - 1))
    IN  [stop |-> IF from > i THEN set ELSE Chars \ set,
         next |-> IF At(fmt, end) = "]" THEN end + 1 ELSE end]

----------------------------------------------------------------------------
(* The loop over the format.  vals is what has been assigned, so nmatch is *)
(* its length; the result holds the return value and the source.           *)
Result(eof, vals, src) ==
    [ret |-> IF eof /\ vals = <<>> THEN EOF ELSE Len(vals), vals |-> vals, src |-> src]

(* the specification after a '%' at index i - 1 *)
Spec(fmt, i, src) ==
    LET j == IF At(fmt, i) = "*" THEN i + 1 ELSE i
        k == SpanEnd(fmt, j, Digit)
        m == IF At(fmt, k) \in {"l", "h"} THEN k + 1 ELSE k
        tab == build_stopchar_tab(fmt, m + 1, Range(src.data))
        max == Decimal(fmt, j, k)
    IN  [assign |-> j = i, conv |-> At(fmt, m), stop |-> tab.stop,
         maxlen |-> IF max = 0 THEN UNLIMITED_LENGTH ELSE max,
         size |-> IF isupper(At(fmt, m)) THEN "l" ELSE At(fmt, k),
         next |-> IF At(fmt, m) = "[" THEN tab.next ELSE m + 1]

RECURSIVE Scan(_, _, _, _)
(* after conversion s with result r *)
Scanned(fmt, vals, s, r) ==
    LET now == IF r.ok /\ s.assign THEN Append(vals, r.val) ELSE vals
    IN  IF r.eof \/ (~r.ok /\ s.assign) THEN Result(r.eof, now, r.src)
        ELSE Scan(fmt, s.next, r.src, now)

Convert(fmt, src, vals, s) ==
    IF s.conv = NUL THEN Result(FALSE, vals, src)
    ELSE Scanned(fmt, vals, s, scan_number_or_string(src, tolower(s.conv), s.maxlen,
                                                     s.size, s.stop, s.assign))

Scan(fmt, i, src, vals) ==
    LET literal == At(fmt, i) # "%" \/ At(fmt, i + 1) = "%"
        g == getch(src)
        w == SkipSpace(src)
        at == IF At(fmt, i) = "%" THEN i + 1 ELSE i
    IN  IF At(fmt, i) = NUL THEN Result(FALSE, vals, src)
        ELSE IF fmt[i] \in Space
        THEN IF w.c = EOFCH THEN Result(TRUE, vals, w.src)
             ELSE Scan(fmt, SpanEnd(fmt, i, Space), ungetch(w.src), vals)
        ELSE IF literal
        THEN IF g.c = EOFCH THEN Result(TRUE, vals, g.src)
             ELSE IF g.c # fmt[at] THEN Result(FALSE, vals, g.src)
             ELSE Scan(fmt, at + 1, g.src, vals)
        ELSE Convert(fmt, src, vals, Spec(fmt, i + 1, src))

sscanf(str, fmt) == Scan(fmt, 1, StringSource(str), <<>>)
fscanf(str, fmt) == Scan(fmt, 1, DeviceSource(str), <<>>)

(* atoi and atol: n keeps its initial 0 when nothing matches *)
atol(str) == LET r == sscanf(str, <<"%", "l", "d">>)
             IN  IF r.vals = <<>> THEN 0 ELSE r.vals[1]
=============================================================================
