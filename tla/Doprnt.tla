------------------------------- MODULE Doprnt -------------------------------
(***************************************************************************)
(* _doprnt() of lib/libxc/doprnt.c, the formatter behind printf, fprintf,  *)
(* sprintf and kprintf.  A string is a sequence of one-character strings;  *)
(* NUL is what reading at its end returns.  A variadic argument is a       *)
(* string, NULLPTR or an int.  int and long have LONG_BITS bits, as on the *)
(* 32-bit target.                                                          *)
(***************************************************************************)
EXTENDS Integers, Sequences, FiniteSetsExt, SequencesExt

CONSTANT LONG_BITS

NUL == "NUL"
EOF == -2
NULLPTR == <<"NULL pointer">>
Digit == {"0", "1", "2", "3", "4", "5", "6", "7", "8", "9"}
digits_lc == <<"0", "1", "2", "3", "4", "5", "6", "7", "8", "9",
               "a", "b", "c", "d", "e", "f">>
digits_uc == SubSeq(digits_lc, 1, 10) \o <<"A", "B", "C", "D", "E", "F">>

At(s, i) == IF i <= Len(s) THEN s[i] ELSE NUL

(* the first index from i on whose character is not in C, as the loops     *)
(* over flags, digits and white space find it                              *)
SpanEnd(s, i, C) == Min({j \in i..Len(s) + 1 : At(s, j) \notin C})

(* the decimal number at s[i..j-1] *)
Decimal(s, i, j) ==
    FoldLeft(LAMBDA n, c : 10 * n + (CHOOSE d \in 0..9 : digits_lc[d + 1] = c),
             0, SubSeq(s, i, j - 1))

Times(n, c) == [i \in 1..n |-> c]

----------------------------------------------------------------------------
(* ulong_to_string: the remainders, least significant first, then reversed. *)
(* Masking and shifting (bases 2, 8, 16) is the same division.              *)
RECURSIVE Remainders(_, _)
Remainders(num, base) ==
    IF num < base THEN <<num>>
    ELSE <<num % base>> \o Remainders(num \div base, base)

(* Mutant: the digits are not reversed. *)
ulong_to_stringBackwards(num, base, digits) ==
    [i \in DOMAIN Remainders(num, base) |-> digits[Remainders(num, base)[i] + 1]]

ulong_to_string(num, base, digits) ==
    [i \in DOMAIN Remainders(num, base) |->
        digits[Reverse(Remainders(num, base))[i] + 1]]

----------------------------------------------------------------------------
(* A conversion specification that starts after the '%', at index i.       *)

(* 1. flags, 2. minimum field width ('*' takes an argument, a negative one *)
(* is a '-' flag)                                                          *)
WidthPart(fmt, i, args) ==
    LET j == SpanEnd(fmt, i, {"-", "0"})
        k == SpanEnd(fmt, j, Digit)
        star == At(fmt, j) = "*"
        fmin == IF star THEN Head(args) ELSE Decimal(fmt, j, k)
        flags == Range(SubSeq(fmt, i, j - 1))
        left == "-" \in flags \/ fmin < 0
    IN  [leftjust |-> left,
         pad_char |-> IF "0" \in flags /\ ~left THEN "0" ELSE " ",
         fmin |-> IF fmin < 0 THEN -fmin ELSE fmin,
         next |-> IF star THEN j + 1 ELSE k,
         args |-> IF star THEN Tail(args) ELSE args]

(* 3. precision: -1 when there is none, 0 for a lone period *)
PrecisionPart(fmt, i, args) ==
    LET k == SpanEnd(fmt, i + 1, Digit)
    IN  IF At(fmt, i) # "." THEN [prec |-> -1, next |-> i, args |-> args]
        ELSE IF At(fmt, i + 1) = "*"
        THEN [prec |-> Head(args), next |-> i + 2, args |-> Tail(args)]
        ELSE [prec |-> Decimal(fmt, i + 1, k), next |-> k, args |-> args]

(* 4. length modifier: l, h or hh.  None changes what is taken from the    *)
(* argument list, since short and char are promoted and long is an int.    *)
LengthPart(fmt, i) ==
    IF At(fmt, i) \in {"l", "h"}
    THEN IF At(fmt, i) = "h" /\ At(fmt, i + 1) = "h" THEN i + 2 ELSE i + 1
    ELSE i

(* 5. conversion specifier: whether it is one, and the characters and the  *)
(* sign it yields for an argument                                          *)
Base == [d |-> 10, u |-> 10, o |-> 8, x |-> 16, X |-> 16, b |-> 2]
IsInteger(conv) == conv \in DOMAIN Base
IsConversion(conv) == IsInteger(conv) \/ conv \in {"c", "s"}

Body(conv, arg) ==
    LET ularg == arg % 2^LONG_BITS
        size == IF conv = "d" /\ arg < 0 THEN (-ularg) % 2^LONG_BITS ELSE ularg
    IN  CASE conv = "c" -> IF arg = NUL THEN <<>> ELSE <<arg>>
          [] conv = "s" -> IF arg = NULLPTR
                           THEN <<"(", "n", "u", "l", "l", ")">> ELSE arg
          [] OTHER -> ulong_to_string(size, Base[conv],
                          IF conv = "X" THEN digits_uc ELSE digits_lc)

(* The field: lengths and output order of one conversion.  With zero       *)
(* padding the padding goes between the sign and the digits.               *)
Layout(conv, w, prec, sign, str) ==
    LET precise == IsInteger(conv) /\ prec >= 0
        len_str == IF ~IsInteger(conv) /\ prec \in 0..Len(str) THEN prec ELSE Len(str)
        zeroes == IF precise /\ prec > len_str THEN prec - len_str ELSE 0
        bare == len_str + zeroes + Len(sign)
        padding == IF bare < w.fmin THEN w.fmin - bare ELSE 0
        zero_pad == ~w.leftjust /\ w.pad_char = "0" /\ ~precise
        blanks == Times(IF zero_pad THEN 0 ELSE padding, " ")
    IN  (IF w.leftjust THEN <<>> ELSE blanks) \o sign
        \o Times(IF zero_pad THEN padding ELSE zeroes, "0")
        \o SubSeq(str, 1, len_str)
        \o (IF w.leftjust THEN blanks ELSE <<>>)

Field(conv, w, prec, arg) ==
    Layout(conv, w, prec, IF conv = "d" /\ arg < 0 THEN <<"-">> ELSE <<>>, Body(conv, arg))

----------------------------------------------------------------------------
(* The parts of the specification at index i one after the other; at is    *)
(* the index of the conversion specifier.                                  *)
AfterPrecision(fmt, w, p) ==
    [w |-> w, prec |-> p.prec, args |-> p.args, at |-> LengthPart(fmt, p.next)]
AfterWidth(fmt, w) == AfterPrecision(fmt, w, PrecisionPart(fmt, w.next, w.args))
Specification(fmt, i, args) == AfterWidth(fmt, WidthPart(fmt, i, args))

(* What fmt from index i on sends to putc_func.  Arguments that a '*' of   *)
(* an unknown specification took stay taken.                               *)
RECURSIVE Output(_, _, _)
Converted(fmt, i, s) ==
    IF IsConversion(At(fmt, s.at))
    THEN Field(fmt[s.at], s.w, s.prec, Head(s.args)) \o Output(fmt, s.at + 1, Tail(s.args))
    ELSE <<"%">> \o Output(fmt, i + 1, s.args)

Output(fmt, i, args) ==
    IF At(fmt, i) = NUL THEN <<>>
    ELSE IF fmt[i] # "%" THEN <<fmt[i]>> \o Output(fmt, i + 1, args)
    ELSE IF At(fmt, i + 1) = "%" THEN <<"%">> \o Output(fmt, i + 2, args)
    ELSE Converted(fmt, i, Specification(fmt, i + 1, args))

(* putc_func accepts room characters and then fails: the first EOF ends    *)
(* the call.  written is what it accepted.                                 *)
doprnt(fmt, args, room) ==
    LET out == Output(fmt, 1, args)
    IN  IF Len(out) > room THEN [ret |-> EOF, written |-> SubSeq(out, 1, room)]
        ELSE [ret |-> Len(out), written |-> out]
=============================================================================
