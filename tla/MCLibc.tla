------------------------------- MODULE MCLibc -------------------------------
(***************************************************************************)
(* Every function of the library models on every argument of a small set.  *)
(* A state is one call and what it returned; the properties compare the    *)
(* two with a definition of what the function is for, written without the  *)
(* loops of the code.                                                      *)
(***************************************************************************)
EXTENDS Strings, Qsort, Stdio

CONSTANTS
    SIZE,       \* bytes in a buffer of the string functions
    NMEMB,      \* most elements of an array given to qsort
    FMTLEN,     \* most characters of a format without conversions
    INPUTLEN    \* most characters of an input to scan

VARIABLES call, ret
vars == <<call, ret>>

Idle == <<"idle">>

(* the arguments: 200 is a byte that is negative as a signed char, 257 an  *)
(* int that is the byte 1                                                  *)
Bytes == {0, 1, 200}
Chars == {0, 1, 200, 257}
Buffer == [0..SIZE - 1 -> Bytes]
Str == {s \in Buffer : \E i \in DOMAIN s : s[i] = 0}
Ints == -(2^(LONG_BITS - 1))..2^(LONG_BITS - 1) - 1
Compar == [p \in (1..3) \X (1..3) |-> p[1] - p[2]]
Flags == {<<>>, <<"-">>, <<"0">>, <<"0", "-">>}
Widths == {<<>>, <<"4">>, <<"*">>}
Precisions == {<<>>, <<".", "2">>, <<".", "*">>}
Lengths == {<<>>, <<"h", "h">>}
Stars == {-4, -1, 3}
Texts == {NULLPTR, <<>>, <<"a">>, <<"a", "b", "c">>}
Literals == SeqOf({"%", "5", "-", "q"}, FMTLEN)
Inputs == SeqOf({" ", "-", "7", "8", "a"}, INPUTLEN)
Formats == {<<"%", "d">>, <<"%", "1", "d">>, <<"%", "2", "d">>, <<"%", "X">>,
            <<"%", "o">>, <<"%", "h", "d">>, <<"%", "*", "d", "%", "c">>,
            <<"%", "s">>, <<"%", "2", "s">>, <<"%", "2", "c">>, <<"%", "c", "%", "d">>,
            <<"%", "[", "7", "8", "]">>, <<"%", "[", "^", "]", "8", "]">>,
            <<"8", " ", "%", "d">>, <<"%", "d", " ", "%", "d">>, <<"%", "%", "%", "l">>}

Init == call = Idle /\ ret = 0

Call(fn, args, result) == call' = <<fn>> \o args /\ ret' = result

Searches ==
    /\ call = Idle
    /\ \E s \in Str :
           \/ \E c \in Chars : Call("strchr", <<s, c>>, strchr(s, c))
           \/ \E c \in Chars : Call("strrchr", <<s, c>>, strrchr(s, c))
           \/ \E c \in Chars, n \in 0..SIZE : Call("memchr", <<s, c, n>>, memchr(s, c, n))
           \/ \E t \in Str : Call("strstr", <<s, t>>, strstr(s, t))
           \/ \E n \in 0..SIZE : Call("strnlen", <<s, n>>, strnlen(s, n))

Comparisons ==
    /\ call = Idle
    /\ \E s \in Str, t \in Str, n \in 0..SIZE :
           \/ Call("strcmp", <<s, t, SIZE>>, strcmp(s, t))
           \/ Call("strncmp", <<s, t, n>>, strncmp(s, t, n))
           \/ Call("memcmp", <<s, t, n>>, memcmp(s, t, n))

(* a copy is called with a destination that has room for what is written *)
Copies ==
    /\ call = Idle
    /\ \E d \in Buffer, n \in 0..SIZE :
           \/ Call("bzero", <<d, n>>, bzero(d, n))
           \/ \E c \in Chars : Call("memset", <<d, c, n>>, memset(d, c, n))
           \/ \E s \in Str :
               \/ Call("memcpy", <<d, s, n>>, memcpy(d, s, n))
               \/ n = SIZE /\ Call("strcpy", <<d, s, n>>, strcpy(d, s))
               \/ Call("strncpy", <<d, s, n>>, strncpy(d, s, n))
               \/ Call("strlcpy", <<d, s, n>>, strlcpy(d, s, n))
               \/ /\ d \in Str /\ strlen(d) + strnlen(s, n) < SIZE
                  /\ Call("strncat", <<d, s, n>>, strncat(d, s, n))

Sorts ==
    /\ call = Idle
    /\ \E n \in 0..NMEMB : \E a \in [1..n -> 1..3] :
           Call("qsort", <<a>>, qsort(a, 1, n, Compar))

(* one conversion; each '*' has its argument before the converted one *)
StarArgs(w, p) == IF w = <<"*">>
                  THEN IF p = <<".", "*">> THEN Stars \X Stars ELSE {<<n>> : n \in Stars}
                  ELSE IF p = <<".", "*">> THEN {<<n>> : n \in Stars} ELSE {<<>>}

Converts == {<<conv, arg>> : conv \in DOMAIN Base, arg \in Ints}
            \cup {<<"s", arg>> : arg \in Texts} \cup {<<"c", arg>> : arg \in {NUL, "a"}}

Prints ==
    /\ call = Idle
    /\ \E f \in Flags, w \in Widths, p \in Precisions :
           \E stars \in StarArgs(w, p), l \in Lengths, c \in Converts :
               Call("sprintf", <<[f |-> f, w |-> w, p |-> p, conv |-> c[1]], stars, c[2]>>,
                    sprintf(<<"%">> \o f \o w \o p \o l \o <<c[1]>>, Append(stars, c[2])))

PrintsLiteral ==
    /\ call = Idle
    /\ \E fmt \in Literals, room \in 0..FMTLEN :
           Call("fprintf", <<fmt, room>>, fprintf(room, fmt, <<>>))

Scans ==
    /\ call = Idle
    /\ \E str \in Inputs, fmt \in Formats :
           Call("scanf", <<str, fmt>>, [s |-> sscanf(str, fmt), f |-> fscanf(str, fmt)])

Puts ==
    /\ call = Idle
    /\ \E str \in Inputs, room \in 0..INPUTLEN :
           Call("fputs", <<str, room>>, fputs(str, room))

(* fgets until it returns NULL *)
RECURSIVE Lines(_, _, _)
Lines(n, dev, pos) == LET l == fgets(n, dev, pos)
                      IN  IF l.s = NULLPTR THEN <<>>
                          ELSE <<l.s>> \o Lines(n, dev, l.pos)

Reads ==
    /\ call = Idle
    /\ \E dev \in SeqOf({"a", "\n"}, INPUTLEN), n \in 0..INPUTLEN + 1 :
           Call("fgets", <<dev, n>>, Lines(n, dev, 1))

Return == call # Idle /\ call' = Idle /\ ret' = 0

Next == Searches \/ Comparisons \/ Copies \/ Sorts \/ Prints \/ PrintsLiteral
        \/ Scans \/ Puts \/ Reads \/ Return
LibcSpec == Init /\ [][Next]_vars
----------------------------------------------------------------------------
(* Properties *)

(* the characters of a string, as a sequence *)
Text(s) == LET n == CHOOSE i \in DOMAIN s : s[i] = 0 /\ \A j \in 0..i-1 : s[j] # 0
           IN  [i \in 1..n |-> s[i - 1]]

(* strchr, strrchr, memchr and strstr: the offset returned is an           *)
(* occurrence, the first one (the last one for strrchr), and NULL is       *)
(* returned only when there is none.  The terminator is a character that   *)
(* strchr and strrchr find, and an int argument is taken modulo 256.       *)
(* strstr of the empty string in the empty string is the exception: its    *)
(* loop body never runs and it returns NULL.                               *)
SearchFinds ==
    LET s == call[2]
        Occ == CASE call[1] \in {"strchr", "strrchr"} ->
                        {i \in 0..Len(Text(s)) : s[i] = call[3] % 256}
                 [] call[1] = "memchr" ->
                        {i \in 0..call[4] - 1 : s[i] = call[3] % 256}
                 [] call[1] = "strstr" ->
                        {i \in 0..Len(Text(s)) :
                            IsPrefix(Text(call[3]), SubSeq(Text(s), i + 1, Len(Text(s))))}
    IN  call[1] \in {"strchr", "strrchr", "memchr", "strstr"} =>
        \/ call[1] = "strstr" /\ Text(s) = <<>> /\ ret = NULL
        \/ Occ = {} /\ ret = NULL
        \/ Occ # {} /\ ret = IF call[1] = "strrchr" THEN Max(Occ) ELSE Min(Occ)

(* strcmp, strncmp and memcmp order byte strings: the sign of the result   *)
(* is the lexicographic order of what is compared, bytes above 127 being   *)
(* greater than the others, and 0 is returned only for equal strings.      *)
CompareOrders ==
    LET Cut(s) == IF call[1] = "memcmp" THEN [i \in 1..call[4] |-> s[i - 1]]
                  ELSE SubSeq(Text(s), 1, Min({call[4], Len(Text(s))}))
        a == Cut(call[2])
        b == Cut(call[3])
        Less(u, v) == \E k \in 0..SIZE :
                          /\ k <= Len(u) /\ k < Len(v)
                          /\ SubSeq(u, 1, k) = SubSeq(v, 1, k)
                          /\ k = Len(u) \/ u[k + 1] < v[k + 1]
    IN  call[1] \in {"strcmp", "strncmp", "memcmp"} =>
        /\ ret < 0 <=> Less(a, b)
        /\ ret > 0 <=> Less(b, a)
        /\ ret = 0 <=> a = b

(* strcpy, strncat and strlcpy leave a terminated string in the            *)
(* destination: the source, what fits of it, or the concatenation.  No     *)
(* copy function writes past the bytes it is allowed to write.             *)
CopyExact ==
    LET d == call[2]
        src == Text(call[3])
        want == CASE call[1] = "strcpy" -> src
                  [] call[1] = "strlcpy" -> SubSeq(src, 1, Min({call[4] - 1, Len(src)}))
                  [] call[1] = "strncat" -> Text(d) \o SubSeq(src, 1, Min({call[4], Len(src)}))
    IN  /\ call[1] = "strlcpy" /\ call[4] = 0 => ret = d
        /\ call[1] \in {"strcpy", "strncat"} \/ (call[1] = "strlcpy" /\ call[4] > 0)
           => /\ Text(ret) = want
              /\ \A i \in DOMAIN d : i > Len(want) => ret[i] = d[i]
        /\ call[1] \in {"memcpy", "memset", "strncpy", "bzero"} =>
              \A i \in DOMAIN d : i >= call[Len(call)] => ret[i] = d[i]
        /\ call[1] = "strncpy" /\ call[4] > Len(src) => Text(ret) = src

(* qsort returns the array it was given in ascending order, whatever the   *)
(* order and the number of equal elements.                                 *)
QsortSorts ==
    call[1] = "qsort" =>
        /\ \A i \in 2..Len(ret) : ret[i - 1] <= ret[i]
        /\ \A x \in 1..3 : Cardinality({i \in DOMAIN ret : ret[i] = x})
                           = Cardinality({i \in DOMAIN call[2] : call[2][i] = x})
(* Minimum field width, justification and zero padding: the field is the   *)
(* text the same conversion gives without flags and width, with blanks     *)
(* before it, with blanks after it when left-justified, or with zeroes     *)
(* between the sign and the rest; it is wider than the minimum only when   *)
(* the text itself is.                                                     *)
PrintfPads ==
    LET spec == call[2]
        stars == call[3]
        fmin == CASE spec.w = <<>> -> 0 [] spec.w = <<"4">> -> 4 [] OTHER -> stars[1]
        left == fmin < 0 \/ Contains(spec.f, "-")
        bare == Output(<<"%">> \o spec.p \o <<spec.conv>>, 1,
                       Append(IF spec.w = <<"*">> THEN Tail(stars) ELSE stars, call[4]))
        fill == [i \in 1..Max({0, (IF fmin < 0 THEN -fmin ELSE fmin) - Len(bare)}) |-> " "]
        zeroes == [i \in DOMAIN fill |-> "0"]
        noprec == spec.p = <<>> \/ (spec.p = <<".", "*">> /\ stars[Len(stars)] < 0)
        text == ret.written
    IN  call[1] = "sprintf" =>
        CASE left -> text = bare \o fill
          [] ~left /\ Contains(spec.f, "0") /\ (noprec \/ spec.conv \in {"s", "c"}) ->
                text = IF spec.conv = "d" /\ call[4] < 0 THEN <<"-">> \o zeroes \o Tail(bare)
                       ELSE zeroes \o bare
          [] OTHER -> text = fill \o bare

(* What an integer conversion prints, the matching scan reads back, the    *)
(* most negative int included: atol() and sscanf() of sprintf() give the   *)
(* argument, for every width, precision and padding.                       *)
PrintScan ==
    LET spec == call[2]
        back(fmt) == sscanf(ret.written, fmt)
    IN  call[1] = "sprintf" =>
        /\ spec.conv = "d" => atol(ret.written) = call[4]
        /\ spec.conv \in {"x", "X", "o", "u"} =>
              LET r == back(<<"%", spec.conv>>)
              IN  r.ret = 1 /\ r.vals = <<call[4]>>

(* A format without a complete conversion comes out as it is, "%%" as one  *)
(* "%": the parser returns to the "%" of an unknown specification and      *)
(* loses no character of it.  A device that stops accepting characters     *)
(* gets the beginning of the output, and the caller gets EOF.              *)
RECURSIVE Collapse(_)
Collapse(s) == IF s = <<>> THEN <<>>
               ELSE <<s[1]>> \o Collapse(SubSeq(s, IF s[1] = "%" /\ At(s, 2) = "%"
                                                   THEN 3 ELSE 2, Len(s)))
OutputWhole ==
    LET all == IF call[1] = "fprintf" THEN Collapse(call[2]) ELSE call[2]
    IN  call[1] \in {"fprintf", "fputs"} =>
        /\ IsPrefix(ret.written, all)
        /\ ret.ret = EOF <=> Len(all) > call[3]
        /\ Len(ret.written) = Min({Len(all), call[3]})

(* fscanf() and sscanf() do the same with the same characters, though one  *)
(* steps back in a string and the other keeps one character: _doscan never *)
(* needs more than one character of putback, and fscanf loses at most the  *)
(* one character that ended its last field.                                *)
ScanfSourcesAgree ==
    call[1] = "scanf" =>
        /\ ret.s.ret = ret.f.ret /\ ret.s.vals = ret.f.vals
        /\ ret.f.src.pos - ret.s.src.pos = IF ret.f.src.ch_avail THEN 1 ELSE 0
        /\ ret.s.ret = EOF => ret.s.src.pos = Len(call[2]) + 1

(* The first field of a scan: a number is the longest run of digits after  *)
(* white space and a sign, within the maximum field width; %s, %[ and %c   *)
(* take the longest prefix they may.  One width is overrun: "%1d" reads a  *)
(* sign and one digit, since the width is tested only after a digit.       *)
ScanfField ==
    LET str == call[2]
        fmt == call[3]
        blanks == Min({i \in 0..Len(str) : i = Len(str) \/ str[i + 1] # " "})
        rest == SubSeq(str, blanks + 1, Len(str))
        Longest(u, S, n) == LET k == Min({i \in 0..Len(u) : i = Len(u) \/ i = n
                                                             \/ u[i + 1] \notin S})
                            IN  SubSeq(u, 1, k)
        sign == IF rest # <<>> /\ rest[1] = "-" THEN 1 ELSE 0
        Number(n) == Longest(SubSeq(rest, sign + 1, Len(rest)), {"7", "8"}, n - sign)
        Value(n) == LET v == Decimal(Number(n), 1, Len(Number(n)) + 1)
                    IN  Signed(IF sign = 1 THEN -v ELSE v, LONG_BITS)
        Assigned(v, ok) == ret.s.vals = IF ok THEN <<v>> ELSE <<>>
    IN  call[1] = "scanf" =>
        /\ fmt = <<"%", "d">> => Assigned(Value(INPUTLEN), Number(INPUTLEN) # <<>>)
        /\ fmt = <<"%", "2", "d">> => Assigned(Value(2), Number(2) # <<>>)
        /\ fmt = <<"%", "1", "d">> => Assigned(Value(1 + sign), Number(1 + sign) # <<>>)
        /\ fmt = <<"%", "2", "c">> => Assigned(SubSeq(str, 1, 2), Len(str) >= 2)
        /\ fmt = <<"%", "2", "s">> =>
              Assigned(Longest(rest, {"7", "8", "a", "-"}, 2), rest # <<>>)
        /\ fmt = <<"%", "[", "7", "8", "]">> =>
              LET u == Longest(str, {"7", "8"}, INPUTLEN) IN Assigned(u, u # <<>>)
        /\ fmt = <<"%", "[", "^", "]", "8", "]">> =>
              LET u == Longest(str, {"7", "a", "-", " "}, INPUTLEN) IN Assigned(u, u # <<>>)

(* fgets called until it returns NULL reads the device to its end, in      *)
(* order and without loss: every line but the last ends in its newline or  *)
(* fills the buffer, and none is longer than n - 1.  A length below 2      *)
(* reads nothing and returns NULL.                                         *)
FgetsReadsAll ==
    call[1] = "fgets" =>
        IF call[3] < 2 THEN ret = <<>>
        ELSE /\ FlattenSeq(ret) = call[2]
             /\ \A i \in DOMAIN ret :
                    /\ Len(ret[i]) \in 1..call[3] - 1
                    /\ \A j \in 1..Len(ret[i]) - 1 : ret[i][j] # "\n"
                    /\ \/ i = Len(ret)
                       \/ Last(ret[i]) = "\n"
                       \/ Len(ret[i]) = call[3] - 1
=============================================================================
