--------------------------- MODULE ConsoleProofs ----------------------------
(***************************************************************************)
(* The messages of kprintf() come out whole and the input is read exactly, *)
(* for any number of cores and processes, any of them switched at any      *)
(* time, and for messages, buffers and inputs of any length.               *)
(***************************************************************************)
EXTENDS Console, SequenceTheorems, TLAPS

OutTypeOK ==
  /\ pc \in [Thread -> {"idle", "checked", "get", "echo", "acquire", "put", "done"}]
  /\ at \in [Thread -> 0..MSGLEN]
  /\ serial_lock \in Thread \cup {Free}
  /\ sent = <<>> \/ sent \in (Thread \X Nat) \X (Thread \X Nat)

\* The process between Acquire and Release, and no other, holds serial_lock;
\* only there it has sent a part of its message.
HolderPrints ==
  \A t \in Thread : /\ pc[t] = "put" <=> serial_lock = t
                    /\ at[t] # 0 => pc[t] = "put"

\* The last message put into the FIFO is complete, or its last character is
\* the one the holder of serial_lock has put last.
LastCharacter ==
  \/ sent = <<>> \/ sent[2][2] = MSGLEN
  \/ serial_lock \in Thread /\ sent[2] = <<serial_lock, at[serial_lock]>>

\* A holder that is in the middle of its message has put the last character.
HolderIsLast ==
  serial_lock \in Thread /\ at[serial_lock] # 0 =>
    sent # <<>> /\ sent[2] = <<serial_lock, at[serial_lock]>>

PInv == OutTypeOK /\ HolderPrints /\ LastCharacter /\ HolderIsLast /\ PrintfWhole

-----------------------------------------------------------------------------
\* A step that leaves the output alone, and moves no process into or out of
\* the part of kprintf() that holds the lock.
LEMMA InputStep ==
  ASSUME PInv, UNCHANGED <<at, serial_lock, sent>>,
         pc' = pc \/ \E l \in {"idle", "checked", "get", "echo", "acquire"} :
                        pc[Reader] # "put" /\ pc' = [pc EXCEPT ![Reader] = l]
  PROVE  PInv'
<1>1. OutTypeOK' /\ HolderPrints'
  BY DEF PInv, OutTypeOK, HolderPrints, Thread
<1>2. LastCharacter' /\ HolderIsLast' /\ PrintfWhole'
  BY DEF PInv, LastCharacter, HolderIsLast, PrintfWhole
<1> QED  BY <1>1, <1>2 DEF PInv

\* kprintf(): a character is put after the last one of the same message, or,
\* as the first one, after the end of a message.
LEMMA PrintStep ==
  ASSUME ConsoleAssumption, PInv, NEW t \in Thread, kprintf(t)
  PROVE  PInv'
<1> USE DEF ConsoleAssumption, Free, Thread
<1>1. CASE Acquire(t)
  <2>1. OutTypeOK' /\ HolderPrints'
    BY <1>1 DEF Acquire, Goto, PInv, OutTypeOK, HolderPrints
  <2>2. at[t] = 0 /\ (sent = <<>> \/ sent[2][2] = MSGLEN)
    BY <1>1 DEF Acquire, PInv, HolderPrints, LastCharacter
  <2>3. LastCharacter' /\ HolderIsLast' /\ PrintfWhole'
    BY <1>1, <2>2 DEF Acquire, PInv, LastCharacter, HolderIsLast, PrintfWhole
  <2> QED  BY <2>1, <2>3 DEF PInv
<1>2. CASE Put(t)
  <2>1. serial_lock = t /\ at[t] \in 0..MSGLEN /\ at[t] < MSGLEN
    BY <1>2 DEF Put, PInv, HolderPrints, OutTypeOK
  <2>2. /\ sent' = <<IF sent = <<>> THEN <<t, 0>> ELSE sent[2], <<t, at[t] + 1>>>>
        /\ at' = [at EXCEPT ![t] = at[t] + 1] /\ UNCHANGED <<pc, serial_lock>>
    BY <1>2 DEF Put, PInv, OutTypeOK, Last
  <2>3. OutTypeOK' /\ HolderPrints'
    BY <1>2, <2>1, <2>2 DEF Put, PInv, OutTypeOK, HolderPrints
  <2>4. LastCharacter' /\ HolderIsLast'
    BY <2>1, <2>2 DEF PInv, OutTypeOK, LastCharacter, HolderIsLast
  <2>5. PrintfWhole'
    <3>1. CASE sent = <<>>
      BY <2>1, <2>2, <3>1 DEF PInv, HolderIsLast, PrintfWhole
    <3>2. CASE sent # <<>> /\ at[t] # 0
      BY <2>1, <2>2, <3>2 DEF PInv, HolderIsLast, PrintfWhole
    <3>3. CASE sent # <<>> /\ at[t] = 0
      BY <2>1, <2>2, <3>3 DEF PInv, LastCharacter, PrintfWhole
    <3> QED  BY <3>1, <3>2, <3>3
  <2> QED  BY <2>3, <2>4, <2>5 DEF PInv
<1>3. CASE Release(t)
  <2>1. serial_lock = t
    BY <1>3 DEF Release, PInv, HolderPrints
  <2>2. OutTypeOK' /\ HolderPrints'
    BY <1>3, <2>1 DEF Release, Goto, PInv, OutTypeOK, HolderPrints
  <2>3. LastCharacter' /\ HolderIsLast' /\ PrintfWhole'
    BY <1>3, <2>1 DEF Release, PInv, LastCharacter, HolderIsLast, PrintfWhole
  <2> QED  BY <2>2, <2>3 DEF PInv
<1> QED  BY <1>1, <1>2, <1>3 DEF kprintf

\* Every step keeps the messages whole.
LEMMA PrintNext ==
  ASSUME ConsoleAssumption, PInv, [Next]_vars
  PROVE  PInv'
<1> USE DEF outvars
<1>1. CASE Receive
  BY <1>1, InputStep DEF Receive
<1>2. CASE Transmit
  BY <1>2, InputStep DEF Transmit
<1>3. CASE UserCalls
  <2>1. CASE Kungetc
    BY <2>1, InputStep DEF Kungetc
  <2>2. CASE Kcheckc
    BY <2>2, InputStep DEF Kcheckc, Goto
  <2>3. CASE sc_getc
    BY <2>3, InputStep DEF sc_getc, Goto
  <2>4. CASE sc_putc
    BY <2>4, InputStep DEF sc_putc
  <2>5. CASE ReadintBegin
    BY <2>5, InputStep DEF ReadintBegin, Goto
  <2>6. CASE ReadintGet
    BY <2>6, InputStep DEF ReadintGet, Goto
  <2>7. CASE ReadintEcho
    BY <2>7, InputStep DEF ReadintEcho, Goto
  <2>8. CASE \E code \in {2, 8, 17}, descrp \in {0, 1} : syscall_dispatch(code, descrp)
    BY <2>8, InputStep DEF syscall_dispatch, Goto
  <2> QED  BY <1>3, <2>1, <2>2, <2>3, <2>4, <2>5, <2>6, <2>7, <2>8 DEF UserCalls
<1>4. CASE \E k \in Core : Switch(k)
  BY <1>4, InputStep DEF Switch
<1>5. CASE \E t \in Thread : kprintf(t)
  BY <1>5, PrintStep
<1>6. CASE UNCHANGED vars
  BY <1>6, InputStep DEF vars
<1> QED  BY <1>1, <1>2, <1>3, <1>4, <1>5, <1>6 DEF Next

\* Nothing is printed when the processes start.
LEMMA PrintInit ==
  ASSUME ConsoleAssumption, Init
  PROVE  PInv
BY DEF Init, PInv, OutTypeOK, HolderPrints, LastCharacter, HolderIsLast, PrintfWhole,
       ConsoleAssumption, Free, Thread

\* No message of kprintf() is interrupted by another one, whatever processes
\* print, on whatever cores, and wherever they are switched.
THEOREM PrintfWholeHolds ==
  ASSUME ConsoleAssumption
  PROVE  Spec => []PrintfWhole
<1>1. Init => PInv
  BY Zenon, PrintInit
<1>2. PInv /\ [Next]_vars => PInv'
  BY Zenon, PrintNext
<1>3. PInv => PrintfWhole
  BY DEF PInv
<1> QED  BY <1>1, <1>2, <1>3, PTL DEF Spec

-----------------------------------------------------------------------------
(* Input *)

\* The characters that arrive.
Char == Range(Input)

\* A character behind two sequences.
LEMMA ConcatAppend ==
  ASSUME NEW c \in Seq(Char), NEW x \in Seq(Char), NEW e \in Char
  PROVE  c \o Append(x, e) = Append(c \o x, e)
OBVIOUS

\* A sequence turned round.
LEMMA ReverseIs ==
  ASSUME NEW u \in Seq(Char)
  PROVE  /\ Reverse(u) \in Seq(Char) /\ Len(Reverse(u)) = Len(u)
         /\ \A i \in 1 .. Len(u) : Reverse(u)[i] = u[Len(u) + 1 - i]
BY DEF Reverse

\* s is what has arrived when there are n characters.
Arrived(s, n) == s = SubSeq(Input, 1, n)

\* The receiver adds a character to what has arrived.
LEMMA ArriveKeeps ==
  ASSUME Input \in Seq(Char), NEW n \in Nat, n < Len(Input),
         NEW r \in Seq(Char), NEW b \in Seq(Char), NEW x \in Seq(Char),
         Arrived(r \o b \o x, n)
  PROVE  Arrived(r \o b \o Append(x, Input[n + 1]), n + 1)
<1>1. r \o b \o Append(x, Input[n + 1]) = Append(r \o b \o x, Input[n + 1])
  <2>1. r \o b \in Seq(Char) /\ Input[n + 1] \in Char
    OBVIOUS
  <2>2. PICK c \in Seq(Char), e \in Char : c = r \o b /\ e = Input[n + 1]
    BY Zenon, <2>1
  <2>3. c \o Append(x, e) = Append(c \o x, e)
    BY Zenon, <2>2, ConcatAppend
  <2> QED  BY Zenon, <2>2, <2>3
<1>2. SubSeq(Input, 1, n + 1) = Append(SubSeq(Input, 1, n), Input[n + 1])
  OBVIOUS
<1> QED  BY Zenon, <1>1, <1>2 DEF Arrived

\* A sequence without its last character.
LEMMA FrontIs ==
  ASSUME NEW r \in Seq(Char), r # <<>>
  PROVE  /\ Len(r) \in Nat /\ Len(r) > 0 /\ Last(r) = r[Len(r)] /\ Last(r) \in Char
         /\ Front(r) \in Seq(Char) /\ Len(Front(r)) = Len(r) - 1
         /\ \A i \in 1 .. Len(r) - 1 : Front(r)[i] = r[i]
<1>1. Len(r) \in Nat /\ Len(r) > 0
  OBVIOUS
<1>2. Last(r) = r[Len(r)] /\ Last(r) \in Char
  BY <1>1 DEF Last
<1>3. /\ Front(r) \in Seq(Char) /\ Len(Front(r)) = Len(r) - 1
      /\ \A i \in 1 .. Len(r) - 1 : Front(r)[i] = r[i]
  <2>1. Front(r) = SubSeq(r, 1, Len(r) - 1) /\ Len(r) - 1 \in Nat /\ 1 .. Len(r) - 1 \subseteq 1 .. Len(r)
    BY <1>1 DEF Front
  <2>0. /\ \A i \in 1 .. Len(r) - 1 : r[i] \in Char
        /\ 1 \in Int /\ Len(r) - 1 \in Int
    BY <1>1
  <2>2. SubSeq(r, 1, Len(r) - 1) \in Seq(Char)
    BY Zenon, <2>0, SubSeqProperties
  <2>3. Len(SubSeq(r, 1, Len(r) - 1)) = Len(r) - 1
    <3>1. Len(SubSeq(r, 1, Len(r) - 1)) = IF 1 <= Len(r) - 1 THEN Len(r) - 1 - 1 + 1 ELSE 0
      BY SMT, <2>0, SubSeqProperties
    <3> QED  BY <1>1, <3>1
  <2>4. \A i \in 1 .. Len(r) - 1 : SubSeq(r, 1, Len(r) - 1)[i] = r[i]
    BY <1>1
  <2> QED  BY Zenon, <2>1, <2>2, <2>3, <2>4
<1> QED  BY <1>1, <1>2, <1>3

\* kungetc() puts back the last character read.
LEMMA PutBackKeeps ==
  ASSUME NEW r \in Seq(Char), NEW u \in Seq(Char), r # <<>>
  PROVE  /\ Front(r) \o Reverse(Append(u, Last(r))) = r \o Reverse(u)
         /\ Front(r) \in Seq(Char) /\ Last(r) \in Char
<1>1. /\ Len(r) \in Nat /\ Len(r) > 0 /\ Len(u) \in Nat /\ Last(r) = r[Len(r)] /\ Last(r) \in Char
      /\ Front(r) \in Seq(Char) /\ Len(Front(r)) = Len(r) - 1
      /\ \A i \in 1 .. Len(r) - 1 : Front(r)[i] = r[i]
  <2>1. Len(u) \in Nat
    OBVIOUS
  <2> QED  BY Zenon, <2>1, FrontIs
<1>2. PICK f \in Seq(Char), e \in Char : f = Front(r) /\ e = Last(r)
  BY Zenon, <1>1
<1>3. PICK v \in Seq(Char) : v = Append(u, e)
  <2>1. Append(u, e) \in Seq(Char)
    BY <1>2
  <2> QED  BY Zenon, <2>1
<1>4. /\ Len(v) = Len(u) + 1 /\ v[Len(u) + 1] = e
      /\ \A i \in 1 .. Len(u) : v[i] = u[i]
  BY <1>1, <1>3
<1>5. PICK a \in Seq(Char) : /\ a = Reverse(v) /\ Len(a) = Len(v)
                             /\ \A i \in 1 .. Len(v) : a[i] = v[Len(v) + 1 - i]
  BY Zenon, ReverseIs
<1>6. PICK b \in Seq(Char) : /\ b = Reverse(u) /\ Len(b) = Len(u)
                             /\ \A i \in 1 .. Len(u) : b[i] = u[Len(u) + 1 - i]
  BY Zenon, ReverseIs
<1>7. Len(a) = Len(b) + 1 /\ a[1] = e /\ \A i \in 1 .. Len(b) : a[i + 1] = b[i]
  <2>1. Len(a) = Len(b) + 1 /\ 1 \in 1 .. Len(v) /\ Len(v) + 1 - 1 = Len(u) + 1
    BY <1>1, <1>4, <1>5, <1>6
  <2>2. a[1] = e
    BY <1>4, <1>5, <2>1
  <2>3. ASSUME NEW i \in 1 .. Len(b)
        PROVE  a[i + 1] = b[i]
    <3>1. i + 1 \in 1 .. Len(v) /\ i \in 1 .. Len(u) /\ Len(v) + 1 - (i + 1) = Len(u) + 1 - i
      BY <1>1, <1>4, <1>6
    <3>2. Len(u) + 1 - i \in 1 .. Len(u)
      BY <1>1, <3>1
    <3> QED  BY <1>4, <1>5, <1>6, <3>1, <3>2
  <2> QED  BY <2>1, <2>2, <2>3
<1>8. f \o a = r \o b
  <2>1. /\ f \o a \in Seq(Char) /\ r \o b \in Seq(Char) /\ Len(f \o a) = Len(r) + Len(b)
        /\ Len(r \o b) = Len(r) + Len(b)
    <3>1. f \o a \in Seq(Char) /\ Len(f \o a) = Len(f) + Len(a)
      BY Zenon, <1>2, <1>5, ConcatProperties
    <3>2. r \o b \in Seq(Char) /\ Len(r \o b) = Len(r) + Len(b)
      BY Zenon, <1>6, ConcatProperties
    <3>3. Len(f) + Len(a) = Len(r) + Len(b)
      <4>1. Len(b) \in Nat
        BY <1>6
      <4>2. Len(f) = Len(r) - 1 /\ Len(a) = Len(b) + 1 /\ Len(r) \in Nat
        BY Zenon, <1>1, <1>2, <1>7
      <4> QED  BY <4>1, <4>2
    <3> QED  BY Zenon, <3>1, <3>2, <3>3
  <2>2. ASSUME NEW i \in 1 .. Len(r) + Len(b)
        PROVE  (f \o a)[i] = (r \o b)[i]
    <3>1. CASE i < Len(r)
      <4>1. i \in 1 .. Len(r) - 1 /\ i \in 1 .. Len(f) /\ i \in 1 .. Len(r)
        BY <1>1, <1>2, <3>1
      <4>2. (f \o a)[i] = f[i] /\ (r \o b)[i] = r[i]
        BY <1>2, <1>5, <1>6, <4>1
      <4> QED  BY <1>1, <1>2, <4>1, <4>2
    <3>2. CASE i = Len(r)
      BY <1>1, <1>2, <1>5, <1>6, <1>7, <3>2
    <3>3. CASE i > Len(r)
      <4>1. i - Len(r) \in 1 .. Len(b) /\ a[(i - Len(r)) + 1] = b[i - Len(r)]
        <5>1. Len(b) \in Nat
          BY <1>6
        <5>2. i - Len(r) \in 1 .. Len(b)
          BY <1>1, <3>3, <5>1
        <5> QED  BY Zenon, <1>7, <5>2
      <4>2. (f \o a)[i] = a[(i - Len(r)) + 1] /\ (r \o b)[i] = b[i - Len(r)]
        BY <1>1, <1>2, <1>5, <1>6, <1>7, <3>3
      <4> QED  BY <4>1, <4>2
    <3>4. i < Len(r) \/ i = Len(r) \/ i > Len(r)
      <4>1. Len(b) \in Nat
        BY <1>6
      <4> QED  BY <1>1, <4>1
    <3> QED  BY Zenon, <3>1, <3>2, <3>3, <3>4
  <2>3. PICK c \in Seq(Char), d \in Seq(Char) : c = f \o a /\ d = r \o b
    BY Zenon, <2>1
  <2>4. Len(c) = Len(d) /\ \A i \in 1 .. Len(c) : c[i] = d[i]
    BY Zenon, <2>1, <2>2, <2>3
  <2>5. c = d
    BY Zenon, <2>3, <2>4, SeqEqual
  <2> QED  BY Zenon, <2>3, <2>5
<1> QED  BY Zenon, <1>1, <1>2, <1>3, <1>5, <1>6, <1>8

\* kgetc() takes the last character that was put back.
LEMMA GetBackKeeps ==
  ASSUME NEW r \in Seq(Char), NEW u \in Seq(Char), u # <<>>
  PROVE  /\ Append(r, Last(u)) \o Reverse(Front(u)) = r \o Reverse(u)
         /\ Front(u) \in Seq(Char) /\ Last(u) \in Char
<1>1. /\ Front(u) \in Seq(Char) /\ Last(u) \in Char /\ u = Append(Front(u), Last(u))
  <2>1. /\ Len(u) \in Nat /\ Len(u) > 0 /\ Last(u) = u[Len(u)] /\ Last(u) \in Char
        /\ Front(u) \in Seq(Char) /\ Len(Front(u)) = Len(u) - 1
        /\ \A i \in 1 .. Len(u) - 1 : Front(u)[i] = u[i]
    BY Zenon, FrontIs
  <2> QED  BY <2>1
<1>2. PICK f \in Seq(Char), e \in Char : f = Front(u) /\ e = Last(u)
  BY Zenon, <1>1
<1>3. PICK q \in Seq(Char) : q = Append(r, e)
  <2>1. Append(r, e) \in Seq(Char)
    BY <1>2
  <2> QED  BY Zenon, <2>1
<1>4. q # <<>> /\ Front(q) = r /\ Last(q) = e
  BY <1>3 DEF Front, Last
<1>5. Front(q) \o Reverse(Append(f, Last(q))) = q \o Reverse(f)
  BY Zenon, <1>4, PutBackKeeps
<1> QED  BY Zenon, <1>1, <1>2, <1>3, <1>4, <1>5

\* kgetc() from the receiver, when nothing was put back.
LEMMA GetKeeps ==
  ASSUME NEW r \in Seq(Char), NEW x \in Seq(Char), x # <<>>
  PROVE  Append(r, Head(x)) \o Reverse(<<>>) \o Tail(x) = r \o Reverse(<<>>) \o x
BY DEF Reverse

\* The buffers hold characters and keep to their sizes.
InTypeOK ==
  /\ arrived \in 0 .. Len(Input)
  /\ rx \in Seq(Char) /\ ungetArray \in Seq(Char) /\ read \in Seq(Char)
  /\ Len(rx) <= FIFO /\ Len(ungetArray) <= UNGETMAX

IInv ==
  /\ InTypeOK /\ InputExact /\ CheckedDoesNotWait
  /\ pc \in [Thread -> {"idle", "checked", "get", "echo", "acquire", "put", "done"}]

\* The receiver.
LEMMA ReceiveStep ==
  ASSUME ConsoleAssumption, IInv, Receive
  PROVE  IInv'
<1>1. /\ Input \in Seq(Char) /\ arrived \in Nat /\ arrived < Len(Input) /\ Len(Input) \in Nat
      /\ Input[arrived + 1] \in Char
  BY DEF ConsoleAssumption, IInv, InTypeOK, Receive, Char
<1>2. rx' = Append(rx, Input[arrived + 1]) /\ UNCHANGED <<pc, ungetArray, read>> /\ arrived' = arrived + 1
  BY Zenon DEF Receive
<1>3. rx' \in Seq(Char) /\ Len(rx') = Len(rx) + 1 /\ rx' # <<>> /\ Len(rx) \in Nat
  BY <1>1, <1>2 DEF IInv, InTypeOK
<1>4. InTypeOK'
  BY <1>1, <1>2, <1>3 DEF IInv, InTypeOK, Receive, ConsoleAssumption
<1>5. InputExact'
  <2>1. Reverse(ungetArray) \in Seq(Char)
    BY Zenon, ReverseIs DEF IInv, InTypeOK
  <2>2. PICK b \in Seq(Char) : b = Reverse(ungetArray)
    BY Zenon, <2>1
  <2>3. Arrived(read \o b \o rx, arrived)
    BY Zenon, <2>2 DEF IInv, InputExact, Arrived
  <2>4. read \in Seq(Char) /\ rx \in Seq(Char)
    BY Zenon DEF IInv, InTypeOK
  <2>5. Arrived(read \o b \o Append(rx, Input[arrived + 1]), arrived + 1)
    BY Zenon, <1>1, <2>2, <2>3, <2>4, ArriveKeeps
  <2> QED  BY Zenon, <1>2, <2>2, <2>5 DEF InputExact, Arrived
<1>6. CheckedDoesNotWait'
  BY Zenon, <1>3 DEF CheckedDoesNotWait
<1> QED  BY Zenon, <1>2, <1>4, <1>5, <1>6 DEF IInv

\* A step that leaves the input alone, and after which the reader is not in
\* the state after kcheckc() unless it was.
LEMMA InputStays ==
  ASSUME IInv, UNCHANGED <<arrived, rx, ungetArray, read>>, NEW t \in Thread,
         NEW l \in {"idle", "checked", "get", "echo", "acquire", "put", "done"},
         UNCHANGED pc \/ Goto(t, l),
         l = "checked" => ungetArray # <<>> \/ rx # <<>>
  PROVE  IInv'
<1>1. /\ pc' \in [Thread -> {"idle", "checked", "get", "echo", "acquire", "put", "done"}]
      /\ \A q \in Thread : pc'[q] = pc[q] \/ pc'[q] = l
  BY Zenon DEF IInv, Goto
<1>2. InTypeOK' /\ InputExact'
  BY Zenon DEF IInv, InTypeOK, InputExact
<1>3. CheckedDoesNotWait'
  BY Zenon, <1>1 DEF IInv, CheckedDoesNotWait, Thread
<1> QED  BY Zenon, <1>1, <1>2, <1>3 DEF IInv

\* kgetc(), in sc_getc() and _readint().
LEMMA GetStep ==
  ASSUME ConsoleAssumption, IInv, NEW c, kgetc(c), read' = Append(read, c), UNCHANGED arrived,
         NEW l \in {"idle", "echo"}, Goto(Reader, l)
  PROVE  IInv'
<1>0. rx \in Seq(Char) /\ ungetArray \in Seq(Char) /\ read \in Seq(Char)
      /\ read \o Reverse(ungetArray) \o rx = SubSeq(Input, 1, arrived)
  BY Zenon DEF IInv, InTypeOK, InputExact
<1>1. /\ pc' \in [Thread -> {"idle", "checked", "get", "echo", "acquire", "put", "done"}]
      /\ pc'[Reader] = l
  BY Zenon DEF IInv, Goto, Thread
<1>2. CheckedDoesNotWait'
  BY <1>1 DEF CheckedDoesNotWait
<1>3. CASE ungetArray # <<>> /\ c = Last(ungetArray) /\ ungetArray' = Front(ungetArray) /\ UNCHANGED rx
  <2>1. /\ Append(read, c) \o Reverse(Front(ungetArray)) = read \o Reverse(ungetArray)
        /\ Front(ungetArray) \in Seq(Char) /\ c \in Char
    BY Zenon, <1>0, <1>3, GetBackKeeps
  <2>2. InputExact'
    BY Zenon, <1>0, <1>3, <2>1 DEF InputExact
  <2>3. Len(Front(ungetArray)) = Len(ungetArray) - 1 /\ Len(ungetArray) \in Nat
    BY Zenon, <1>0, <1>3, FrontIs
  <2>4. Append(read, c) \in Seq(Char)
    BY <1>0, <2>1
  <2>5. InTypeOK'
    BY <1>3, <2>1, <2>3, <2>4 DEF IInv, InTypeOK, ConsoleAssumption
  <2> QED  BY Zenon, <1>1, <1>2, <2>2, <2>5 DEF IInv
<1>4. CASE ungetArray = <<>> /\ rx # <<>> /\ c = Head(rx) /\ rx' = Tail(rx) /\ UNCHANGED ungetArray
  <2>1. Append(read, c) \o Reverse(<<>>) \o Tail(rx) = read \o Reverse(<<>>) \o rx
    BY Zenon, <1>0, <1>4, GetKeeps
  <2>2. InputExact'
    BY Zenon, <1>0, <1>4, <2>1 DEF InputExact
  <2>3. /\ Tail(rx) \in Seq(Char) /\ Len(Tail(rx)) <= Len(rx) /\ Len(rx) \in Nat
        /\ Append(read, c) \in Seq(Char)
    BY <1>0, <1>4
  <2>4. InTypeOK'
    BY <1>4, <2>3 DEF IInv, InTypeOK, ConsoleAssumption
  <2> QED  BY Zenon, <1>1, <1>2, <2>2, <2>4 DEF IInv
<1> QED  BY Zenon, <1>3, <1>4 DEF kgetc

\* kungetc() of the character read last.
LEMMA UngetStep ==
  ASSUME ConsoleAssumption, IInv, Kungetc
  PROVE  IInv'
<1>0. /\ rx \in Seq(Char) /\ ungetArray \in Seq(Char) /\ read \in Seq(Char) /\ read # <<>>
      /\ read \o Reverse(ungetArray) \o rx = SubSeq(Input, 1, arrived)
      /\ UNCHANGED pc /\ UNCHANGED arrived /\ UNCHANGED rx /\ pc[Reader] = "idle"
  BY Zenon DEF IInv, InTypeOK, InputExact, Kungetc
<1>1. CheckedDoesNotWait'
  BY <1>0 DEF CheckedDoesNotWait
<1>2. CASE UNCHANGED <<ungetArray, read>>
  BY Zenon, <1>0, <1>1, <1>2 DEF IInv, InTypeOK, InputExact
<1>3. CASE /\ Len(ungetArray) < UNGETMAX
           /\ ungetArray' = Append(ungetArray, Last(read)) /\ read' = Front(read)
  <2>1. /\ Front(read) \o Reverse(Append(ungetArray, Last(read))) = read \o Reverse(ungetArray)
        /\ Front(read) \in Seq(Char) /\ Last(read) \in Char
    BY Zenon, <1>0, PutBackKeeps
  <2>2. InputExact'
    BY Zenon, <1>0, <1>3, <2>1 DEF InputExact
  <2>3. /\ Append(ungetArray, Last(read)) \in Seq(Char) /\ Len(ungetArray) \in Nat
        /\ Len(Append(ungetArray, Last(read))) = Len(ungetArray) + 1
    BY <1>0, <2>1
  <2>4. InTypeOK'
    BY <1>0, <1>3, <2>1, <2>3 DEF IInv, InTypeOK, ConsoleAssumption
  <2> QED  BY Zenon, <1>0, <1>1, <2>2, <2>4 DEF IInv
<1> QED  BY Zenon, <1>2, <1>3 DEF Kungetc

\* Every step of the console.
LEMMA InputNext ==
  ASSUME ConsoleAssumption, IInv, [Next]_vars
  PROVE  IInv'
<1> USE DEF invars
<1>0. Reader \in Thread
  BY Zenon DEF Thread
<1>1. ASSUME UNCHANGED <<arrived, rx, ungetArray, read>>, UNCHANGED pc
      PROVE  IInv'
  BY Zenon, <1>0, <1>1, InputStays
<1>2. ASSUME Transmit \/ sc_putc \/ UNCHANGED vars \/ \E k \in Core : Switch(k)
      PROVE  IInv'
  <2>1. UNCHANGED <<arrived, rx, ungetArray, read>> /\ UNCHANGED pc
    BY Zenon, <1>2 DEF Transmit, sc_putc, vars, Switch
  <2> QED  BY Zenon, <1>1, <2>1
<1>3. ASSUME NEW t \in Thread, kprintf(t)
      PROVE  IInv'
  <2>1. PICK l \in {"idle", "put", "done"} : UNCHANGED pc \/ Goto(t, l)
    BY Zenon, <1>3 DEF kprintf, Acquire, Put, Release
  <2>2. UNCHANGED <<arrived, rx, ungetArray, read>>
    BY Zenon, <1>3 DEF kprintf, Acquire, Put, Release
  <2> QED  BY <2>1, <2>2, InputStays
<1>4. CASE Kcheckc
  <2>1. PICK l \in {"idle", "checked"} : Goto(Reader, l) /\ (l = "checked" => kcheckc)
    BY <1>4 DEF Kcheckc
  <2>2. UNCHANGED <<arrived, rx, ungetArray, read>>
    BY Zenon, <1>4 DEF Kcheckc
  <2>3. l = "checked" => ungetArray # <<>> \/ rx # <<>>
    BY Zenon, <2>1 DEF kcheckc
  <2> QED  BY <1>0, <2>1, <2>2, <2>3, InputStays
<1>5. ASSUME ReadintBegin \/ ReadintEcho \/ \E code \in {2, 8, 17}, descrp \in {0, 1} : syscall_dispatch(code, descrp)
      PROVE  IInv'
  <2>1. PICK l \in {"idle", "get", "acquire"} : Goto(Reader, l)
    BY Zenon, <1>5 DEF ReadintBegin, ReadintEcho, syscall_dispatch
  <2>2. UNCHANGED <<arrived, rx, ungetArray, read>>
    BY Zenon, <1>5 DEF ReadintBegin, ReadintEcho, syscall_dispatch
  <2> QED  BY <1>0, <2>1, <2>2, InputStays
<1>6. CASE sc_getc
  BY Zenon, <1>6, GetStep DEF sc_getc
<1>7. CASE ReadintGet
  BY Zenon, <1>7, GetStep DEF ReadintGet
<1> QED  BY Zenon, <1>2, <1>3, <1>4, <1>5, <1>6, <1>7, ReceiveStep, UngetStep DEF Next, UserCalls

\* The scheduler and the transmitter: a process runs on each core, and the
\* FIFO keeps to its size.
LEMMA CoreStep ==
  ASSUME ConsoleAssumption, running \in [Core -> Thread], tx \in 0..FIFO, [Next]_vars
  PROVE  running' \in [Core -> Thread] /\ tx' \in 0..FIFO
<1> USE DEF ConsoleAssumption, outvars
<1>1. ASSUME UNCHANGED running, UNCHANGED tx \/ (tx > 0 /\ tx' = tx - 1) \/ kputc
      PROVE  running' \in [Core -> Thread] /\ tx' \in 0..FIFO
  BY <1>1 DEF kputc
<1>2. ASSUME NEW k \in Core, Switch(k)
      PROVE  running' \in [Core -> Thread] /\ tx' \in 0..FIFO
  BY Zenon, <1>2 DEF Switch
<1>3. CASE Receive \/ Transmit \/ UNCHANGED vars
  BY Zenon, <1>1, <1>3 DEF Receive, Transmit, vars
<1>4. CASE UserCalls
  <2>1. UNCHANGED running /\ (UNCHANGED tx \/ kputc)
    BY Zenon, <1>4 DEF UserCalls, Kungetc, Kcheckc, sc_getc, sc_putc, ReadintBegin, ReadintGet, ReadintEcho,
                       syscall_dispatch
  <2> QED  BY Zenon, <1>1, <2>1
<1>5. ASSUME NEW t \in Thread, kprintf(t)
      PROVE  running' \in [Core -> Thread] /\ tx' \in 0..FIFO
  <2>1. UNCHANGED running /\ (UNCHANGED tx \/ kputc)
    BY Zenon, <1>5 DEF kprintf, Acquire, Put, Release
  <2> QED  BY Zenon, <1>1, <2>1
<1> QED  BY Zenon, <1>2, <1>3, <1>4, <1>5 DEF Next

\* Every character that arrives is read once and in order, however often the
\* reader puts characters back, kgetc() does not wait after a kcheckc() that
\* returned true, and no buffer overflows, for any input and any sizes.
THEOREM InputExactHolds ==
  ASSUME ConsoleAssumption
  PROVE  Spec => [](TypeOK /\ InputExact /\ CheckedDoesNotWait)
<1>1. Init => IInv
  <2> SUFFICES ASSUME Init
               PROVE  IInv
    OBVIOUS
  <2>1. /\ arrived = 0 /\ rx = <<>> /\ ungetArray = <<>> /\ read = <<>> /\ pc[Reader] = "idle"
        /\ pc \in [Thread -> {"idle", "checked", "get", "echo", "acquire", "put", "done"}]
    BY Zenon DEF Init, Thread
  <2>2. Input \in Seq(Char)
    BY Zenon DEF ConsoleAssumption, Char
  <2>3. InTypeOK
    BY <2>1, <2>2 DEF InTypeOK, ConsoleAssumption
  <2>4. Reverse(<<>>) = <<>> /\ SubSeq(Input, 1, 0) = <<>>
    BY <2>2 DEF Reverse
  <2>5. InputExact
    <3>1. <<>> \o <<>> \o <<>> = <<>>
      OBVIOUS
    <3> QED  BY Zenon, <2>1, <2>4, <3>1 DEF InputExact
  <2> QED  BY <2>1, <2>3, <2>5 DEF IInv, CheckedDoesNotWait
<1>2. IInv /\ [Next]_vars => IInv'
  BY Zenon, InputNext
<1>3. Init => PInv /\ running \in [Core -> Thread] /\ tx \in 0..FIFO
  <2> SUFFICES ASSUME Init
               PROVE  PInv /\ running \in [Core -> Thread] /\ tx \in 0..FIFO
    OBVIOUS
  <2>1. running \in [Core -> Thread] /\ tx = 0 /\ PInv
    BY Zenon, PrintInit DEF Init
  <2> QED  BY <2>1 DEF ConsoleAssumption
<1>4. PInv /\ [Next]_vars => PInv'
  BY Zenon, PrintNext
<1>5. running \in [Core -> Thread] /\ tx \in 0..FIFO /\ [Next]_vars
        => (running \in [Core -> Thread] /\ tx \in 0..FIFO)'
  BY Zenon, CoreStep
<1>6. IInv /\ PInv /\ running \in [Core -> Thread] /\ tx \in 0..FIFO => TypeOK /\ InputExact /\ CheckedDoesNotWait
  BY Zenon DEF IInv, InTypeOK, PInv, OutTypeOK, TypeOK
<1> QED  BY <1>1, <1>2, <1>3, <1>4, <1>5, <1>6, PTL DEF Spec
=============================================================================
