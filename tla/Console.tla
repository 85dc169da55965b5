------------------------------ MODULE Console -------------------------------
(***************************************************************************)
(* The serial console: kgetc, kungetc, kcheckc, kputc and kprintf of       *)
(* kprintf.c, the system calls of syscall_dispatch.c that reach them, and  *)
(* _readint() of minijava.c.                                               *)
(*                                                                         *)
(* Printers are processes, on any core, that call kprintf(); one user      *)
(* process reads.  serial_lock is a lock of module LockSpec.  Interrupts   *)
(* stay enabled in kprintf(), so a core may switch to another of its       *)
(* processes while the lock is held, unless the one that runs is Masked.   *)
(* The UART has a receive FIFO and a transmit FIFO.  Of the output only    *)
(* the number of characters in the FIFO and the last two characters of     *)
(* messages put into it are kept, each a pair of the process and the place *)
(* in its message.                                                         *)
(***************************************************************************)
EXTENDS Integers, Sequences, SequencesExt, FiniteSets

CONSTANTS
    Printers, Reader,  \* processes
    HomeCore,          \* the core of each process
    Masked,            \* the processes that run with interrupts disabled
    MSGLEN,            \* characters of a message
    FIFO,              \* size of the UART's FIFOs
    UNGETMAX,          \* size of ungetArray
    Input,             \* all the characters that arrive
    CALLS              \* bound: system calls made by the reader

(* Messages and buffers have a length, and the lock word of no owner names *)
(* no process.                                                             *)
ConsoleAssumption ==
    /\ MSGLEN \in Nat /\ FIFO \in Nat /\ UNGETMAX \in Nat
    /\ Input \in Seq(Range(Input))
    /\ "free" \notin Printers \cup {Reader}

Thread == Printers \cup {Reader}
Core == {HomeCore[t] : t \in Thread}
Free == "free"
Digits == [d \in {"0", "1", "2"} |-> CASE d = "0" -> 0 [] d = "1" -> 1 [] OTHER -> 2]

VARIABLES
    running,      \* the process on each core
    pc, at,       \* where each process is, characters of its message sent
    serial_lock,  \* who holds it
    tx, sent,     \* characters in the transmit FIFO, the last two put into it
    arrived, rx,  \* characters that arrived, receive FIFO
    ungetArray,   \* characters put back, the last one on top
    read,         \* the characters the reader has read and not put back
    acc, from,    \* _readint(): i, and how much had been read at its start
    calls         \* calls left to the reader
vars == <<running, pc, at, serial_lock, tx, sent, arrived, rx, ungetArray, read,
          acc, from, calls>>
outvars == <<at, serial_lock, tx, sent>>
invars == <<arrived, rx, ungetArray, read, acc, from, calls>>

Init ==
    /\ running \in [Core -> Thread] /\ \A k \in Core : HomeCore[running[k]] = k
    /\ pc = [t \in Thread |-> IF t = Reader THEN "idle" ELSE "acquire"]
    /\ at = [t \in Thread |-> 0]
    /\ serial_lock = Free /\ tx = 0 /\ sent = <<>>
    /\ arrived = 0 /\ rx = <<>> /\ ungetArray = <<>> /\ read = <<>>
    /\ acc = 0 /\ from = 0 /\ calls = CALLS

----------------------------------------------------------------------------
(* The UART and the scheduler *)

Receive == /\ arrived < Len(Input) /\ Len(rx) < FIFO
           /\ arrived' = arrived + 1 /\ rx' = Append(rx, Input[arrived + 1])
           /\ UNCHANGED <<running, pc, outvars, ungetArray, read, acc, from, calls>>

Transmit == /\ tx > 0 /\ tx' = tx - 1
            /\ UNCHANGED <<running, pc, at, serial_lock, sent, invars>>

Switch(k) == /\ running[k] \notin Masked
             /\ \E t \in Thread \ {running[k]} :
                    HomeCore[t] = k /\ running' = [running EXCEPT ![k] = t]
             /\ UNCHANGED <<pc, outvars, invars>>

Runs(t) == running[HomeCore[t]] = t
Goto(t, l) == pc' = [pc EXCEPT ![t] = l]

----------------------------------------------------------------------------
(* Output *)

kputc == tx < FIFO /\ tx' = tx + 1

(* Mutant: kprintf() does not take the lock. *)
AcquireNone(t) == /\ Runs(t) /\ pc[t] = "acquire" /\ Goto(t, "put")
                  /\ UNCHANGED <<running, outvars, invars>>

(* kprintf(): the lock, the characters of _doprnt, the unlock *)
Acquire(t) == /\ Runs(t) /\ pc[t] = "acquire" /\ serial_lock = Free
              /\ serial_lock' = t /\ Goto(t, "put")
              /\ UNCHANGED <<running, at, tx, sent, invars>>

Put(t) == /\ Runs(t) /\ pc[t] = "put" /\ at[t] < MSGLEN
          /\ kputc
          /\ sent' = <<IF sent = <<>> THEN <<t, 0>> ELSE Last(sent), <<t, at[t] + 1>>>>
          /\ at' = [at EXCEPT ![t] = @ + 1]
          /\ UNCHANGED <<running, pc, serial_lock, invars>>

(* Mutant: an unlock is missing. *)
ReleaseNot(t) == /\ Runs(t) /\ pc[t] = "put" /\ at[t] = MSGLEN
                 /\ at' = [at EXCEPT ![t] = 0]
                 /\ Goto(t, IF t = Reader THEN "idle" ELSE "done")
                 /\ UNCHANGED <<running, serial_lock, tx, sent, invars>>

Release(t) == /\ Runs(t) /\ pc[t] = "put" /\ at[t] = MSGLEN
              /\ serial_lock' = Free
              /\ at' = [at EXCEPT ![t] = 0]
              /\ Goto(t, IF t = Reader THEN "idle" ELSE "done")
              /\ UNCHANGED <<running, tx, sent, invars>>

kprintf(t) == Acquire(t) \/ Put(t) \/ Release(t)

----------------------------------------------------------------------------
(* Input *)

(* Mutant: the receiver is looked at first. *)
kgetcReceiverFirst(c) ==
    \/ /\ rx # <<>> /\ c = Head(rx) /\ rx' = Tail(rx) /\ UNCHANGED ungetArray
    \/ /\ rx = <<>> /\ ungetArray # <<>> /\ c = Last(ungetArray)
       /\ ungetArray' = Front(ungetArray) /\ UNCHANGED rx

(* kgetc(): what was put back comes first; without it the call waits for   *)
(* the receiver                                                            *)
kgetc(c) == \/ /\ ungetArray # <<>> /\ c = Last(ungetArray)
               /\ ungetArray' = Front(ungetArray) /\ UNCHANGED rx
            \/ /\ ungetArray = <<>> /\ rx # <<>> /\ c = Head(rx)
               /\ rx' = Tail(rx) /\ UNCHANGED ungetArray

kcheckc == ~(ungetArray = <<>> /\ rx = <<>>)

(* the reader puts back the character it read last; SYSERR when full *)
Kungetc ==
    /\ Runs(Reader) /\ pc[Reader] = "idle" /\ calls > 0 /\ read # <<>>
    /\ calls' = calls - 1
    /\ IF Len(ungetArray) < UNGETMAX
       THEN /\ ungetArray' = Append(ungetArray, Last(read))
            /\ read' = Front(read)
       ELSE UNCHANGED <<ungetArray, read>>
    /\ UNCHANGED <<running, pc, outvars, arrived, rx, acc, from>>

Kcheckc ==
    /\ Runs(Reader) /\ pc[Reader] = "idle" /\ calls > 0
    /\ calls' = calls - 1
    /\ Goto(Reader, IF kcheckc THEN "checked" ELSE "idle")
    /\ UNCHANGED <<running, outvars, arrived, rx, ungetArray, read, acc, from>>

----------------------------------------------------------------------------
(* System calls of the reader.  The numbers without a handler of their own *)
(* have sc_none.  sc_yield is a Switch; sc_kill is kill(), which is        *)
(* modelled in Sched and Lifecycle and does not touch the console.         *)
syscall_table == [code \in 0..16 |->
    CASE code = 1 -> "sc_yield" [] code = 3 -> "sc_kill" [] code = 8 -> "sc_getc"
      [] code = 9 -> "sc_putc" [] OTHER -> "sc_none"]
nsyscall == Cardinality(DOMAIN syscall_table)

(* the calls that return at once: no operation (OK), a descriptor that is  *)
(* not 0 (SYSERR), and a number out of range, which is reported with       *)
(* kprintf() (SYSERR)                                                      *)
syscall_dispatch(code, descrp) ==
    LET known == code \in 0..nsyscall - 1
        handler == syscall_table[code]
    IN  /\ Runs(Reader) /\ pc[Reader] = "idle" /\ calls > 0
        /\ known => handler = "sc_none" \/ (handler \in {"sc_getc", "sc_putc"} /\ descrp # 0)
        /\ calls' = calls - 1
        /\ Goto(Reader, IF known THEN "idle" ELSE "acquire")
        /\ UNCHANGED <<running, outvars, arrived, rx, ungetArray, read, acc, from>>

(* descriptor 0 is the console *)
sc_getc ==
    /\ Runs(Reader) /\ pc[Reader] \in {"idle", "checked"} /\ calls > 0
    /\ \E c \in Range(Input) : kgetc(c) /\ read' = Append(read, c)
    /\ calls' = calls - 1
    /\ Goto(Reader, "idle")
    /\ UNCHANGED <<running, outvars, arrived, acc, from>>

sc_putc ==
    /\ Runs(Reader) /\ pc[Reader] = "idle" /\ calls > 0
    /\ kputc
    /\ calls' = calls - 1
    /\ UNCHANGED <<running, pc, at, serial_lock, sent, arrived, rx, ungetArray, read, acc, from>>

----------------------------------------------------------------------------
(* _readint(): characters are read and echoed up to the end of the line,   *)
(* digits make up the number and anything else is skipped, then a newline  *)
(* is printed                                                              *)
ReadintBegin ==
    /\ Runs(Reader) /\ pc[Reader] = "idle" /\ calls > 0
    /\ calls' = calls - 1 /\ acc' = 0 /\ from' = Len(read)
    /\ Goto(Reader, "get")
    /\ UNCHANGED <<running, outvars, arrived, rx, ungetArray, read>>

ReadintGet ==
    /\ Runs(Reader) /\ pc[Reader] = "get"
    /\ \E c \in Range(Input) : kgetc(c) /\ read' = Append(read, c)
    /\ Goto(Reader, "echo")
    /\ UNCHANGED <<running, outvars, arrived, acc, from, calls>>

Accumulate(i, c) == IF c \in DOMAIN Digits THEN i * 10 + Digits[c] ELSE i

ReadintEcho ==
    /\ Runs(Reader) /\ pc[Reader] = "echo"
    /\ kputc
    /\ IF Last(read) = "\n" THEN acc' = 0 /\ Goto(Reader, "acquire")
       ELSE acc' = Accumulate(acc, Last(read)) /\ Goto(Reader, "get")
    /\ UNCHANGED <<running, at, serial_lock, sent, arrived, rx, ungetArray, read, from, calls>>

UserCalls == \/ Kungetc \/ Kcheckc \/ sc_getc \/ sc_putc
             \/ ReadintBegin \/ ReadintGet \/ ReadintEcho
             \/ \E code \in {2, 8, 17}, descrp \in {0, 1} : syscall_dispatch(code, descrp)

Next == \/ Receive \/ Transmit \/ UserCalls
        \/ \E k \in Core : Switch(k)
        \/ \E t \in Thread : kprintf(t)

(* A core that may switch gives every process its time slices, and a time  *)
(* slice lasts for many instructions.                                      *)
Fairness == /\ WF_vars(Transmit)
            /\ \A k \in Core : WF_vars(Switch(k))
            /\ \A t \in Thread : SF_vars(kprintf(t))
Spec == Init /\ [][Next]_vars /\ Fairness
----------------------------------------------------------------------------
(* Properties *)

TypeOK ==
    /\ running \in [Core -> Thread] /\ serial_lock \in Thread \cup {Free}
    /\ pc \in [Thread -> {"idle", "checked", "get", "echo", "acquire", "put", "done"}]
    /\ at \in [Thread -> 0..MSGLEN]
    /\ tx \in 0..FIFO /\ Len(rx) <= FIFO /\ Len(ungetArray) <= UNGETMAX

(* kprintf() messages come out whole: between two characters of a message  *)
(* there are no characters of another one, though processes are switched   *)
(* and other cores print at any time.  Characters sent by kputc() directly *)
(* (the echo of _readint() and sc_putc) take no lock and are excepted.     *)
PrintfWhole ==
    sent # <<>> => \/ sent[2] = <<sent[1][1], sent[1][2] + 1>>
                   \/ sent[2][2] = 1 /\ sent[1][2] = MSGLEN

(* Every character that arrives is read once and in order, however often   *)
(* the reader puts characters back and though kungetc() may refuse one:    *)
(* what has been read, what was put back and what is in the receiver are   *)
(* together what has arrived.                                              *)
InputExact == read \o Reverse(ungetArray) \o rx = SubSeq(Input, 1, arrived)

(* After kcheckc() returned true the reader's next kgetc() does not wait.  *)
CheckedDoesNotWait == pc[Reader] = "checked" => ungetArray # <<>> \/ rx # <<>>

(* _readint() returns the number made of the digits of the line it read.   *)
ReadintValue ==
    pc[Reader] \in {"get", "echo"} =>
        acc = FoldLeft(LAMBDA n, c : 10 * n + Digits[c], 0,
                  SelectSeq(SubSeq(read, from + 1, Len(read) - (IF pc[Reader] = "echo" THEN 1 ELSE 0)),
                            LAMBDA c : c \in DOMAIN Digits))

Printed(t) == pc[t] = "done"

(* Every kprintf() returns, as long as a process that runs with interrupts *)
(* disabled has its core to itself: the holder of serial_lock may be       *)
(* switched out while others wait for it, but it runs again.               *)
PrintfReturns == <>(\A t \in Printers : Printed(t))
=============================================================================
