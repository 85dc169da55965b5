------------------------------ MODULE Context -------------------------------
(***************************************************************************)
(* Registers across interrupts and context switches: ctxsw.S and           *)
(* irq_handler.S with the frame that create() builds (ARM), kernenter and  *)
(* kernexit of interrupt.S (RISC-V).                                       *)
(*                                                                         *)
(* The assembly routines are sequences of instructions that Exec runs.  A  *)
(* register holds a tuple that says whose value it is: <<p, r>> is what    *)
(* process p keeps in register r while its own code runs.  mem holds the   *)
(* save areas; a stack is a sequence of words, the last one on top, and a  *)
(* stack pointer is <<"stack", p, number of words>>.                       *)
(***************************************************************************)
EXTENDS Integers, Sequences, SequencesExt

CONSTANTS Proc,   \* processes (ARM)
          NARGS,  \* numbers of arguments given to create()
          Depth   \* words on a process's stack when it is interrupted

VARIABLES arch,   \* "arm" or "riscv"
          m,      \* registers (r), save areas (mem), stacks
          cur,    \* the process that runs
          mode,   \* what each process was doing when it last ran
          nargs   \* arguments of each process
vars == <<arch, m, cur, mode, nargs>>

Junk == <<"junk">>
Mov(d, s) == [op |-> "mov", d |-> d, s |-> s]
Str(d, b, o) == [op |-> "str", d |-> d, b |-> b, o |-> o]
Ldr(d, b, o) == [op |-> "ldr", d |-> d, b |-> b, o |-> o]

Exec(s, i) ==
    CASE i.op = "mov" -> [s EXCEPT !.r[i.d] = s.r[i.s]]
      [] i.op = "str" -> [s EXCEPT !.mem[s.r[i.b]][i.o] = s.r[i.d]]
      [] i.op = "ldr" -> [s EXCEPT !.r[i.d] = s.mem[s.r[i.b]][i.o]]
Run(s, program) == FoldLeft(Exec, s, program)

----------------------------------------------------------------------------
(* ARM *)

CalleeSaved == <<"r4", "r5", "r6", "r7", "r8", "r9", "r10", "r11">>
Low == <<"r1", "r2", "r3">> \o CalleeSaved
ArmReg == {"r0", "ip", "sp", "lr", "pc", "cpsr"} \cup Range(Low)
Scratch == {"r0", "r1", "r2", "r3", "ip", "lr", "pc", "cpsr"}
Frame(p) == <<"frame", p>>

(* ctxsw(&old->regs, &new->regs), with the two addresses in r0 and r1 *)
ctxsw ==
    <<Mov("ip", "r0"), Str("r0", "ip", "r0"), Mov("r0", "ip"), Mov("ip", "r1")>>
    \o [i \in DOMAIN Low |-> Str(Low[i], "r0", Low[i])]
    \o <<Str("lr", "r0", "lr"), Str("lr", "r0", "pc"), Str("sp", "r0", "sp"),
         Ldr("r0", "ip", "r0")>>
    \o [i \in DOMAIN Low |-> Ldr(Low[i], "ip", Low[i])]
    \o <<Ldr("sp", "ip", "sp"), Ldr("lr", "ip", "lr"), Ldr("pc", "ip", "pc")>>

Words(s) == s.r["sp"][3]
SetWords(s, n) == [s EXCEPT !.r["sp"][3] = n]

(* push and pop: the register named first has the lowest address *)
Push(s, p, regs) ==
    LET vals == [i \in DOMAIN regs |-> s.r[regs[i]]]
    IN  SetWords([s EXCEPT !.stack[p] = SubSeq(@, 1, Words(s)) \o Reverse(vals)],
                 Words(s) + Len(regs))
Pop(s, p, regs) ==
    LET top == Words(s)
        val(r) == s.stack[p][top - (CHOOSE i \in DOMAIN regs : regs[i] = r) + 1]
    IN  SetWords([s EXCEPT !.r = [r \in DOMAIN s.r |->
                                     IF Contains(regs, r) THEN val(r) ELSE s.r[r]],
                           !.stack[p] = SubSeq(@, 1, top - Len(regs))],
                 top - Len(regs))

Saved == <<"r0", "r1", "r2", "r3", "r4", "ip", "lr">>
(* irq_handler up to the call of dispatch(): srsdb, push, then r4 holds    *)
(* the padding that makes the stack 8-byte aligned                         *)
IrqEntry(s, p) ==
    LET pushed == Push(Push(s, p, <<"pc", "cpsr">>), p, Saved)
        pad == Words(pushed) % 2
    IN  SetWords([pushed EXCEPT !.r["r4"] = <<"pad", pad>>,
                                !.stack[p] = @ \o [i \in 1..pad |-> Junk]],
                 Words(pushed) + pad)

(* Mutant: the padding is not taken off. *)
IrqExitNoPad(s, p) == Pop(Pop(s, p, Saved), p, <<"pc", "cpsr">>)

(* and from its return on: the padding, pop, rfeia *)
IrqExit(s, p) ==
    Pop(Pop(SetWords(s, Words(s) - s.r["r4"][2]), p, Saved), p, <<"pc", "cpsr">>)

(* what C code may do to the scratch registers of the caller *)
Clobber(s) == [s EXCEPT !.r = [r \in DOMAIN s.r |-> IF r \in Scratch THEN Junk ELSE s.r[r]]]

(* what process p's own code keeps in the registers *)
Own(s, p, n) == [s EXCEPT !.r = [r \in DOMAIN s.r |->
                                    IF r = "sp" THEN <<"stack", p, n>> ELSE <<p, r>>]]

(* create(): words for the arguments after the fourth, a multiple of four *)
Pads(n) == IF n = 0 THEN 0 ELSE ((n - 1) \div 4) * 4

(* create(): the accounting block, room for the arguments after the fourth,*)
(* and the registers of the frame.  The rest of the frame is what the slot *)
(* held before.                                                            *)
create(p, n) ==
    LET pads == Pads(n)
        account == [i \in 1..4 |-> <<"account", p, i>>]
        args == [i \in 1..pads |-> LET k == pads - i + 4 IN
                                   IF k < n THEN <<"arg", p, k>> ELSE <<"zero">>]
    IN  [frame |-> [r \in ArmReg |->
                       CASE r = "pc" -> <<"funcaddr", p>> [] r = "lr" -> <<"userret">>
                         [] r = "sp" -> <<"stack", p, 4 + pads>>
                         [] \E k \in 0..3 : k < n /\ r = <<"r0", "r1", "r2", "r3">>[k + 1] ->
                              <<"arg", p, CHOOSE k \in 0..3 : r = <<"r0", "r1", "r2", "r3">>[k + 1]>>
                         [] OTHER -> Junk],
         stack |-> account \o args]

----------------------------------------------------------------------------
(* RISC-V.  Constants, CSRs and the words the kernel put in the swap area  *)
(* are registers and slots like the others.                                *)

User == <<"ra", "sp", "gp", "tp", "t1", "t2", "s0", "s1", "a0", "a1", "a2", "a3", "a4", "a5",
          "a6", "a7", "s2", "s3", "s4", "s5", "s6", "s7", "s8", "s9", "s10", "s11",
          "t3", "t4", "t5", "t6">>
RiscvReg == Range(User) \cup {"t0"}
Csr == {"sscratch", "satp", "scause", "stval", "sepc", "SWAPAREAADDR"}
Swap == <<"frame", "swap">>

kernenter ==
    <<Mov("sscratch", "a0"), Mov("a0", "SWAPAREAADDR"), Str("t0", "a0", "t0"),
      Mov("t0", "a0"), Mov("a0", "sscratch")>>
    \o [i \in DOMAIN User |-> Str(User[i], "t0", User[i])]
    \o <<Ldr("a1", "t0", "KERNSATP"), Ldr("sp", "t0", "KERNSP"),
         Ldr("t1", "t0", "DISPATCH_ADDR"), Mov("satp", "a1"),
         Mov("a0", "scause"), Mov("a1", "stval"), Mov("a2", "sepc")>>

kernexit ==
    <<Mov("a1", "a0"), Mov("satp", "a1"), Mov("a0", "SWAPAREAADDR"),
      Ldr("t0", "a0", "t0"), Mov("sscratch", "t0"), Mov("t0", "a0")>>
    \o [i \in DOMAIN User |-> Ldr(User[i], "t0", User[i])]
    \o <<Mov("t0", "sscratch")>>

----------------------------------------------------------------------------
ArmInit ==
    /\ arch = "arm" /\ cur \in Proc
    /\ mode = [p \in Proc |-> IF p = cur THEN "user" ELSE "new"]
    /\ nargs \in [Proc -> NARGS]
    /\ \E n \in Depth :
         m = Own([r |-> [r \in ArmReg |-> Junk],
                  mem |-> [f \in {Frame(p) : p \in Proc} |-> create(f[2], nargs[f[2]]).frame],
                  stack |-> [p \in Proc |-> IF p = cur THEN [i \in 1..n |-> <<p, "word", i>>]
                                            ELSE create(p, nargs[p]).stack]],
                 cur, n)

RiscvInit ==
    /\ arch = "riscv" /\ cur = "user" /\ mode = [p \in {cur} |-> "user"]
    /\ nargs = [p \in {cur} |-> 0]
    /\ m = [r |-> [r \in RiscvReg \cup Csr |->
                      IF r = "SWAPAREAADDR" THEN Swap
                      ELSE IF r = "satp" THEN <<"user satp">> ELSE <<cur, r>>],
            mem |-> [f \in {Swap} |->
                        [o \in RiscvReg \cup {"KERNSATP", "KERNSP", "DISPATCH_ADDR"} |->
                            IF o \in RiscvReg THEN Junk ELSE <<o>>]],
            stack |-> <<>>]

Init == ArmInit \/ RiscvInit

(* an interrupt of the process's own code; dispatch() and what it calls    *)
(* clobber the scratch registers and preserve the others                   *)
Interrupt == /\ arch = "arm" /\ mode[cur] = "user"
             /\ m' = Clobber(IrqEntry(m, cur))
             /\ mode' = [mode EXCEPT ![cur] = "irq"]
             /\ UNCHANGED <<arch, cur, nargs>>

(* resched() inside the handler or called by the process: the registers    *)
(* of q are loaded, and q goes on where its pc says                        *)
Resched(q) ==
    LET called == [Clobber(m) EXCEPT !.r["r0"] = Frame(cur), !.r["r1"] = Frame(q),
                                     !.r["lr"] = <<"resched">>]
    IN  /\ arch = "arm" /\ mode[cur] \in {"irq", "user"} /\ q # cur
        /\ mode' = [mode EXCEPT ![cur] = IF @ = "user" THEN "call" ELSE @,
                                ![q] = IF @ = "new" THEN "start" ELSE @]
        /\ m' = Run(called, ctxsw)
        /\ cur' = q
        /\ UNCHANGED <<arch, nargs>>

IrqReturn == /\ arch = "arm" /\ mode[cur] = "irq"
             /\ m' = IrqExit(Clobber(m), cur)
             /\ mode' = [mode EXCEPT ![cur] = "user"]
             /\ UNCHANGED <<arch, cur, nargs>>

(* back in the process's own code after its call of resched(), or at its   *)
(* first instruction: it goes on to use the scratch registers (and a new   *)
(* process all but the stack pointer)                                      *)
Resume == /\ arch = "arm" /\ mode[cur] \in {"call", "start"}
          /\ m' = IF mode[cur] = "start" THEN Own(m, cur, Words(m))
                  ELSE [m EXCEPT !.r = [r \in ArmReg |->
                                           IF r \in Scratch THEN <<cur, r>> ELSE m.r[r]]]
          /\ mode' = [mode EXCEPT ![cur] = "user"]
          /\ UNCHANGED <<arch, cur, nargs>>

(* A trap into the kernel, which uses every register, and back with the    *)
(* user's satp in a0.                                                      *)
Trap == /\ arch = "riscv" /\ mode[cur] = "user"
        /\ m' = Run(m, kernenter)
        /\ mode' = [mode EXCEPT ![cur] = "irq"]
        /\ UNCHANGED <<arch, cur, nargs>>

TrapReturn ==
    LET used == [m EXCEPT !.r = [r \in DOMAIN m.r |->
                    IF r \in RiscvReg THEN (IF r = "a0" THEN <<"user satp">> ELSE Junk)
                    ELSE m.r[r]]]
    IN  /\ arch = "riscv" /\ mode[cur] = "irq"
        /\ m' = Run(used, kernexit)
        /\ mode' = [mode EXCEPT ![cur] = "user"]
        /\ UNCHANGED <<arch, cur, nargs>>

Next == Interrupt \/ IrqReturn \/ Resume \/ Trap \/ TrapReturn \/ \E q \in Proc : Resched(q)
Spec == Init /\ [][Next]_vars
----------------------------------------------------------------------------
(* Properties *)

(* Interrupts, traps and context switches are invisible: whenever a        *)
(* process's own code runs, every register holds what the process left in  *)
(* it and its stack pointer is where it was, however many interrupts and   *)
(* switches to other processes came in between.  After a call of resched() *)
(* this holds for the callee-saved registers.                              *)
RegistersKept ==
    /\ mode[cur] = "user" =>
          \A r \in DOMAIN m.r \ ({"sp"} \cup Csr) : m.r[r] = <<cur, r>>
    /\ mode[cur] = "call" => \A i \in DOMAIN CalleeSaved :
                                 m.r[CalleeSaved[i]] = <<cur, CalleeSaved[i]>>
    /\ arch = "riscv" /\ mode[cur] = "irq" =>
          m.r["sp"] = <<"KERNSP">> /\ m.r["satp"] = <<"KERNSATP">>
    /\ arch = "riscv" /\ mode[cur] = "user" =>
          m.r["sp"] = <<cur, "sp">> /\ m.r["satp"] = <<"user satp">>

(* The stack of an ARM process belongs to it, is 8-byte aligned when       *)
(* irq_handler calls dispatch(), and is as deep as before when its own     *)
(* code runs again.                                                        *)
StackKept ==
    arch = "arm" =>
        /\ m.r["sp"][2] = cur
        /\ mode[cur] = "irq" => Words(m) % 2 = 0
        /\ mode[cur] \in {"user", "call"} =>
              Words(m) \in Depth \cup {Len(create(cur, nargs[cur]).stack)}

(* A new process starts at its function with its arguments where the       *)
(* calling convention has them, the first four in r0 to r3 and the others  *)
(* from the stack pointer up; it returns to userret, and the accounting    *)
(* block at the base of its stack is whole.                                *)
StartsWithArguments ==
    arch = "arm" /\ mode[cur] = "start" =>
        /\ m.r["pc"] = <<"funcaddr", cur>> /\ m.r["lr"] = <<"userret">>
        /\ \A k \in 0..nargs[cur] - 1 :
              <<"arg", cur, k>> = IF k < 4 THEN m.r[<<"r0", "r1", "r2", "r3">>[k + 1]]
                                  ELSE m.stack[cur][Words(m) - (k - 4)]
        /\ \A i \in 1..4 : m.stack[cur][i] = <<"account", cur, i>>
=============================================================================
