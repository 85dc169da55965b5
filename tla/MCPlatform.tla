----------------------------- MODULE MCPlatform -----------------------------
(***************************************************************************)
(* Small instances of three components whose properties include liveness:  *)
(* the clock and interrupt dispatcher, the console and the start of the    *)
(* cores.                                                                  *)
(*                                                                         *)
(* One behaviour is a behaviour of one component, the subject: the         *)
(* components do not step together, so the states to visit are the sum of  *)
(* theirs.  s1, s2, ... stand for the subject's variables in the order of  *)
(* their declaration; those it does not need stay 0.                       *)
(***************************************************************************)
EXTENDS Integers

VARIABLES subject, s1, s2, s3, s4, s5, s6, s7, s8, s9, s10, s11, s12, s13, s14, s15,
          s16, s17, s18
r13 == <<s14, s15, s16, s17, s18>>
r14 == <<s15, s16, s17, s18>>
z14 == s15 = 0 /\ s16 = 0 /\ s17 = 0 /\ s18 = 0
z13 == s14 = 0 /\ z14
all == <<subject, s1, s2, s3, s4, s5, s6, s7, s8, s9, s10, s11, s12, s13, r13>>

----------------------------------------------------------------------------
(* Instances *)

(* Lines 0, 1 and 4 lie in the words 0, 0 and 2; the counter wraps, and    *)
(* several ticks and time slices pass.                                     *)
Devices == {0, 4}
Clk == INSTANCE Clock WITH
    Threads <- {"a", "b"}, WORD <- 2, IRQ_TIMER <- 1, WRAP <- 6, CYCLES <- 3,
    LATENCY <- 1, TICKS <- 2, QUANTUM <- 1, LASTCOUNT <- 9,
    count <- s1, c3 <- s2, match <- s3, arm_enabled_irqs <- s4, pending <- s5,
    interruptVector <- s6, running <- s7, frame <- s8, owed <- s9, clkticks <- s10,
    clktime <- s11, preempt <- s12, halted <- s13, late <- s14

ASSUME Clk!ClockAssumption

(* A printer on the reader's core and one, with interrupts disabled, alone *)
(* on another; a line with a digit and another character.                  *)
Printers == {"p1", "p2"}
Con == INSTANCE Console WITH
    Reader <- "rd", HomeCore <- [t \in Printers \cup {"rd"} |-> IF t = "p2" THEN 1 ELSE 0],
    Masked <- {"p2"}, MSGLEN <- 2, FIFO <- 1, UNGETMAX <- 2, Input <- <<"1", "x", "\n">>,
    CALLS <- 6,
    running <- s1, pc <- s2, at <- s3, serial_lock <- s4, tx <- s5, sent <- s6,
    arrived <- s7, rx <- s8, ungetArray <- s9, read <- s10, acc <- s11, from <- s12,
    calls <- s13

ASSUME Con!ConsoleAssumption

(* _end and the size of memory are not aligned. *)
Bt == INSTANCE Boot WITH
    NPROC <- 50, NLOCK <- 150, NULLSTK <- 16, Ends <- {13}, MaxAddrs <- {151, 180},
    SECTIONS <- 8, PERIPH <- 6,
    _end <- s1, maxaddr <- s2, pc <- s3, num <- s4, core_init_sp <- s5, memheap <- s6,
    freelist <- s7, mmu <- s8, nextqueue <- s9, nlocks <- s10, sb <- s11, cached <- s12,
    mailbox <- s13, event <- s14, cause <- s15, cpc <- s16, sp <- s17, at <- s18

ASSUME Bt!BootAssumption

----------------------------------------------------------------------------
On(c) == subject = c

PlatformInit ==
    \/ subject = "clock" /\ Clk!Init /\ z14
    \/ subject = "console" /\ Con!Init /\ z13
    \/ subject = "boot" /\ Bt!Init

PlatformNext ==
    \/ On("clock") /\ Clk!Next /\ UNCHANGED <<subject, r14>>
    \/ On("console") /\ Con!Next /\ UNCHANGED <<subject, r13>>
    \/ On("boot") /\ Bt!Next /\ UNCHANGED subject

(* the fairness of modules Clock, Console and Boot *)
PlatformFairness ==
    /\ WF_all(On("clock") /\ Clk!Interrupt /\ UNCHANGED <<subject, r14>>)
    /\ \A t \in {"a", "b"} : WF_all(On("clock") /\ Clk!dispatch(t) /\ UNCHANGED <<subject, r14>>)
    /\ WF_all(On("console") /\ Con!Transmit /\ UNCHANGED <<subject, r13>>)
    /\ \A k \in {0, 1} : WF_all(On("console") /\ Con!Switch(k) /\ UNCHANGED <<subject, r13>>)
    /\ \A t \in Printers \cup {"rd"} :
          SF_all(On("console") /\ Con!kprintf(t) /\ UNCHANGED <<subject, r13>>)
    /\ WF_all(On("boot") /\ Bt!nulluser /\ UNCHANGED subject)
    /\ WF_all(On("boot") /\ (\E s \in s11 : Bt!Drain(s)) /\ UNCHANGED subject)
    /\ \A c \in 1..3 : WF_all(On("boot") /\ Bt!StartCore(c) /\ UNCHANGED subject)

PlatformSpec == PlatformInit /\ [][PlatformNext]_all /\ PlatformFairness
----------------------------------------------------------------------------
(* Properties: those of the components *)

(* Module Clock: core 0 always has a tick ahead or pending, and clktime    *)
(* and clkticks never run ahead of the counter.                            *)
ClockKeepsTime == On("clock") => Clk!ClockKeepsTime
(* dispatch() serves all that was pending when it began, and handle_irq()  *)
(* never finds a line without a handler, which would halt the system.      *)
DispatchServesAll == On("clock") => Clk!DispatchServesAll /\ Clk!NeverHalted
(* A device that interrupts is served. *)
DeviceServed == \A d \in Devices :
                    (On("clock") /\ Clk!Waits(d)) ~> (On("clock") => ~Clk!Waits(d))

(* Module Console: the messages of kprintf() come out whole. *)
PrintfWhole == On("console") => Con!PrintfWhole
(* Characters are read once and in order; kgetc() after a kcheckc() that   *)
(* returned true does not wait; _readint() computes the number on the line.*)
InputExact ==
    On("console") => /\ Con!TypeOK /\ Con!InputExact
                     /\ Con!CheckedDoesNotWait /\ Con!ReadintValue
(* Every kprintf() returns. *)
PrintfReturns == <>(On("console") => \A t \in Printers : Con!Printed(t))

(* Module Boot: image, stacks and heaps are disjoint, the tables suffice. *)
MemoryDisjoint == On("boot") => Bt!MemoryDisjoint
(* A core starts at core_nulluser() on its own stack, with every address   *)
(* mapped to itself and the peripherals not cached.                        *)
CoreStartsRight == On("boot") => Bt!CoreStartsRight /\ Bt!MmuIdentity
(* Every core comes up. *)
CoresStart == <>(On("boot") => \A c \in 1..3 : Bt!Started(c))
=============================================================================
