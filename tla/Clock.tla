------------------------------- MODULE Clock --------------------------------
(***************************************************************************)
(* The interrupt dispatcher and the clock interrupt of core 0, which takes *)
(* the interrupts of the controller: dispatch.c, clkhandler.c, clkinit.c   *)
(* and clkupdate() of timer.c.  The other cores' clock is in module Timer. *)
(*                                                                         *)
(* The clock of core 0 is compare register C3 of the System Timer, which   *)
(* sets a match bit when the low word of the counter becomes equal to it.  *)
(* A process that is interrupted runs dispatch() on its own stack; when    *)
(* the clock handler reschedules, its half-done dispatch waits until the   *)
(* process runs again, and other processes take interrupts meanwhile.      *)
(***************************************************************************)
EXTENDS Integers, FiniteSetsExt

CONSTANTS
    Threads,    \* processes of core 0
    WORD,       \* interrupt lines per word of the controller (32 in the code)
    IRQ_TIMER,  \* the line of the System Timer
    Devices,    \* the other lines
    WRAP,       \* 2^32: the low word of the counter wraps here
    CYCLES,     \* counts per clock tick, clkfreq / CLKTICKS_PER_SEC
    LATENCY,    \* most counts between the read of CLO and the write of C3
    TICKS,      \* CLKTICKS_PER_SEC
    QUANTUM,    \* ticks of a time slice
    LASTCOUNT   \* bound: the counter stops here

(* Three words of lines.  C3 is written before the tick it is set for, and *)
(* a tick is at most half a turn of the counter (1000 counts of 2^32).     *)
ClockAssumption ==
    /\ WORD \in Nat \ {0} /\ IRQ_TIMER \in 0..3 * WORD - 1
    /\ Devices \subseteq (0..3 * WORD - 1) \ {IRQ_TIMER}
    /\ WRAP \in Nat /\ CYCLES \in Nat /\ LATENCY \in Nat
    /\ LATENCY < CYCLES /\ 2 * CYCLES <= WRAP
    /\ TICKS \in Nat \ {0} /\ QUANTUM \in Nat \ {0} /\ LASTCOUNT \in Nat

VARIABLES
    count,             \* the counter; CLO is its low word
    c3, match,         \* System Timer: compare register and match bit
    arm_enabled_irqs,  \* lines enabled, a set of bits for each word
    pending,           \* device lines asserted
    interruptVector,   \* the lines that have a handler
    running,           \* the process on core 0
    frame,             \* the dispatch in progress of each process
    owed,              \* lines pending when that dispatch began, not yet served
    clkticks, clktime, preempt,
    halted,            \* handle_irq() found no handler
    late               \* a tick was not served for a whole turn of the counter
vars == <<count, c3, match, arm_enabled_irqs, pending, interruptVector,
          running, frame, owed, clkticks, clktime, preempt, halted, late>>

timevars == <<count, clkticks, clktime, late>>
Irq == {IRQ_TIMER} \cup Devices
CLO == count % WRAP
User == [pc |-> "user", i |-> 0, mask |-> {}, clo |-> 0, lat |-> 0]

----------------------------------------------------------------------------
(* Lines.  word and bit of a line, as enable_irq, disable_irq and          *)
(* check_irq_pending compute them.                                         *)
WordOf(irq) == IF irq < WORD THEN 0 ELSE IF irq < 2 * WORD THEN 1 ELSE 2
BitOf(irq) == irq - WORD * WordOf(irq)
Enabled(irq) == BitOf(irq) \in arm_enabled_irqs[WordOf(irq)]
Pending(irq) == IF irq = IRQ_TIMER THEN match ELSE irq \in pending
Raised == {irq \in Irq : Enabled(irq) /\ Pending(irq)}

(* Mutant: the line is always looked for in the first word. *)
enable_irqWord0(irq) ==
    arm_enabled_irqs' = [arm_enabled_irqs EXCEPT ![0] = @ \cup {BitOf(irq)}]

enable_irq(irq) ==
    arm_enabled_irqs' = [arm_enabled_irqs EXCEPT ![WordOf(irq)] = @ \cup {BitOf(irq)}]

disable_irq(irq) ==
    arm_enabled_irqs' = [arm_enabled_irqs EXCEPT ![WordOf(irq)] = @ \ {BitOf(irq)}]

(* the boot core leaves clkinit() with the timer registered and enabled    *)
(* and its first interrupt CYCLES ahead, the device lines disabled         *)
clkinit ==
    /\ interruptVector = {IRQ_TIMER}
    /\ arm_enabled_irqs = [w \in 0..2 |-> IF w = WordOf(IRQ_TIMER)
                                          THEN {BitOf(IRQ_TIMER)} ELSE {}]
    /\ count = 0 /\ c3 = CYCLES /\ match = FALSE
    /\ clkticks = 0 /\ clktime = 0 /\ preempt = QUANTUM

Init ==
    /\ clkinit
    /\ pending = {} /\ halted = FALSE /\ late = FALSE
    /\ running \in Threads
    /\ frame = [t \in Threads |-> User]
    /\ owed = [t \in Threads |-> {}]

----------------------------------------------------------------------------
(* Hardware *)

(* time passes, but no more than LATENCY between reading CLO and writing C3 *)
Tick ==
    /\ count < LASTCOUNT
    /\ frame[running].pc = "c3" => frame[running].lat < LATENCY
    /\ count' = count + 1
    /\ match' = (match \/ (count + 1) % WRAP = c3)
    /\ frame' = IF frame[running].pc = "c3"
                THEN [frame EXCEPT ![running].lat = @ + 1] ELSE frame
    /\ late' = (late \/ ((count + 1) % WRAP = c3
                          /\ (match \/ frame[running].pc \in {"clk", "c3"})))
    /\ UNCHANGED <<c3, arm_enabled_irqs, pending, interruptVector, running,
                   owed, clkticks, clktime, preempt, halted>>

Assert(d) ==
    /\ d \notin pending
    /\ pending' = pending \cup {d}
    /\ UNCHANGED <<timevars, c3, match, arm_enabled_irqs, interruptVector,
                   running, frame, owed, preempt, halted>>

----------------------------------------------------------------------------
(* Drivers, as clkinit() does it: the handler first, then the line *)

Register(d) ==
    /\ frame[running].pc = "user" /\ d \notin interruptVector
    /\ interruptVector' = interruptVector \cup {d}
    /\ UNCHANGED <<timevars, c3, match, arm_enabled_irqs, pending, running, frame,
                   owed, preempt, halted>>

Enable(d) ==
    /\ frame[running].pc = "user" /\ d \in interruptVector /\ ~Enabled(d)
    /\ enable_irq(d)
    /\ UNCHANGED <<timevars, c3, match, pending, interruptVector, running, frame,
                   owed, preempt, halted>>

Disable(d) ==
    /\ frame[running].pc = "user" /\ Enabled(d)
    /\ disable_irq(d)
    /\ owed' = [t \in Threads |-> owed[t] \ {d}]
    /\ UNCHANGED <<timevars, c3, match, pending, interruptVector, running, frame,
                   preempt, halted>>

----------------------------------------------------------------------------
(* Core 0 *)

(* interrupts are enabled in process context only *)
Interrupt ==
    /\ ~halted /\ frame[running].pc = "user" /\ Raised # {}
    /\ frame' = [frame EXCEPT ![running] =
                    [User EXCEPT !.pc = "scan", !.mask = arm_enabled_irqs[0]]]
    /\ owed' = [owed EXCEPT ![running] = Raised]
    /\ UNCHANGED <<timevars, c3, match, arm_enabled_irqs, pending, interruptVector,
                   running, preempt, halted>>

(* Mutant: the last word is not looked at. *)
NextWordTwo(t) ==
    /\ frame[t].pc = "scan" /\ frame[t].mask = {}
    /\ LET i == frame[t].i + 1
       IN  frame' = [frame EXCEPT ![t] = IF i = 2 THEN User
                        ELSE [@ EXCEPT !.i = i, !.mask = arm_enabled_irqs[i]]]
    /\ UNCHANGED <<timevars, c3, match, arm_enabled_irqs, pending, interruptVector,
                   running, owed, preempt, halted>>

(* the for loop of dispatch(): the next word, or return *)
NextWord(t) ==
    /\ frame[t].pc = "scan" /\ frame[t].mask = {}
    /\ LET i == frame[t].i + 1
       IN  frame' = [frame EXCEPT ![t] = IF i = 3 THEN User
                        ELSE [@ EXCEPT !.i = i, !.mask = arm_enabled_irqs[i]]]
    /\ UNCHANGED <<timevars, c3, match, arm_enabled_irqs, pending, interruptVector,
                   running, owed, preempt, halted>>

(* its while loop: the highest bit first.  A device's handler clears the   *)
(* device's line; without a handler the system halts.                      *)
first_set_bit(mask) == Max(mask)

Serve(t) ==
    /\ ~halted /\ frame[t].pc = "scan" /\ frame[t].mask # {}
    /\ LET bit == first_set_bit(frame[t].mask)
           irq == bit + WORD * frame[t].i
           handle == Pending(irq) /\ irq \in interruptVector
       IN  /\ frame' = [frame EXCEPT ![t].mask = @ \ {bit},
                                     ![t].pc = IF handle /\ irq = IRQ_TIMER
                                               THEN "clk" ELSE @]
           /\ pending' = IF handle THEN pending \ {irq} ELSE pending
           /\ owed' = IF handle THEN [u \in Threads |-> owed[u] \ {irq}] ELSE owed
           /\ halted' = (Pending(irq) /\ irq \notin interruptVector)
    /\ UNCHANGED <<timevars, c3, match, arm_enabled_irqs, interruptVector, running,
                   preempt>>

(* clkupdate() on core 0: acknowledge, read the counter ... *)
ClearMatch(t) ==
    /\ frame[t].pc = "clk"
    /\ match' = FALSE
    /\ frame' = [frame EXCEPT ![t].pc = "c3", ![t].clo = CLO]
    /\ UNCHANGED <<timevars, c3, arm_enabled_irqs, pending, interruptVector, running,
                   owed, preempt, halted>>

(* Mutant: the next tick is counted from the last one. *)
CompareFromLast(t) == (c3 + CYCLES) % WRAP

(* ... and set C3, then the rest of clkhandler() *)
CompareValue(t) == (frame[t].clo + CYCLES) % WRAP

clkhandler(t) ==
    /\ frame[t].pc = "c3"
    /\ c3' = CompareValue(t)
    /\ clkticks' = IF clkticks + 1 = TICKS THEN 0 ELSE clkticks + 1
    /\ clktime' = IF clkticks + 1 = TICKS THEN clktime + 1 ELSE clktime
    /\ frame' = [frame EXCEPT ![t].pc = "scan", ![t].clo = 0, ![t].lat = 0]
    /\ IF preempt = 1 THEN preempt' = QUANTUM /\ running' \in Threads
       ELSE preempt' = preempt - 1 /\ running' = running
    /\ UNCHANGED <<count, match, arm_enabled_irqs, pending, interruptVector,
                   owed, halted, late>>

(* a process of core 0 calls resched() *)
Yield ==
    /\ frame[running].pc = "user" /\ ~halted
    /\ running' \in Threads \ {running}
    /\ preempt' = QUANTUM
    /\ UNCHANGED <<timevars, c3, match, arm_enabled_irqs, pending, interruptVector,
                   frame, owed, halted>>

dispatch(t) == t = running /\ (NextWord(t) \/ Serve(t) \/ ClearMatch(t) \/ clkhandler(t))

Next ==
    \/ Tick \/ Interrupt \/ Yield
    \/ \E t \in Threads : dispatch(t)
    \/ \E d \in Devices : Assert(d) \/ Register(d) \/ Enable(d) \/ Disable(d)

Fairness == WF_vars(Interrupt) /\ \A t \in Threads : WF_vars(dispatch(t))
Spec == Init /\ [][Next]_vars /\ Fairness
----------------------------------------------------------------------------
(* Properties *)

TypeOK ==
    /\ count \in 0..LASTCOUNT /\ c3 \in 0..WRAP - 1 /\ match \in BOOLEAN
    /\ pending \subseteq Devices /\ interruptVector \subseteq Irq
    /\ arm_enabled_irqs \in [0..2 -> SUBSET (0..WORD - 1)]
    /\ running \in Threads /\ halted \in BOOLEAN
    /\ \A t \in Threads : /\ frame[t].pc \in {"user", "scan", "clk", "c3"}
                          /\ frame[t].i \in 0..2 /\ owed[t] \subseteq Irq
    /\ clkticks \in 0..TICKS - 1 /\ clktime \in Nat /\ preempt \in 1..QUANTUM

(* The clock never falls silent.  The next match is at most a tick ahead   *)
(* of the counter or already latched, whatever the delay with which the    *)
(* last one was served: clkupdate() counts C3 from the counter and not     *)
(* from the last tick, so C3 cannot be left behind the counter, where it   *)
(* would match only after a wrap.                                          *)
ClockNotSilent == \/ match \/ frame[running].pc \in {"clk", "c3"}
                  \/ (c3 - CLO) % WRAP \in 1..CYCLES

(* Ticks are not counted faster than time: what clkhandler() has counted   *)
(* in clktime and clkticks is at most the whole ticks elapsed, as long as  *)
(* every tick was served within a turn of the counter (71 minutes).  After *)
(* a longer delay C3 can match again between the read of CLO and the write *)
(* of C3, and ticks are then counted too early.                            *)
ClockNotFast == late \/ (clktime * TICKS + clkticks) * CYCLES <= count

ClockKeepsTime == TypeOK /\ ClockNotSilent /\ ClockNotFast

(* No interrupt without a handler reaches handle_irq(), which would halt   *)
(* the system: drivers register a handler before they enable the line, and *)
(* a dispatch that was suspended with an old copy of the mask checks only  *)
(* lines that were enabled once.                                           *)
NeverHalted == ~halted

(* dispatch() serves what was pending when it began: when it returns, no   *)
(* line that was pending at its start and stayed enabled is left, though   *)
(* the process may have been switched out in the middle and other          *)
(* dispatches may have run meanwhile.                                      *)
DispatchServesAll ==
    \A t \in Threads : frame[t].pc = "user" => owed[t] = {}

Waits(d) == d \in pending /\ Enabled(d)

(* A device whose line stays enabled is served: the interrupt is taken by  *)
(* whatever process runs next with interrupts enabled, even if the process *)
(* that first took it is switched out before it reached the line.          *)
DeviceServed == \A d \in Devices : Waits(d) ~> ~Waits(d)
=============================================================================
