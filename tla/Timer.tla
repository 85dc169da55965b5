------------------------------- MODULE Timer --------------------------------
(***************************************************************************)
(* Waiting and ticking by the counter: udelay() of timer.c on the low word *)
(* of the System Timer, and the clock of cores 1 to 3, whose compare value *)
(* CLKUPDATE (timer_util.S) sets.  The two share nothing but the counter.  *)
(***************************************************************************)
EXTENDS Integers

CONSTANTS WRAP,      \* 2^32: the low word of the counter wraps here
          CYCLES,    \* counts per clock tick
          Delays,    \* counts that udelay() waits, (clkfreq / 1000) * us
          LASTCOUNT  \* bound: the counter stops here

(* udelay() computes its delay in an unsigned word *)
TimerAssumption == /\ WRAP \in Nat \ {0} /\ CYCLES \in Nat /\ LASTCOUNT \in Nat
                   /\ Delays \subseteq 0..WRAP - 1

VARIABLES count,         \* the 64-bit counter
          who,           \* "udelay" or "core"
          pc, start, target, delay,   \* udelay() and its locals
          began, moved,  \* counter at the call, and whether it moved before the first loop read it
          cval, lastSet  \* generic timer: compare value, counter when it was set
vars == <<count, who, pc, start, target, delay, began, moved, cval, lastSet>>
tvars == <<cval, lastSet>>
uvars == <<pc, start, target, delay, began, moved>>

clkcount == count % WRAP

(* Mutant: the cycles are not added. *)
ClkupdateNow(cycles) == count

(* CLKUPDATE: the low words are added and the carry is dropped *)
CLKUPDATE(cycles) == WRAP * (count \div WRAP) + ((clkcount + cycles) % WRAP)

Init == /\ count \in 0..WRAP - 1 /\ who \in {"udelay", "core"}
        /\ pc = "out" /\ start = 0 /\ target = 0 /\ delay = 0 /\ began = 0 /\ moved = FALSE
        /\ cval = IF who = "core" THEN CLKUPDATE(CYCLES) ELSE 0
        /\ lastSet = count

Tick == /\ count < LASTCOUNT
        /\ count' = count + 1
        /\ UNCHANGED <<who, uvars, tvars>>

----------------------------------------------------------------------------
(* udelay(): each read of the counter is a step *)
udelay(d) == /\ who = "udelay" /\ pc = "out"
             /\ delay' = d /\ began' = count
             /\ start' = clkcount /\ target' = (clkcount + d) % WRAP
             /\ pc' = IF (clkcount + d) % WRAP >= clkcount THEN "loop" ELSE "above"
             /\ moved' = FALSE
             /\ UNCHANGED <<count, who, tvars>>

(* Mutant: the loop ends at the first change. *)
LoopStart == /\ pc = "loop"
             /\ pc' = IF clkcount < start + 1 THEN pc ELSE "done"
             /\ UNCHANGED <<count, who, start, target, delay, began, moved, tvars>>
(* the loop of the first branch, and the two of the second *)
Loop == /\ pc = "loop"
        /\ pc' = IF clkcount < target /\ clkcount >= start THEN pc ELSE "done"
        /\ UNCHANGED <<count, who, start, target, delay, began, moved, tvars>>
Above == /\ pc = "above"
         /\ pc' = IF clkcount > start THEN pc ELSE "below"
         /\ moved' = (moved \/ count # began)
         /\ UNCHANGED <<count, who, start, target, delay, began, tvars>>
Below == /\ pc = "below"
         /\ pc' = IF clkcount < target THEN pc ELSE "done"
         /\ UNCHANGED <<count, who, start, target, delay, began, moved, tvars>>

Return == /\ pc = "done" /\ pc' = "out"
          /\ start' = 0 /\ target' = 0 /\ delay' = 0 /\ began' = 0 /\ moved' = FALSE
          /\ UNCHANGED <<count, who, tvars>>

(* the clock interrupt of a secondary core, when the counter has reached   *)
(* the compare value: clkhandler() sets the next one                       *)
CoreTick == /\ who = "core" /\ count >= cval
            /\ cval' = CLKUPDATE(CYCLES)
            /\ lastSet' = count
            /\ UNCHANGED <<count, who, uvars>>

Next == Tick \/ Loop \/ Above \/ Below \/ Return \/ CoreTick \/ \E d \in Delays : udelay(d)
Spec == Init /\ [][Next]_vars
----------------------------------------------------------------------------
(* Properties *)

(* udelay() returns no earlier than asked, across a wrap of the counter    *)
(* too.  The exception is the second branch, when the counter still has    *)
(* the value of start at the first read: both loops end at once.           *)
UdelayWaits == pc = "done" => count - began >= delay \/ (start + delay >= WRAP /\ ~moved)

(* The clock of a secondary core never falls silent: the next tick is at   *)
(* most CYCLES counts ahead.                                               *)
CoreNotSilent == who = "core" => cval - count <= CYCLES

(* Two ticks of a secondary core are CYCLES apart, except that after one   *)
(* set within CYCLES of a wrap of the low word the carry is lost and the   *)
(* next tick comes at once.                                                *)
SpacedStep == lastSet' # lastSet \/ cval' # cval =>
                  \/ count - lastSet >= CYCLES \/ (lastSet % WRAP) + CYCLES >= WRAP
CoreTickSpaced == [][SpacedStep]_vars
=============================================================================
