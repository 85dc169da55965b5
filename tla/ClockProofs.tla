---------------------------- MODULE ClockProofs -----------------------------
(***************************************************************************)
(* The clock of core 0 never falls silent, is not fast, and dispatch()     *)
(* serves every line, for any number of processes and lines and whatever   *)
(* the delays; udelay() waits long enough and the clocks of the other      *)
(* cores tick (module Timer).                                              *)
(***************************************************************************)
EXTENDS Clock, WellFoundedInduction, TLAPS

\* Module Timer reads the same counter; the rest is its own.
CONSTANT Delays
VARIABLES who, pc, start, target, delay, began, moved, cval, lastSet
Tmr == INSTANCE Timer

-----------------------------------------------------------------------------
(* Arithmetic *)

\* Quotient and remainder are unique.
LEMMA ModIs ==
  ASSUME NEW W \in Nat, W > 0, NEW q \in Int, NEW r \in 0 .. W - 1
  PROVE  (q * W + r) % W = r
<1> DEFINE x == q * W + r
<1>1. x \in Int
  OBVIOUS
<1>2. x = (x \div W) * W + (x % W) /\ x \div W \in Int /\ x % W \in 0 .. W - 1
  BY <1>1
<1>3. (x \div W) * W - q * W = r - (x % W)
  BY <1>1, <1>2
<1> HIDE DEF x
<1>4. ((x \div W) - q) * W < W /\ ((x \div W) - q) * W > -W
  BY <1>2, <1>3
<1>5. (x \div W) - q = 0
  <2> DEFINE d == (x \div W) - q
  <2>1. d \in Int /\ d * W < W /\ d * W > -W
    BY <1>2, <1>4
  <2> HIDE DEF d
  <2>2. d < 1
    BY <2>1
  <2>3. d > -1
    BY <2>1
  <2> QED  BY <2>1, <2>2, <2>3 DEF d
<1> QED  BY <1>2, <1>3, <1>5 DEF x

\* A number is a multiple and a remainder.
LEMMA ModOf ==
  ASSUME NEW W \in Nat, W > 0, NEW x \in Int
  PROVE  x % W \in 0 .. W - 1 /\ \E q \in Int : x = q * W + (x % W)
<1>1. x = (x \div W) * W + (x % W) /\ x \div W \in Int /\ x % W \in 0 .. W - 1
  OBVIOUS
<1> QED  BY Zenon, <1>1

\* The low word of a sum is that of the sum of the low words.
LEMMA ModPlus ==
  ASSUME NEW W \in Nat, W > 0, NEW x \in Int, NEW y \in Int
  PROVE  ((x % W) + y) % W = (x + y) % W
<1>1. PICK q \in Int : x = q * W + (x % W)
  BY ModOf
<1>2. PICK p \in Int : (x % W) + y = p * W + (((x % W) + y) % W)
  <2>1. (x % W) + y \in Int
    BY ModOf
  <2> QED  BY <2>1, ModOf
<1> DEFINE r == ((x % W) + y) % W
<1>3. r \in 0 .. W - 1 /\ x % W \in 0 .. W - 1
  BY ModOf
<1>4. x + y = (q + p) * W + r /\ q + p \in Int
  <2>1. (q + p) * W = q * W + p * W
    OBVIOUS
  <2> QED  BY <1>1, <1>2, <1>3, <2>1
<1> HIDE DEF r
<1>5. ((q + p) * W + r) % W = r
  BY <1>3, <1>4, ModIs
<1> QED  BY <1>4, <1>5 DEF r

\* Two numbers less than a turn apart: how far the second is ahead of the
\* first can be told from their low words.
LEMMA ModAhead ==
  ASSUME NEW W \in Nat, W > 0, NEW x \in Int, NEW y \in Int, x <= y, y < x + W
  PROVE  ((y % W) - (x % W)) % W = y - x
<1>1. PICK q \in Int : x = q * W + (x % W)
  BY ModOf
<1>2. PICK p \in Int : y = p * W + (y % W)
  BY ModOf
<1>3. x % W \in 0 .. W - 1 /\ y % W \in 0 .. W - 1
  BY ModOf
<1>4. (y % W) - (x % W) = (q - p) * W + (y - x) /\ q - p \in Int
  <2>1. (q - p) * W = q * W - p * W
    OBVIOUS
  <2> QED  BY <1>1, <1>2, <1>3, <2>1
<1>5. y - x \in 0 .. W - 1
  OBVIOUS
<1> QED  BY <1>4, <1>5, ModIs

\* Less than a turn apart, equal low words belong to equal numbers.
LEMMA ModSame ==
  ASSUME NEW W \in Nat, W > 0, NEW x \in Int, NEW y \in Int, x <= y, y < x + W,
         x % W = y % W
  PROVE  x = y
<1>1. ((y % W) - (x % W)) % W = y - x
  BY ModAhead
<1>2. x % W \in 0 .. W - 1
  BY ModOf
<1>3. (0 * W + 0) % W = 0
  BY ModIs
<1>4. (y % W) - (x % W) = 0 * W + 0
  BY <1>2
<1> QED  BY <1>1, <1>3, <1>4

-----------------------------------------------------------------------------
(* Time *)

FrameType == [pc : {"user", "scan", "clk", "c3"}, i : 0..2, mask : SUBSET (0..WORD - 1),
              clo : Nat, lat : Nat]

ClkTypeOK ==
  /\ count \in 0..LASTCOUNT /\ c3 \in 0..WRAP - 1 /\ match \in BOOLEAN /\ late \in BOOLEAN
  /\ pending \subseteq Devices /\ interruptVector \subseteq Irq
  /\ arm_enabled_irqs \in [0..2 -> SUBSET (0..WORD - 1)]
  /\ running \in Threads /\ halted \in BOOLEAN
  /\ frame \in [Threads -> FrameType] /\ owed \in [Threads -> SUBSET Irq]
  /\ clkticks \in 0..TICKS - 1 /\ clktime \in Nat /\ preempt \in 1..QUANTUM

\* The ticks counted so far.
Counted == clktime * TICKS + clkticks

\* The process is inside clkupdate().
InClock(f) == f.pc \in {"clk", "c3"}

\* C3 was set for the count n.  It lies ahead if no match is latched or being
\* served; and if no tick was ever a whole turn late, n is a tick's length
\* after the last tick counted, and a match is latched or served only when n
\* has come.
Aim(n) ==
  /\ c3 = n % WRAP /\ n <= count + CYCLES
  /\ ~match /\ ~InClock(frame[running]) => n > count
  /\ ~late => /\ (Counted + 1) * CYCLES <= n
              /\ match \/ frame[running].pc = "clk" => n <= count
              /\ frame[running].pc = "c3" => ~match /\ n <= count - frame[running].lat

\* Only the process that runs can be inside clkupdate(), between its reads
\* and writes of the timer: the count it read is frame.lat counts old.
ClkFrames ==
  /\ \A t \in Threads : t # running => ~InClock(frame[t])
  /\ \A t \in Threads : frame[t].pc # "c3" => frame[t].lat = 0
  /\ \A t \in Threads : frame[t].lat <= LATENCY
  /\ frame[running].pc = "clk" => match
  /\ frame[running].pc = "c3" => /\ frame[running].lat <= count
                                 /\ frame[running].clo = (count - frame[running].lat) % WRAP

\* The inductive invariant of the clock ...
TInv == ClkTypeOK /\ ClkFrames /\ \E n \in Int : Aim(n)

\* What TInv says of the clock.
LEMMA TimeKept ==
  ASSUME ClockAssumption, TInv
  PROVE  TypeOK /\ ClockNotSilent /\ ClockNotFast
<1> USE DEF ClockAssumption
<1>1. TypeOK
  BY DEF TInv, ClkTypeOK, TypeOK, FrameType
<1>2. PICK n \in Int : Aim(n)
  BY DEF TInv
<1>3. count \in Nat /\ WRAP > 0 /\ match \in BOOLEAN
  BY DEF TInv, ClkTypeOK
<1>4. ClockNotSilent
  <2> SUFFICES ASSUME ~match, ~InClock(frame[running])
               PROVE  (c3 - CLO) % WRAP \in 1..CYCLES
    BY DEF ClockNotSilent, InClock
  <2>1. c3 = n % WRAP /\ n > count /\ n <= count + CYCLES
    BY <1>2 DEF Aim
  <2>2. ((n % WRAP) - (count % WRAP)) % WRAP = n - count
    <3>1. WRAP \in Nat /\ WRAP > 0 /\ count \in Int /\ count <= n /\ n < count + WRAP
      BY <1>3, <2>1
    <3> QED  BY Zenon, <3>1, ModAhead
  <2> QED  BY <1>3, <2>1, <2>2 DEF CLO
<1>5. ClockNotFast
  <2> SUFFICES ASSUME ~late
               PROVE  Counted * CYCLES <= count
    BY DEF ClockNotFast, Counted
  <2>1. Counted \in Int
    BY DEF TInv, ClkTypeOK, Counted
  <2>2. (Counted + 1) * CYCLES <= count + CYCLES
    BY <1>2, <1>3, <2>1 DEF Aim
  <2>3. (Counted + 1) * CYCLES = Counted * CYCLES + CYCLES
    BY <2>1
  <2> QED  BY <1>3, <2>1, <2>2, <2>3
<1> QED  BY <1>1, <1>4, <1>5

\* At first C3 is a tick ahead and nothing is counted.
LEMMA TimeInit ==
  ASSUME ClockAssumption, Init
  PROVE  TInv
<1> USE DEF ClockAssumption, Init, clkinit
<1>1. WordOf(IRQ_TIMER) \in 0..2 /\ BitOf(IRQ_TIMER) \in 0..WORD - 1
  BY DEF WordOf, BitOf
<1>2. arm_enabled_irqs \in [0..2 -> SUBSET (0..WORD - 1)]
  BY <1>1
<1>3. User \in FrameType
  BY DEF User, FrameType
<1>4. ClkTypeOK
  <2>1. frame \in [Threads -> FrameType] /\ owed \in [Threads -> SUBSET Irq]
    BY Zenon, <1>3
  <2>2. pending \subseteq Devices /\ interruptVector \subseteq Irq /\ running \in Threads
    BY Zenon DEF Irq
  <2>3. /\ count \in 0..LASTCOUNT /\ c3 \in 0..WRAP - 1
        /\ clkticks \in 0..TICKS - 1 /\ clktime \in Nat /\ preempt \in 1..QUANTUM
    OBVIOUS
  <2> QED  BY Zenon, <1>2, <2>1, <2>2, <2>3 DEF ClkTypeOK
<1>5. ClkFrames
  BY DEF ClkFrames, User, InClock
<1>6. CYCLES % WRAP = CYCLES
  <2>1. (0 * WRAP + CYCLES) % WRAP = CYCLES
    BY ModIs
  <2> QED  BY <2>1
<1>7. Counted = 0
  BY DEF Counted
<1>8. Aim(CYCLES)
  BY <1>6, <1>7 DEF Aim, User, InClock
<1> QED  BY <1>4, <1>5, <1>8 DEF TInv

-----------------------------------------------------------------------------
\* The counter advances.  If it reaches C3, the match is latched.
LEMMA TickTime ==
  ASSUME ClockAssumption, TInv, Tick
  PROVE  TInv'
<1> USE DEF ClockAssumption
<1>1. /\ count \in Nat /\ count < LASTCOUNT /\ WRAP \in Nat /\ WRAP > 0 /\ running \in Threads
      /\ match \in BOOLEAN /\ late \in BOOLEAN /\ frame \in [Threads -> FrameType]
  BY DEF TInv, ClkTypeOK, Tick
<1>2. /\ count' = count + 1 /\ match' = (match \/ (count + 1) % WRAP = c3)
      /\ late' = (late \/ ((count + 1) % WRAP = c3 /\ (match \/ InClock(frame[running]))))
      /\ UNCHANGED <<c3, running, clkticks, clktime>>
  BY Zenon DEF Tick, InClock
<1> DEFINE f == frame[running]
           g == frame'[running]
<1>3. /\ frame' \in [Threads -> FrameType]
      /\ \A t \in Threads : t # running => frame'[t] = frame[t]
      /\ g.pc = f.pc /\ g.clo = f.clo
      /\ g.lat = IF f.pc = "c3" THEN f.lat + 1 ELSE f.lat
      /\ f.pc = "c3" => f.lat < LATENCY
      /\ f \in FrameType
  <2>1. CASE f.pc = "c3"
    <3>1. frame' = [frame EXCEPT ![running].lat = f.lat + 1] /\ f.lat < LATENCY
      BY <2>1 DEF Tick
    <3> QED  BY <1>1, <2>1, <3>1 DEF FrameType
  <2>2. CASE f.pc # "c3"
    <3>1. frame' = frame
      BY <2>2 DEF Tick
    <3> QED  BY <1>1, <2>2, <3>1
  <2> QED  BY Zenon, <2>1, <2>2
<1>4. ClkTypeOK'
  <2>1. /\ UNCHANGED <<c3, arm_enabled_irqs, pending, interruptVector, running,
                       owed, clkticks, clktime, preempt, halted>>
    BY Zenon DEF Tick
  <2>2. count' \in 0..LASTCOUNT /\ match' \in BOOLEAN /\ late' \in BOOLEAN
    BY <1>1, <1>2
  <2> QED  BY Zenon, <1>3, <2>1, <2>2 DEF TInv, ClkTypeOK
<1>5. ClkFrames'
  <2>1. ClkFrames
    BY DEF TInv
  <2>2. \A t \in Threads : t # running' => ~InClock(frame'[t])
    BY Zenon, <1>2, <1>3, <2>1 DEF ClkFrames
  <2>3. \A t \in Threads : (frame'[t].pc # "c3" => frame'[t].lat = 0) /\ frame'[t].lat <= LATENCY
    <3> SUFFICES ASSUME NEW t \in Threads
                 PROVE  (frame'[t].pc # "c3" => frame'[t].lat = 0) /\ frame'[t].lat <= LATENCY
      OBVIOUS
    <3>1. CASE t # running
      BY Zenon, <1>3, <2>1, <3>1 DEF ClkFrames
    <3>2. CASE t = running
      BY <1>1, <1>3, <2>1, <3>2 DEF ClkFrames, FrameType
    <3> QED  BY <3>1, <3>2
  <2>4. frame'[running'].pc = "clk" => match'
    BY Zenon, <1>2, <1>3, <2>1 DEF ClkFrames
  <2>5. frame'[running'].pc = "c3" => /\ frame'[running'].lat <= count'
                                      /\ frame'[running'].clo = (count' - frame'[running'].lat) % WRAP
    <3>1. count + 1 - (f.lat + 1) = count - f.lat
      BY <1>1, <1>3 DEF FrameType
    <3> QED  BY <1>1, <1>2, <1>3, <2>1, <3>1 DEF ClkFrames, FrameType
  <2> QED  BY Zenon, <2>2, <2>3, <2>4, <2>5 DEF ClkFrames
<1>6. PICK n \in Int : Aim(n)
  BY DEF TInv
<1>7. Aim(n)'
  <2> DEFINE hit == (count + 1) % WRAP = c3
  <2>1. InClock(g) = InClock(f)
    BY Zenon, <1>3 DEF InClock
  <2>2. /\ c3 = n % WRAP /\ n <= count + CYCLES /\ (~match /\ ~InClock(f) => n > count)
        /\ ~late => /\ (Counted + 1) * CYCLES <= n
                    /\ match \/ f.pc = "clk" => n <= count
                    /\ f.pc = "c3" => ~match /\ n <= count - f.lat
    BY Zenon, <1>6 DEF Aim
  <2>3. n <= count + 1 + CYCLES
    BY <1>1, <2>2
  <2>4. ASSUME ~match, ~InClock(f)
        PROVE  hit <=> n = count + 1
    <3>1. count + 1 \in Int /\ count + 1 <= n /\ n < count + 1 + WRAP
      BY <1>1, <2>2, <2>4
    <3>2. hit => (count + 1) % WRAP = n % WRAP
      BY Zenon, <2>2
    <3>3. hit => count + 1 = n
      BY Zenon, <1>1, <3>1, <3>2, ModSame
    <3> QED  BY Zenon, <2>2, <3>3
  <2>5. ~match' /\ ~InClock(g) => n > count + 1
    <3> SUFFICES ASSUME ~match', ~InClock(g)
                 PROVE  n > count + 1
      OBVIOUS
    <3>1. ~match /\ ~hit /\ ~InClock(f)
      BY Zenon, <1>2, <2>1
    <3>2. n # count + 1 /\ n > count
      BY Zenon, <2>2, <2>4, <3>1
    <3> QED  BY <1>1, <3>2
  <2>6. ASSUME ~late'
        PROVE  /\ (Counted + 1) * CYCLES <= n
               /\ match' \/ g.pc = "clk" => n <= count + 1
               /\ g.pc = "c3" => ~match' /\ n <= (count + 1) - g.lat
    <3>1. ~late /\ (hit => ~match /\ ~InClock(f))
      BY Zenon, <1>2, <2>6
    <3>2. CASE hit
      <4>1. ~match /\ ~InClock(f) /\ ~InClock(g)
        BY Zenon, <2>1, <3>1, <3>2
      <4>2. n = count + 1
        BY Zenon, <2>4, <3>2, <4>1
      <4> QED  BY <1>1, <2>2, <3>1, <4>1, <4>2 DEF InClock
    <3>3. CASE ~hit
      <4>1. match' = match
        BY Zenon, <1>1, <1>2, <3>3
      <4> HIDE DEF hit
      <4> QED  BY <1>1, <1>3, <2>2, <3>1, <4>1 DEF FrameType
    <3> QED  BY <3>2, <3>3
  <2>7. Counted' = Counted
    BY Zenon, <1>2 DEF Counted
  <2>8. /\ c3' = n % WRAP /\ n <= count' + CYCLES
        /\ ~match' /\ ~InClock(frame'[running']) => n > count'
    BY Zenon, <1>2, <2>2, <2>3, <2>5
  <2>9. ASSUME ~late'
        PROVE  /\ (Counted' + 1) * CYCLES <= n
               /\ match' \/ frame'[running'].pc = "clk" => n <= count'
               /\ frame'[running'].pc = "c3" => ~match' /\ n <= count' - frame'[running'].lat
    <3>1. /\ (Counted + 1) * CYCLES <= n
          /\ match' \/ g.pc = "clk" => n <= count + 1
          /\ g.pc = "c3" => ~match' /\ n <= (count + 1) - g.lat
      BY Zenon, <2>6, <2>9
    <3>2. running' = running /\ count' = count + 1
      BY Zenon, <1>2
    <3>3. (Counted' + 1) * CYCLES <= n
      BY Zenon, <2>7, <3>1
    <3>4. frame'[running'] = g
      BY Zenon, <3>2
    <3>5. match' \/ frame'[running'].pc = "clk" => n <= count'
      BY Zenon, <3>1, <3>2, <3>4
    <3>6. frame'[running'].pc = "c3" => ~match' /\ n <= count' - frame'[running'].lat
      BY Zenon, <3>1, <3>2, <3>4
    <3> QED  BY Zenon, <3>3, <3>5, <3>6
  <2> QED  BY Zenon, <2>8, <2>9 DEF Aim
<1> QED  BY Zenon, <1>4, <1>5, <1>7 DEF TInv

\* A step that leaves the timer and the ticks alone: no process enters or
\* leaves clkupdate(), and only one outside of it gives up the core.
LEMMA TimeStays ==
  ASSUME ClockAssumption, TInv, ClkTypeOK', UNCHANGED <<count, c3, match, late, clkticks, clktime>>,
         \A t \in Threads : \/ frame'[t] = frame[t]
                            \/ ~InClock(frame[t]) /\ ~InClock(frame'[t]) /\ frame'[t].lat = 0,
         running' = running \/ ~InClock(frame[running])
  PROVE  TInv'
<1> DEFINE f == frame[running]
           g == frame'[running']
<1>1. running \in Threads /\ running' \in Threads /\ ClkFrames
  BY Zenon DEF TInv, ClkTypeOK
<1>2. g = f \/ (~InClock(f) /\ ~InClock(g))
  BY Zenon, <1>1 DEF ClkFrames
<1>3. ClkFrames'
  <2>1. \A t \in Threads : t # running' => ~InClock(frame'[t])
    BY Zenon, <1>1 DEF ClkFrames
  <2>2. \A t \in Threads : (frame'[t].pc # "c3" => frame'[t].lat = 0) /\ frame'[t].lat <= LATENCY
    <3>1. 0 <= LATENCY
      BY DEF ClockAssumption
    <3> QED  BY Zenon, <1>1, <3>1 DEF ClkFrames, InClock
  <2>3. g.pc = "clk" => match'
    BY Zenon, <1>1, <1>2 DEF ClkFrames, InClock
  <2>4. g.pc = "c3" => g.lat <= count' /\ g.clo = (count' - g.lat) % WRAP
    <3>1. g.pc = "c3" => g = f
      BY Zenon, <1>2 DEF InClock
    <3> QED  BY Zenon, <1>1, <3>1 DEF ClkFrames
  <2> QED  BY Zenon, <2>1, <2>2, <2>3, <2>4 DEF ClkFrames
<1>4. PICK n \in Int : Aim(n)
  BY DEF TInv
<1>5. Aim(n)'
  <2>1. /\ c3' = n % WRAP /\ n <= count' + CYCLES
        /\ ~match' /\ ~InClock(g) => n > count'
    BY Zenon, <1>2, <1>4 DEF Aim
  <2>2. Counted' = Counted
    BY Zenon DEF Counted
  <2>3. ASSUME ~late'
        PROVE  /\ (Counted' + 1) * CYCLES <= n
               /\ match' \/ g.pc = "clk" => n <= count'
               /\ g.pc = "c3" => ~match' /\ n <= count' - g.lat
    <3>1. (Counted' + 1) * CYCLES <= n
      BY Zenon, <1>4, <2>2, <2>3 DEF Aim
    <3>2. g.pc \in {"clk", "c3"} => g = f
      BY Zenon, <1>2 DEF InClock
    <3>3. match' \/ g.pc = "clk" => n <= count'
      BY Zenon, <1>4, <2>3, <3>2 DEF Aim
    <3>4. g.pc = "c3" => ~match' /\ n <= count' - g.lat
      BY Zenon, <1>4, <2>3, <3>2 DEF Aim
    <3> QED  BY Zenon, <3>1, <3>3, <3>4
  <2> QED  BY Zenon, <2>1, <2>3 DEF Aim
<1> QED  BY Zenon, <1>3, <1>5 DEF TInv

\* A step into clkhandler(), which a latched match allows.
LEMMA ServeTime ==
  ASSUME ClockAssumption, TInv, ClkTypeOK', UNCHANGED <<count, c3, match, late, clkticks, clktime, running>>,
         match, ~InClock(frame[running]), frame'[running].pc = "clk", frame'[running].lat = 0,
         \A t \in Threads : t # running => frame'[t] = frame[t]
  PROVE  TInv'
<1>1. running \in Threads /\ ClkFrames
  BY Zenon DEF TInv, ClkTypeOK
<1>2. ClkFrames'
  <2>1. 0 <= LATENCY
    BY DEF ClockAssumption
  <2>2. \A t \in Threads : t # running' => ~InClock(frame'[t])
    BY Zenon, <1>1 DEF ClkFrames
  <2>3. \A t \in Threads : (frame'[t].pc # "c3" => frame'[t].lat = 0) /\ frame'[t].lat <= LATENCY
    BY Zenon, <1>1, <2>1 DEF ClkFrames
  <2>4. frame'[running'].pc # "c3"
    BY "clk" # "c3"
  <2> QED  BY Zenon, <2>2, <2>3, <2>4 DEF ClkFrames
<1>3. PICK n \in Int : Aim(n)
  BY DEF TInv
<1>4. Counted' = Counted
  BY Zenon DEF Counted
<1>5. ~late' => (Counted' + 1) * CYCLES <= n
  BY Zenon, <1>3, <1>4 DEF Aim
<1>6. frame'[running'].pc # "c3"
  BY "clk" # "c3"
<1>7. Aim(n)'
  BY Zenon, <1>3, <1>5, <1>6 DEF Aim
<1> QED  BY Zenon, <1>2, <1>7 DEF TInv

\* The match is acknowledged and the counter read.
LEMMA ClearTime ==
  ASSUME ClockAssumption, TInv, ClearMatch(running)
  PROVE  TInv'
<1> USE DEF ClockAssumption
<1>1. /\ count \in Nat /\ WRAP \in Nat /\ WRAP > 0 /\ running \in Threads
      /\ frame \in [Threads -> FrameType] /\ ClkFrames
  BY DEF TInv, ClkTypeOK
<1>2. /\ frame[running].pc = "clk" /\ match' = FALSE
      /\ frame' = [frame EXCEPT ![running].pc = "c3", ![running].clo = count % WRAP]
      /\ UNCHANGED <<timevars, c3, arm_enabled_irqs, pending, interruptVector, running, owed, preempt, halted>>
  BY Zenon DEF ClearMatch, CLO
<1>3. count % WRAP \in Nat
  BY <1>1, ModOf
<1>4. /\ frame' \in [Threads -> FrameType]
      /\ \A t \in Threads : t # running => frame'[t] = frame[t]
      /\ frame'[running].pc = "c3" /\ frame'[running].clo = count % WRAP
      /\ frame'[running].lat = frame[running].lat
  BY <1>1, <1>2, <1>3 DEF FrameType
<1>5. ClkTypeOK'
  BY Zenon, <1>2, <1>4 DEF TInv, ClkTypeOK, timevars
<1>6. frame[running].lat = 0
  BY <1>1, <1>2 DEF ClkFrames
<1>7. count' = count /\ count - 0 = count
  BY <1>1, <1>2 DEF timevars
<1>8. ClkFrames'
  <2>1. 0 <= LATENCY /\ 0 <= count
    BY <1>1
  <2>2. \A t \in Threads : t # running' => ~InClock(frame'[t])
    BY Zenon, <1>1, <1>2, <1>4 DEF ClkFrames
  <2>3. \A t \in Threads : (frame'[t].pc # "c3" => frame'[t].lat = 0) /\ frame'[t].lat <= LATENCY
    BY Zenon, <1>1, <1>4, <1>6, <2>1 DEF ClkFrames
  <2>4. frame'[running'].pc = "c3" /\ frame'[running'].lat = 0 /\ frame'[running'].clo = count % WRAP
    BY Zenon, <1>2, <1>4, <1>6
  <2>5. frame'[running'].lat <= count' /\ frame'[running'].clo = (count' - frame'[running'].lat) % WRAP
    BY <1>7, <2>1, <2>4
  <2>6. frame'[running'].pc # "clk"
    BY <2>4
  <2> QED  BY Zenon, <2>2, <2>3, <2>5, <2>6 DEF ClkFrames
<1>9. PICK n \in Int : Aim(n)
  BY DEF TInv
<1>10. Aim(n)'
  <2>1. Counted' = Counted /\ late' = late /\ c3' = c3 /\ running' = running
    BY Zenon, <1>2 DEF Counted, timevars
  <2>2. ~late => (Counted + 1) * CYCLES <= n /\ n <= count
    BY Zenon, <1>2, <1>9 DEF Aim
  <2>3. ~late' => (Counted' + 1) * CYCLES <= n
    BY Zenon, <2>1, <2>2
  <2>4. ~late' => n <= count' - frame'[running'].lat
    BY <1>4, <1>6, <1>7, <2>1, <2>2
  <2>5. InClock(frame'[running'])
    BY Zenon, <1>4, <2>1 DEF InClock
  <2>6. frame'[running'].pc # "clk"
    BY <1>4, <2>1
  <2>7. c3' = n % WRAP /\ n <= count' + CYCLES
    BY Zenon, <1>7, <1>9, <2>1 DEF Aim
  <2> QED  BY Zenon, <1>2, <2>3, <2>4, <2>5, <2>6, <2>7 DEF Aim
<1> QED  BY Zenon, <1>5, <1>8, <1>10 DEF TInv

\* The next tick is set CYCLES after the count that was read, and this one is
\* counted.
LEMMA HandlerTime ==
  ASSUME ClockAssumption, TInv, clkhandler(running)
  PROVE  TInv'
<1> USE DEF ClockAssumption
<1>1. /\ count \in Nat /\ WRAP \in Nat /\ WRAP > 0 /\ running \in Threads
      /\ frame \in [Threads -> FrameType] /\ ClkFrames
      /\ clkticks \in 0..TICKS - 1 /\ clktime \in Nat /\ preempt \in 1..QUANTUM
  BY DEF TInv, ClkTypeOK
<1> DEFINE f == frame[running]
<1>2. f.pc = "c3" /\ f.lat \in Nat /\ f.lat <= count /\ f.lat <= LATENCY /\ f.clo = (count - f.lat) % WRAP
  BY <1>1 DEF clkhandler, ClkFrames, FrameType
<1>3. /\ c3' = (f.clo + CYCLES) % WRAP
      /\ frame' = [frame EXCEPT ![running].pc = "scan", ![running].clo = 0, ![running].lat = 0]
      /\ UNCHANGED <<count, match, arm_enabled_irqs, pending, interruptVector, owed, halted, late>>
  BY Zenon DEF clkhandler, CompareValue
<1>4. running' \in Threads /\ preempt' \in 1..QUANTUM
  <2>1. CASE preempt = 1
    BY <2>1 DEF clkhandler
  <2>2. CASE preempt # 1
    BY <1>1, <2>2 DEF clkhandler
  <2> QED  BY <2>1, <2>2
<1>5. clkticks' \in 0..TICKS - 1 /\ clktime' \in Nat /\ Counted' = Counted + 1 /\ Counted \in Int
  <2>1. CASE clkticks + 1 = TICKS
    <3>1. clkticks' = 0 /\ clktime' = clktime + 1
      BY <2>1 DEF clkhandler
    <3>2. (clktime + 1) * TICKS = clktime * TICKS + TICKS
      BY <1>1
    <3> QED  BY <1>1, <2>1, <3>1, <3>2 DEF Counted
  <2>2. CASE clkticks + 1 # TICKS
    <3>1. clkticks' = clkticks + 1 /\ clktime' = clktime
      BY <2>2 DEF clkhandler
    <3> QED  BY <1>1, <2>2, <3>1 DEF Counted
  <2> QED  BY <2>1, <2>2
<1>6. /\ frame' \in [Threads -> FrameType]
      /\ \A t \in Threads : t # running => frame'[t] = frame[t]
      /\ frame'[running].pc = "scan" /\ frame'[running].lat = 0
  BY <1>1, <1>3 DEF FrameType
<1>n. PICK n \in Int : n = (count - f.lat) + CYCLES
  BY <1>1, <1>2
<1>7. n \in Int /\ n > count /\ n <= count + CYCLES /\ c3' = n % WRAP /\ c3' \in 0..WRAP - 1
  <2>1. n \in Int /\ n > count /\ n <= count + CYCLES /\ count - f.lat \in Int
    BY <1>n, <1>1, <1>2
  <2>2. c3' = n % WRAP
    <3>1. (((count - f.lat) % WRAP) + CYCLES) % WRAP = ((count - f.lat) + CYCLES) % WRAP
      <4>1. CYCLES \in Int
        OBVIOUS
      <4> QED  BY Zenon, <1>1, <2>1, <4>1, ModPlus
    <3> QED  BY Zenon, <1>n, <1>2, <1>3, <3>1
  <2> QED  BY Zenon, <1>1, <2>1, <2>2, ModOf
<1>8. ClkTypeOK'
  BY Zenon, <1>3, <1>4, <1>5, <1>6, <1>7 DEF TInv, ClkTypeOK
<1>9. \A t \in Threads : ~InClock(frame'[t]) /\ frame'[t].lat = 0
  <2>1. ~InClock(frame'[running])
    BY <1>6 DEF InClock
  <2>2. \A t \in Threads : t # running => frame'[t].lat = 0
    BY Zenon, <1>1, <1>6 DEF ClkFrames, InClock
  <2> QED  BY Zenon, <1>1, <1>6, <2>1, <2>2 DEF ClkFrames
<1>10. ClkFrames'
  <2>1. 0 <= LATENCY
    OBVIOUS
  <2> QED  BY Zenon, <1>4, <1>9, <2>1 DEF ClkFrames, InClock
<1>11. PICK o \in Int : Aim(o)
  BY DEF TInv
<1>12. ASSUME ~late
       PROVE  ~match /\ (Counted' + 1) * CYCLES <= n
  <2>1. ~match /\ o <= count - f.lat /\ (Counted + 1) * CYCLES <= o
    BY Zenon, <1>2, <1>11, <1>12 DEF Aim
  <2>2. (Counted' + 1) * CYCLES = (Counted + 1) * CYCLES + CYCLES
    BY <1>5
  <2>3. (Counted + 1) * CYCLES \in Int
    BY <1>5
  <2> QED  BY <1>n, <1>1, <1>2, <2>1, <2>2, <2>3
<1>13. Aim(n)'
  <2>1. count' = count /\ match' = match /\ late' = late
    BY Zenon, <1>3
  <2>2. frame'[running'].pc # "clk" /\ frame'[running'].pc # "c3"
    BY Zenon, <1>4, <1>9 DEF InClock
  <2> QED  BY Zenon, <1>7, <1>12, <2>1, <2>2 DEF Aim
<1> QED  BY Zenon, <1>7, <1>8, <1>10, <1>13 DEF TInv

-----------------------------------------------------------------------------
(* Lines *)

\* A set of natural numbers below a bound has a greatest element: what
\* first_set_bit() returns is a bit of the mask.
LEMMA MaxNat ==
  ASSUME NEW N \in Nat, NEW S, S \subseteq 0..N - 1, S # {}
  PROVE  Max(S) \in S
<1> DEFINE R == OpToRel(<, Nat)
           T == {k \in Nat : \E x \in S : k = N - x}
<1>1. IsWellFoundedOn(R, Nat)
  BY Zenon, NatLessThanWellFounded
<1>2. \A x, y \in Nat : x < y => <<x, y>> \in R
  BY Zenon DEF OpToRel
<1>3. \A x \in S : x \in Nat /\ N - x \in T
  <2>1. \A x \in S : x \in Nat /\ N - x \in Nat
    OBVIOUS
  <2> QED  BY Zenon, <2>1
<1>4. T # {} /\ T \subseteq Nat
  BY Zenon, <1>3
<1> HIDE DEF R
<1>5. PICK k \in T : \A l \in T : <<l, k>> \notin R
  <2> HIDE DEF T
  <2> QED  BY Zenon, <1>1, <1>4, WFMin
<1>6. PICK x \in S : k = N - x /\ k \in Nat
  BY Zenon, <1>5
<1>7. ASSUME NEW y \in S
      PROVE  x >= y
  <2>1. N - y \in T /\ N - y \in Nat
    BY Zenon, <1>3, <1>4
  <2>2. ~(N - y < k)
    BY Zenon, <1>2, <1>5, <1>6, <2>1
  <2>3. x \in Nat /\ y \in Nat
    BY Zenon, <1>3
  <2> QED  BY <1>6, <2>2, <2>3
<1> QED  BY Zenon, <1>7 DEF Max

\* Word and bit determine the line.
LEMMA LineIs ==
  ASSUME ClockAssumption, NEW irq \in 0..3 * WORD - 1
  PROVE  /\ WordOf(irq) \in 0..2 /\ BitOf(irq) \in 0..WORD - 1
         /\ irq = BitOf(irq) + WORD * WordOf(irq)
BY DEF ClockAssumption, WordOf, BitOf

\* A line is determined by its word and bit.
LEMMA LineOf ==
  ASSUME ClockAssumption, NEW w \in 0..2, NEW b \in 0..WORD - 1
  PROVE  WordOf(b + WORD * w) = w /\ BitOf(b + WORD * w) = b
BY DEF ClockAssumption, WordOf, BitOf

\* Line irq is still to be looked at by the dispatch() in progress with frame f.
Ahead(f, irq) ==
  /\ f.pc # "user"
  /\ WordOf(irq) > f.i \/ (WordOf(irq) = f.i /\ BitOf(irq) \in f.mask)

\* Every line that is enabled, or was when a dispatch() read the mask it is
\* working on, has a handler.
Handled ==
  /\ \A w \in 0..2 : \A b \in arm_enabled_irqs[w] : b + WORD * w \in interruptVector
  /\ \A t \in Threads : \A b \in frame[t].mask : b + WORD * frame[t].i \in interruptVector

\* What a dispatch() owes is still enabled, pending and ahead of it; while the
\* clock's line is served, nobody owes it.
Owes ==
  /\ \A t \in Threads : \A irq \in owed[t] : Enabled(irq) /\ Pending(irq) /\ Ahead(frame[t], irq)
  /\ frame[running].pc = "clk" => \A t \in Threads : IRQ_TIMER \notin owed[t]

\* ... and that of dispatch().
DInv == ~halted /\ Handled /\ Owes

\* What the invariant says of dispatch().
LEMMA DispatchKept ==
  ASSUME TInv, DInv
  PROVE  DispatchServesAll /\ NeverHalted
<1>1. \A t \in Threads : frame[t].pc = "user" => owed[t] = {}
  BY Zenon DEF DInv, Owes, Ahead
<1> QED  BY Zenon, <1>1 DEF DispatchServesAll, NeverHalted, DInv

\* Initially only the timer is enabled, and it has its handler.
LEMMA DispatchInit ==
  ASSUME ClockAssumption, Init
  PROVE  DInv
<1>1. IRQ_TIMER \in 0..3 * WORD - 1
  BY DEF ClockAssumption
<1>2. BitOf(IRQ_TIMER) + WORD * WordOf(IRQ_TIMER) = IRQ_TIMER
  BY Zenon, <1>1, LineIs
<1>3. Handled
  <2>1. \A w \in 0..2 : arm_enabled_irqs[w] = IF w = WordOf(IRQ_TIMER) THEN {BitOf(IRQ_TIMER)} ELSE {}
    BY Zenon DEF Init, clkinit
  <2>2. \A t \in Threads : frame[t].mask = {}
    BY DEF Init, User
  <2>3. interruptVector = {IRQ_TIMER}
    BY Zenon DEF Init, clkinit
  <2>4. ASSUME NEW w \in 0..2, NEW b \in arm_enabled_irqs[w]
        PROVE  b + WORD * w = IRQ_TIMER
    <3>1. w = WordOf(IRQ_TIMER) /\ b = BitOf(IRQ_TIMER)
      BY <2>1
    <3> QED  BY Zenon, <1>2, <3>1
  <2> QED  BY Zenon, <2>2, <2>3, <2>4 DEF Handled
<1>4. Owes
  BY Zenon DEF Init, Owes
<1> QED  BY Zenon, <1>3, <1>4 DEF DInv, Init

\* A step that moves no dispatch() along and leaves what is owed pending.
LEMMA DispatchStays ==
  ASSUME DInv, UNCHANGED <<arm_enabled_irqs, owed, halted>>, interruptVector \subseteq interruptVector',
         \A t \in Threads : /\ frame'[t].i = frame[t].i /\ frame'[t].mask = frame[t].mask
                            /\ frame'[t].pc = "user" => frame[t].pc = "user",
         \A t \in Threads : \A irq \in owed[t] : Pending(irq) => Pending(irq)',
         frame'[running'].pc = "clk" => frame[running].pc = "clk"
  PROVE  DInv'
<1>1. Handled'
  BY Zenon DEF DInv, Handled
<1>2. ASSUME NEW t \in Threads, NEW irq \in owed[t]
      PROVE  Enabled(irq)' /\ Pending(irq)' /\ Ahead(frame'[t], irq)
  <2>1. Enabled(irq) /\ Pending(irq) /\ Ahead(frame[t], irq)
    BY Zenon DEF DInv, Owes
  <2>2. Enabled(irq)'
    BY Zenon, <2>1 DEF Enabled
  <2>3. Ahead(frame'[t], irq)
    BY Zenon, <2>1 DEF Ahead
  <2> QED  BY Zenon, <2>1, <2>2, <2>3
<1>3. Owes'
  BY Zenon, <1>2 DEF DInv, Owes
<1> QED  BY Zenon, <1>1, <1>3 DEF DInv

-----------------------------------------------------------------------------
(* The steps *)

\* Time passes: a match may be latched, which only adds a pending line.
LEMMA TickStep ==
  ASSUME ClockAssumption, TInv, DInv, Tick
  PROVE  TInv' /\ DInv'
<1>1. TInv'
  BY Zenon, TickTime
<1>2. running \in Threads /\ frame \in [Threads -> FrameType]
  BY Zenon DEF TInv, ClkTypeOK
<1>3. \A t \in Threads : frame'[t].i = frame[t].i /\ frame'[t].mask = frame[t].mask /\ frame'[t].pc = frame[t].pc
  <2>1. CASE frame[running].pc = "c3"
    <3>1. frame' = [frame EXCEPT ![running].lat = frame[running].lat + 1]
      BY <2>1 DEF Tick
    <3> QED  BY <1>2, <3>1 DEF FrameType
  <2>2. CASE frame[running].pc # "c3"
    BY <2>2 DEF Tick
  <2> QED  BY Zenon, <2>1, <2>2
<1>4. \A irq : Pending(irq) => Pending(irq)'
  BY DEF Tick, Pending
<1>5. UNCHANGED <<arm_enabled_irqs, owed, halted, interruptVector, running>>
  BY Zenon DEF Tick
<1>6. DInv'
  BY Zenon, <1>2, <1>3, <1>4, <1>5, DispatchStays
<1> QED  BY Zenon, <1>1, <1>6

\* A device raises its line.
LEMMA AssertStep ==
  ASSUME ClockAssumption, TInv, DInv, NEW d \in Devices, Assert(d)
  PROVE  TInv' /\ DInv'
<1>1. /\ pending' = pending \cup {d}
      /\ UNCHANGED <<timevars, c3, match, arm_enabled_irqs, interruptVector, running, frame, owed, preempt, halted>>
  BY Zenon DEF Assert
<1>2. ClkTypeOK'
  BY Zenon, <1>1 DEF TInv, ClkTypeOK, timevars
<1>3. TInv'
  BY Zenon, <1>1, <1>2, TimeStays DEF timevars
<1>4. \A irq : Pending(irq) => Pending(irq)'
  BY Zenon, <1>1 DEF Pending
<1>5. DInv'
  BY Zenon, <1>1, <1>4, DispatchStays
<1> QED  BY Zenon, <1>3, <1>5

\* A driver registers its handler: more lines have one.
LEMMA RegisterStep ==
  ASSUME ClockAssumption, TInv, DInv, NEW d \in Devices, Register(d)
  PROVE  TInv' /\ DInv'
<1>1. /\ interruptVector' = interruptVector \cup {d}
      /\ UNCHANGED <<timevars, c3, match, arm_enabled_irqs, pending, running, frame, owed, preempt, halted>>
  BY Zenon DEF Register
<1>2. ClkTypeOK'
  BY Zenon, <1>1 DEF TInv, ClkTypeOK, timevars, Irq
<1>3. TInv'
  BY Zenon, <1>1, <1>2, TimeStays DEF timevars
<1>4. \A irq : Pending(irq) => Pending(irq)'
  BY Zenon, <1>1 DEF Pending
<1>5. DInv'
  BY Zenon, <1>1, <1>4, DispatchStays
<1> QED  BY Zenon, <1>3, <1>5

\* resched() leaves a process that is not in dispatch().
LEMMA YieldStep ==
  ASSUME ClockAssumption, TInv, DInv, Yield
  PROVE  TInv' /\ DInv'
<1>1. /\ frame[running].pc = "user" /\ running' \in Threads /\ running' # running /\ preempt' = QUANTUM
      /\ UNCHANGED <<timevars, c3, match, arm_enabled_irqs, pending, interruptVector, frame, owed, halted>>
  BY Zenon DEF Yield
<1>2. QUANTUM \in 1..QUANTUM
  BY DEF ClockAssumption
<1>3. ClkTypeOK'
  BY Zenon, <1>1, <1>2 DEF TInv, ClkTypeOK, timevars
<1>4. ~InClock(frame[running])
  BY <1>1 DEF InClock
<1>5. TInv'
  BY Zenon, <1>1, <1>3, <1>4, TimeStays DEF timevars
<1>6. \A irq : Pending(irq) => Pending(irq)'
  BY Zenon, <1>1 DEF Pending
<1>7. frame'[running'].pc # "clk"
  BY Zenon, <1>1 DEF TInv, ClkFrames, InClock
<1>8. DInv'
  BY Zenon, <1>1, <1>6, <1>7, DispatchStays
<1> QED  BY Zenon, <1>5, <1>8

\* clkupdate() acknowledges the match: nobody owes the timer then.
LEMMA ClearStep ==
  ASSUME ClockAssumption, TInv, DInv, ClearMatch(running)
  PROVE  TInv' /\ DInv'
<1>1. TInv'
  BY Zenon, ClearTime
<1>2. running \in Threads /\ frame \in [Threads -> FrameType]
  BY Zenon DEF TInv, ClkTypeOK
<1>3. frame[running].pc = "clk" /\ frame' = [frame EXCEPT ![running].pc = "c3", ![running].clo = CLO]
  BY Zenon DEF ClearMatch
<1>4. /\ \A t \in Threads : /\ frame'[t].i = frame[t].i /\ frame'[t].mask = frame[t].mask
                            /\ frame'[t].pc = "user" => frame[t].pc = "user"
      /\ frame'[running].pc = "c3"
  BY <1>2, <1>3 DEF FrameType
<1>5. UNCHANGED <<arm_enabled_irqs, owed, halted, interruptVector, pending, running>>
  BY Zenon DEF ClearMatch
<1>6. ASSUME NEW t \in Threads, NEW irq \in owed[t]
      PROVE  Pending(irq) => Pending(irq)'
  <2>1. irq # IRQ_TIMER
    BY Zenon, <1>3 DEF DInv, Owes
  <2> QED  BY Zenon, <1>5, <2>1 DEF Pending
<1>7. frame'[running'].pc # "clk"
  BY <1>4, <1>5
<1>8. DInv'
  BY Zenon, <1>4, <1>5, <1>6, <1>7, DispatchStays
<1> QED  BY Zenon, <1>1, <1>8

\* clkhandler() sets C3 and counts the tick; it may switch processes, which
\* leaves a dispatch() half done.
LEMMA HandlerStep ==
  ASSUME ClockAssumption, TInv, DInv, clkhandler(running)
  PROVE  TInv' /\ DInv'
<1>1. TInv'
  BY Zenon, HandlerTime
<1>2. running \in Threads /\ frame \in [Threads -> FrameType] /\ ClkFrames /\ running' \in Threads
  BY Zenon, <1>1 DEF TInv, ClkTypeOK
<1>3. /\ frame[running].pc = "c3"
      /\ frame' = [frame EXCEPT ![running].pc = "scan", ![running].clo = 0, ![running].lat = 0]
      /\ UNCHANGED <<match, arm_enabled_irqs, pending, interruptVector, owed, halted>>
  BY Zenon DEF clkhandler
<1>4. /\ \A t \in Threads : /\ frame'[t].i = frame[t].i /\ frame'[t].mask = frame[t].mask
                            /\ frame'[t].pc = "user" => frame[t].pc = "user"
      /\ frame'[running].pc = "scan" /\ \A t \in Threads : t # running => frame'[t] = frame[t]
  BY <1>2, <1>3 DEF FrameType
<1>5. \A irq : Pending(irq) => Pending(irq)'
  BY Zenon, <1>3 DEF Pending
<1>6. frame'[running'].pc # "clk"
  BY <1>2, <1>4 DEF ClkFrames, InClock
<1>7. DInv'
  BY Zenon, <1>3, <1>4, <1>5, <1>6, DispatchStays
<1> QED  BY Zenon, <1>1, <1>7

\* A driver enables its line after it registered the handler.
LEMMA EnableStep ==
  ASSUME ClockAssumption, TInv, DInv, NEW d \in Devices, Enable(d)
  PROVE  TInv' /\ DInv'
<1>1. /\ d \in interruptVector
      /\ arm_enabled_irqs' = [arm_enabled_irqs EXCEPT ![WordOf(d)] = @ \cup {BitOf(d)}]
      /\ UNCHANGED <<timevars, c3, match, pending, interruptVector, running, frame, owed, preempt, halted>>
  BY Zenon DEF Enable, enable_irq
<1>2. d \in 0..3 * WORD - 1 /\ arm_enabled_irqs \in [0..2 -> SUBSET (0..WORD - 1)]
  BY Zenon DEF ClockAssumption, TInv, ClkTypeOK
<1>3. WordOf(d) \in 0..2 /\ BitOf(d) \in 0..WORD - 1 /\ BitOf(d) + WORD * WordOf(d) = d
  BY Zenon, <1>2, LineIs
<1>4. /\ arm_enabled_irqs' \in [0..2 -> SUBSET (0..WORD - 1)]
      /\ \A w \in 0..2 : \A b \in arm_enabled_irqs'[w] :
            b \in arm_enabled_irqs[w] \/ (w = WordOf(d) /\ b = BitOf(d))
      /\ \A w : \A b \in arm_enabled_irqs[w] : w \in 0..2 => b \in arm_enabled_irqs'[w]
  BY <1>1, <1>2, <1>3
<1>5. ClkTypeOK'
  BY Zenon, <1>1, <1>4 DEF TInv, ClkTypeOK, timevars
<1>6. TInv'
  BY Zenon, <1>1, <1>5, TimeStays DEF timevars
<1>7. Handled'
  <2>1. ASSUME NEW w \in 0..2, NEW b \in arm_enabled_irqs'[w]
        PROVE  b + WORD * w \in interruptVector'
    <3>1. CASE b \in arm_enabled_irqs[w]
      BY Zenon, <1>1, <3>1 DEF DInv, Handled
    <3>2. CASE w = WordOf(d) /\ b = BitOf(d)
      BY Zenon, <1>1, <1>3, <3>2
    <3> QED  BY Zenon, <1>4, <3>1, <3>2
  <2> QED  BY Zenon, <1>1, <2>1 DEF DInv, Handled
<1>8. ASSUME NEW t \in Threads, NEW irq \in owed[t]
      PROVE  Enabled(irq)' /\ Pending(irq)' /\ Ahead(frame'[t], irq)
  <2>1. Enabled(irq) /\ Pending(irq) /\ Ahead(frame[t], irq) /\ irq \in Irq
    BY Zenon DEF DInv, Owes, TInv, ClkTypeOK
  <2>2. WordOf(irq) \in 0..2
    <3>1. irq \in 0..3 * WORD - 1
      BY Zenon, <2>1 DEF Irq, ClockAssumption
    <3> QED  BY Zenon, <3>1, LineIs
  <2>3. Enabled(irq)'
    BY Zenon, <1>4, <2>1, <2>2 DEF Enabled
  <2> QED  BY Zenon, <1>1, <2>1, <2>3 DEF Pending
<1>9. Owes'
  BY Zenon, <1>1, <1>8 DEF DInv, Owes
<1> QED  BY Zenon, <1>1, <1>6, <1>7, <1>9 DEF DInv

\* A driver disables its line: it is owed no more, though old copies of the
\* mask still have it.
LEMMA DisableStep ==
  ASSUME ClockAssumption, TInv, DInv, NEW d \in Devices, Disable(d)
  PROVE  TInv' /\ DInv'
<1>1. /\ arm_enabled_irqs' = [arm_enabled_irqs EXCEPT ![WordOf(d)] = @ \ {BitOf(d)}]
      /\ owed' = [t \in Threads |-> owed[t] \ {d}]
      /\ UNCHANGED <<timevars, c3, match, pending, interruptVector, running, frame, preempt, halted>>
  BY Zenon DEF Disable, disable_irq
<1>2. d \in 0..3 * WORD - 1 /\ arm_enabled_irqs \in [0..2 -> SUBSET (0..WORD - 1)]
  BY Zenon DEF ClockAssumption, TInv, ClkTypeOK
<1>3. WordOf(d) \in 0..2 /\ BitOf(d) \in 0..WORD - 1 /\ d = BitOf(d) + WORD * WordOf(d)
  BY Zenon, <1>2, LineIs
<1>4. /\ arm_enabled_irqs' \in [0..2 -> SUBSET (0..WORD - 1)]
      /\ \A w \in 0..2 : \A b \in arm_enabled_irqs'[w] : b \in arm_enabled_irqs[w]
      /\ \A w \in 0..2 : \A b \in arm_enabled_irqs[w] :
            b \in arm_enabled_irqs'[w] \/ (w = WordOf(d) /\ b = BitOf(d))
  BY <1>1, <1>2, <1>3
<1>5. owed' \in [Threads -> SUBSET Irq] /\ \A t \in Threads : owed'[t] = owed[t] \ {d}
  BY Zenon, <1>1 DEF TInv, ClkTypeOK
<1>6. ClkTypeOK'
  BY Zenon, <1>1, <1>4, <1>5 DEF TInv, ClkTypeOK, timevars
<1>7. TInv'
  BY Zenon, <1>1, <1>6, TimeStays DEF timevars
<1>8. Handled'
  BY Zenon, <1>1, <1>4 DEF DInv, Handled
<1>9. ASSUME NEW t \in Threads, NEW irq \in owed'[t]
      PROVE  Enabled(irq)' /\ Pending(irq)' /\ Ahead(frame'[t], irq)
  <2>1. irq \in owed[t] /\ irq # d /\ irq \in Irq
    BY Zenon, <1>5 DEF TInv, ClkTypeOK
  <2>2. Enabled(irq) /\ Pending(irq) /\ Ahead(frame[t], irq)
    BY Zenon, <2>1 DEF DInv, Owes
  <2>3. WordOf(irq) \in 0..2 /\ irq = BitOf(irq) + WORD * WordOf(irq)
    <3>1. irq \in 0..3 * WORD - 1
      BY Zenon, <2>1 DEF Irq, ClockAssumption
    <3> QED  BY Zenon, <3>1, LineIs
  <2>4. ~(WordOf(irq) = WordOf(d) /\ BitOf(irq) = BitOf(d))
    BY Zenon, <1>3, <2>1, <2>3
  <2>5. Enabled(irq)'
    BY Zenon, <1>4, <2>2, <2>3, <2>4 DEF Enabled
  <2> QED  BY Zenon, <1>1, <2>2, <2>5 DEF Pending
<1>10. Owes'
  BY Zenon, <1>1, <1>5, <1>9 DEF DInv, Owes
<1> QED  BY Zenon, <1>1, <1>7, <1>8, <1>10 DEF DInv

\* dispatch() begins: all it owes is pending, enabled and ahead of it.
LEMMA InterruptStep ==
  ASSUME ClockAssumption, TInv, DInv, Interrupt
  PROVE  TInv' /\ DInv'
<1>1. /\ frame[running].pc = "user"
      /\ frame' = [frame EXCEPT ![running] = [User EXCEPT !.pc = "scan", !.mask = arm_enabled_irqs[0]]]
      /\ owed' = [owed EXCEPT ![running] = Raised]
      /\ UNCHANGED <<timevars, c3, match, arm_enabled_irqs, pending, interruptVector, running, preempt, halted>>
  BY Zenon DEF Interrupt
<1>2. /\ running \in Threads /\ frame \in [Threads -> FrameType] /\ owed \in [Threads -> SUBSET Irq]
      /\ arm_enabled_irqs \in [0..2 -> SUBSET (0..WORD - 1)]
  BY Zenon DEF TInv, ClkTypeOK
<1>3. /\ frame' \in [Threads -> FrameType]
      /\ \A t \in Threads : t # running => frame'[t] = frame[t]
      /\ frame'[running].pc = "scan" /\ frame'[running].i = 0 /\ frame'[running].lat = 0
      /\ frame'[running].mask = arm_enabled_irqs[0]
  <2> DEFINE g == [User EXCEPT !.pc = "scan", !.mask = arm_enabled_irqs[0]]
  <2>1. g.pc = "scan" /\ g.i = 0 /\ g.lat = 0 /\ g.mask = arm_enabled_irqs[0]
    BY DEF User
  <2>2. arm_enabled_irqs[0] \in SUBSET (0..WORD - 1)
    BY <1>2
  <2>3. User \in FrameType
    BY DEF FrameType, User
  <2>4. g \in FrameType
    BY <2>2, <2>3 DEF FrameType
  <2> HIDE DEF g
  <2> QED  BY Zenon, <1>1, <1>2, <2>1, <2>4 DEF g
<1>4. /\ owed' \in [Threads -> SUBSET Irq] /\ owed'[running] = Raised
      /\ \A t \in Threads : t # running => owed'[t] = owed[t]
  <2>1. Raised \in SUBSET Irq
    BY Zenon DEF Raised
  <2> QED  BY Zenon, <1>1, <1>2, <2>1
<1>5. ClkTypeOK'
  BY Zenon, <1>1, <1>3, <1>4 DEF TInv, ClkTypeOK, timevars
<1>6. ~InClock(frame[running]) /\ ~InClock(frame'[running])
  BY <1>1, <1>3 DEF InClock
<1>7. TInv'
  BY Zenon, <1>1, <1>3, <1>5, <1>6, TimeStays DEF timevars
<1>8. Handled'
  <2>1. 0 \in 0..2
    OBVIOUS
  <2>2. \A b \in arm_enabled_irqs[0] : b + WORD * 0 \in interruptVector
    BY Zenon, <2>1 DEF DInv, Handled
  <2>3. ASSUME NEW t \in Threads, NEW b \in frame'[t].mask
        PROVE  b + WORD * frame'[t].i \in interruptVector
    <3>1. CASE t # running
      BY Zenon, <1>3, <3>1 DEF DInv, Handled
    <3>2. CASE t = running
      BY Zenon, <1>3, <2>2, <3>2
    <3> QED  BY Zenon, <3>1, <3>2
  <2> QED  BY Zenon, <1>1, <2>3 DEF DInv, Handled
<1>9. ASSUME NEW t \in Threads, NEW irq \in owed'[t]
      PROVE  Enabled(irq)' /\ Pending(irq)' /\ Ahead(frame'[t], irq)
  <2>1. CASE t # running
    <3>1. irq \in owed[t] /\ frame'[t] = frame[t]
      BY Zenon, <1>3, <1>4, <2>1
    <3>2. Enabled(irq) /\ Pending(irq) /\ Ahead(frame[t], irq)
      BY Zenon, <3>1 DEF DInv, Owes
    <3> QED  BY Zenon, <1>1, <3>1, <3>2 DEF Enabled, Pending
  <2>2. CASE t = running
    <3>1. irq \in Irq /\ Enabled(irq) /\ Pending(irq)
      BY Zenon, <1>4, <2>2 DEF Raised
    <3>2. WordOf(irq) \in 0..2
      <4>1. irq \in 0..3 * WORD - 1
        BY Zenon, <3>1 DEF Irq, ClockAssumption
      <4> QED  BY Zenon, <4>1, LineIs
    <3>3. WordOf(irq) > 0 \/ (WordOf(irq) = 0 /\ BitOf(irq) \in arm_enabled_irqs[0])
      BY <3>1, <3>2 DEF Enabled
    <3>4. Ahead(frame'[t], irq)
      <4>1. frame'[t].pc # "user" /\ frame'[t].i = 0 /\ frame'[t].mask = arm_enabled_irqs[0]
        BY <1>3, <2>2
      <4> QED  BY Zenon, <3>3, <4>1 DEF Ahead
    <3> QED  BY Zenon, <1>1, <3>1, <3>4 DEF Enabled, Pending
  <2> QED  BY Zenon, <2>1, <2>2
<1>10. frame'[running'].pc # "clk"
  BY <1>1, <1>3
<1>11. Owes'
  BY Zenon, <1>9, <1>10 DEF Owes
<1> QED  BY Zenon, <1>1, <1>7, <1>8, <1>11 DEF DInv

\* dispatch() goes on to the next word, or returns owing nothing.
LEMMA NextWordStep ==
  ASSUME ClockAssumption, TInv, DInv, NextWord(running)
  PROVE  TInv' /\ DInv'
<1> DEFINE f == frame[running]
           j == f.i + 1
           g == IF j = 3 THEN User ELSE [f EXCEPT !.i = j, !.mask = arm_enabled_irqs[j]]
<1>1. /\ f.pc = "scan" /\ f.mask = {} /\ frame' = [frame EXCEPT ![running] = g]
      /\ UNCHANGED <<timevars, c3, match, arm_enabled_irqs, pending, interruptVector, running,
                     owed, preempt, halted>>
  BY Zenon DEF NextWord
<1>2. /\ running \in Threads /\ frame \in [Threads -> FrameType] /\ f \in FrameType
      /\ arm_enabled_irqs \in [0..2 -> SUBSET (0..WORD - 1)] /\ ClkFrames
  BY Zenon DEF TInv, ClkTypeOK
<1>3. CASE j = 3
  <2>1. User \in FrameType /\ User.pc = "user" /\ User.mask = {} /\ User.lat = 0 /\ User.i = 0
    BY DEF User, FrameType
  <2>2. g = User
    BY Zenon, <1>3
  <2>3. /\ frame' \in [Threads -> FrameType] /\ frame'[running] = User
        /\ \A t \in Threads : t # running => frame'[t] = frame[t]
    <3> HIDE DEF g
    <3> QED  BY Zenon, <1>1, <1>2, <2>1, <2>2
  <2>4. ClkTypeOK'
    BY Zenon, <1>1, <2>3 DEF TInv, ClkTypeOK, timevars
  <2>5. ~InClock(f) /\ ~InClock(frame'[running]) /\ frame'[running].lat = 0
    BY <1>1, <2>1, <2>3 DEF InClock
  <2>6. TInv'
    BY Zenon, <1>1, <2>3, <2>4, <2>5, TimeStays DEF timevars
  <2>7. Handled'
    BY Zenon, <1>1, <2>1, <2>3 DEF DInv, Handled
  <2>8. owed[running] = {}
    <3> SUFFICES ASSUME NEW irq \in owed[running]
                 PROVE  FALSE
      OBVIOUS
    <3>1. Ahead(f, irq) /\ irq \in Irq
      BY Zenon, <1>2 DEF DInv, Owes, TInv, ClkTypeOK
    <3>2. WordOf(irq) \in 0..2
      <4>1. irq \in 0..3 * WORD - 1
        BY Zenon, <3>1 DEF Irq, ClockAssumption
      <4> QED  BY Zenon, <4>1, LineIs
    <3>3. WordOf(irq) > f.i
      BY Zenon, <1>1, <3>1 DEF Ahead
    <3>4. f.i \in 0..2
      BY <1>2 DEF FrameType
    <3> QED  BY <1>3, <3>2, <3>3, <3>4
  <2>9. ASSUME NEW t \in Threads, NEW irq \in owed'[t]
        PROVE  Enabled(irq)' /\ Pending(irq)' /\ Ahead(frame'[t], irq)
    <3>1. irq \in owed[t] /\ t # running
      BY Zenon, <1>1, <2>8, <2>9
    <3>2. Enabled(irq) /\ Pending(irq) /\ Ahead(frame[t], irq)
      BY Zenon, <3>1 DEF DInv, Owes
    <3>3. frame'[t] = frame[t]
      BY Zenon, <2>3, <3>1
    <3> QED  BY Zenon, <1>1, <3>2, <3>3 DEF Enabled, Pending
  <2>10. frame'[running'].pc # "clk"
    BY <1>1, <2>1, <2>3
  <2>11. Owes'
    BY Zenon, <2>9, <2>10 DEF Owes
  <2> QED  BY Zenon, <1>1, <2>6, <2>7, <2>11 DEF DInv
<1>4. CASE j # 3
  <2>0. f.i \in 0..2 /\ j \in 0..2 /\ f.lat = 0
    BY <1>1, <1>2, <1>4 DEF FrameType, ClkFrames
  <2>1. g = [f EXCEPT !.i = j, !.mask = arm_enabled_irqs[j]]
    BY Zenon, <1>4
  <2>2. /\ g \in FrameType /\ g.pc = "scan" /\ g.mask = arm_enabled_irqs[j] /\ g.lat = 0 /\ g.i = j
    <3>1. arm_enabled_irqs[j] \in SUBSET (0..WORD - 1)
      BY Zenon, <1>2, <2>0
    <3> HIDE DEF j, g
    <3> QED  BY <1>1, <1>2, <2>0, <2>1, <3>1 DEF FrameType
  <2>3. /\ frame' \in [Threads -> FrameType] /\ frame'[running] = g
        /\ \A t \in Threads : t # running => frame'[t] = frame[t]
    <3> HIDE DEF g
    <3> QED  BY Zenon, <1>1, <1>2, <2>2
  <2> HIDE DEF g
  <2>4. ClkTypeOK'
    BY Zenon, <1>1, <2>3 DEF TInv, ClkTypeOK, timevars
  <2>5. ~InClock(f) /\ ~InClock(frame'[running]) /\ frame'[running].lat = 0
    BY <1>1, <2>2, <2>3 DEF InClock
  <2>6. TInv'
    BY Zenon, <1>1, <2>3, <2>4, <2>5, TimeStays DEF timevars
  <2>7. Handled'
    <3>1. ASSUME NEW t \in Threads, NEW b \in frame'[t].mask
          PROVE  b + WORD * frame'[t].i \in interruptVector
      <4>1. CASE t # running
        BY Zenon, <2>3, <4>1 DEF DInv, Handled
      <4>2. CASE t = running
        <5>1. b \in arm_enabled_irqs[j] /\ frame'[t].i = j
          BY Zenon, <2>2, <2>3, <4>2
        <5>2. b + WORD * j \in interruptVector
          BY Zenon, <2>0, <5>1 DEF DInv, Handled
        <5> QED  BY Zenon, <5>1, <5>2
      <4> QED  BY Zenon, <4>1, <4>2
    <3> QED  BY Zenon, <1>1, <3>1 DEF DInv, Handled
  <2>8. ASSUME NEW t \in Threads, NEW irq \in owed'[t]
        PROVE  Enabled(irq)' /\ Pending(irq)' /\ Ahead(frame'[t], irq)
    <3>1. irq \in owed[t] /\ irq \in Irq
      BY Zenon, <1>1 DEF TInv, ClkTypeOK
    <3>2. Enabled(irq) /\ Pending(irq) /\ Ahead(frame[t], irq)
      BY Zenon, <3>1 DEF DInv, Owes
    <3>3. Ahead(frame'[t], irq)
      <4>1. CASE t # running
        BY Zenon, <2>3, <3>2, <4>1
      <4>2. CASE t = running
        <5>1. WordOf(irq) \in 0..2
          <6>1. irq \in 0..3 * WORD - 1
            BY Zenon, <3>1 DEF Irq, ClockAssumption
          <6> QED  BY Zenon, <6>1, LineIs
        <5>2. WordOf(irq) > f.i
          BY Zenon, <1>1, <3>2, <4>2 DEF Ahead
        <5>3. WordOf(irq) > j \/ WordOf(irq) = j
          BY <2>0, <5>1, <5>2
        <5>4. WordOf(irq) = j => BitOf(irq) \in arm_enabled_irqs[j]
          BY Zenon, <3>2 DEF Enabled
        <5>5. g.pc # "user"
          BY <2>2
        <5> QED  BY Zenon, <2>2, <2>3, <4>2, <5>3, <5>4, <5>5 DEF Ahead
      <4> QED  BY Zenon, <4>1, <4>2
    <3> QED  BY Zenon, <1>1, <3>2, <3>3 DEF Enabled, Pending
  <2>9. frame'[running'].pc # "clk"
    BY <1>1, <2>2, <2>3
  <2>10. Owes'
    BY Zenon, <2>8, <2>9 DEF Owes
  <2> QED  BY Zenon, <1>1, <2>6, <2>7, <2>10 DEF DInv
<1> QED  BY Zenon, <1>3, <1>4

\* Serve looks at one line of the mask: what is pending is handled, and the
\* line is owed no more.
LEMMA ServeStep ==
  ASSUME ClockAssumption, TInv, DInv, Serve(running)
  PROVE  TInv' /\ DInv'
<1> DEFINE f == frame[running]
           bit == first_set_bit(f.mask)
           irq == bit + WORD * f.i
           handle == Pending(irq) /\ irq \in interruptVector
<1>1. /\ f.pc = "scan" /\ f.mask # {}
      /\ frame' = [frame EXCEPT ![running].mask = @ \ {bit},
                                ![running].pc = IF handle /\ irq = IRQ_TIMER THEN "clk" ELSE @]
      /\ pending' = IF handle THEN pending \ {irq} ELSE pending
      /\ owed' = IF handle THEN [u \in Threads |-> owed[u] \ {irq}] ELSE owed
      /\ halted' = (Pending(irq) /\ irq \notin interruptVector)
      /\ UNCHANGED <<timevars, c3, match, arm_enabled_irqs, interruptVector, running, preempt>>
  BY Zenon DEF Serve
<1>2. /\ running \in Threads /\ frame \in [Threads -> FrameType] /\ f \in FrameType /\ ClkFrames
      /\ owed \in [Threads -> SUBSET Irq] /\ pending \subseteq Devices
  BY Zenon DEF TInv, ClkTypeOK
<1>3. f.i \in 0..2 /\ f.mask \subseteq 0..WORD - 1 /\ f.lat = 0
  BY <1>1, <1>2 DEF FrameType, ClkFrames
<1>4. bit \in f.mask /\ bit \in 0..WORD - 1
  <2>1. WORD \in Nat
    BY DEF ClockAssumption
  <2>2. Max(f.mask) \in f.mask
    BY Zenon, <1>1, <1>3, <2>1, MaxNat
  <2> QED  BY Zenon, <1>3, <2>2 DEF first_set_bit
<1> HIDE DEF bit
<1>5. irq \in interruptVector
  BY Zenon, <1>2, <1>4 DEF DInv, Handled
<1>6. WordOf(irq) = f.i /\ BitOf(irq) = bit
  BY Zenon, <1>3, <1>4, LineOf
<1> HIDE DEF irq
<1>7. handle <=> Pending(irq)
  BY Zenon, <1>5
<1>8. halted' = FALSE
  BY <1>1, <1>5
<1> HIDE DEF handle
<1>9. /\ frame' \in [Threads -> FrameType]
      /\ \A t \in Threads : t # running => frame'[t] = frame[t]
      /\ frame'[running].mask = f.mask \ {bit} /\ frame'[running].i = f.i /\ frame'[running].lat = 0
      /\ frame'[running].pc = IF handle /\ irq = IRQ_TIMER THEN "clk" ELSE "scan"
  <2> DEFINE q == IF handle /\ irq = IRQ_TIMER THEN "clk" ELSE "scan"
             m == f.mask \ {bit}
             g == [f EXCEPT !.mask = m, !.pc = q]
  <2>1. q \in {"scan", "clk"} /\ m \in SUBSET (0..WORD - 1)
    BY <1>3
  <2>2. frame' = [frame EXCEPT ![running] = g]
    BY <1>1, <1>2 DEF FrameType
  <2> HIDE DEF q, m
  <2>3. g \in FrameType /\ g.mask = m /\ g.pc = q /\ g.i = f.i /\ g.lat = f.lat
    BY <1>2, <2>1 DEF FrameType
  <2> HIDE DEF g
  <2>4. /\ frame' \in [Threads -> FrameType] /\ frame'[running] = g
        /\ \A t \in Threads : t # running => frame'[t] = frame[t]
    BY Zenon, <1>2, <2>2, <2>3
  <2> QED  BY Zenon, <1>3, <2>3, <2>4 DEF q, m
<1>10. pending' \subseteq pending /\ (\A x \in pending : x # irq => x \in pending')
  BY Zenon, <1>1
<1>11. /\ owed' \in [Threads -> SUBSET Irq] /\ \A t \in Threads : owed'[t] \subseteq owed[t]
       /\ handle => \A t \in Threads : irq \notin owed'[t]
  <2>1. CASE handle
    BY Zenon, <1>1, <1>2, <2>1
  <2>2. CASE ~handle
    BY Zenon, <1>1, <1>2, <2>2
  <2> QED  BY Zenon, <2>1, <2>2
<1>12. ClkTypeOK'
  BY Zenon, <1>1, <1>2, <1>8, <1>9, <1>10, <1>11 DEF TInv, ClkTypeOK, timevars
<1>13. UNCHANGED <<count, c3, match, late, clkticks, clktime, running>>
  BY Zenon, <1>1 DEF timevars
<1>14. ~InClock(f)
  BY <1>1 DEF InClock
<1>15. TInv'
  <2>1. CASE handle /\ irq = IRQ_TIMER
    <3>1. match /\ frame'[running].pc = "clk"
      BY Zenon, <1>7, <1>9, <2>1 DEF Pending
    <3> QED  BY Zenon, <1>9, <1>12, <1>13, <1>14, <3>1, ServeTime
  <2>2. CASE ~(handle /\ irq = IRQ_TIMER)
    <3>1. frame'[running].pc = "scan"
      BY Zenon, <1>9, <2>2
    <3>2. ~InClock(frame'[running])
      BY <3>1 DEF InClock
    <3>3. \A t \in Threads : \/ frame'[t] = frame[t]
                             \/ ~InClock(frame[t]) /\ ~InClock(frame'[t]) /\ frame'[t].lat = 0
      BY Zenon, <1>9, <1>14, <3>2
    <3> QED  BY Zenon, <1>12, <1>13, <3>3, TimeStays
  <2> QED  BY Zenon, <2>1, <2>2
<1>16. Handled'
  <2>1. ASSUME NEW t \in Threads, NEW b \in frame'[t].mask
        PROVE  b + WORD * frame'[t].i \in interruptVector
    <3>1. b \in frame[t].mask /\ frame'[t].i = frame[t].i
      BY Zenon, <1>9
    <3> QED  BY Zenon, <3>1 DEF DInv, Handled
  <2> QED  BY Zenon, <1>1, <2>1 DEF DInv, Handled
<1>17. ASSUME NEW t \in Threads, NEW x \in owed'[t]
       PROVE  Enabled(x)' /\ Pending(x)' /\ Ahead(frame'[t], x)
  <2>1. x \in owed[t] /\ x \in Irq
    BY Zenon, <1>2, <1>11
  <2>2. Enabled(x) /\ Pending(x) /\ Ahead(frame[t], x)
    BY Zenon, <2>1 DEF DInv, Owes
  <2>3. x # irq
    BY Zenon, <1>7, <1>11, <1>17, <2>2
  <2>4. Enabled(x)' /\ Pending(x)'
    BY Zenon, <1>1, <1>10, <2>2, <2>3 DEF Enabled, Pending
  <2>5. Ahead(frame'[t], x)
    <3>1. CASE t # running
      BY Zenon, <1>9, <2>2, <3>1
    <3>2. CASE t = running
      <4>1. x \in 0..3 * WORD - 1
        BY Zenon, <2>1 DEF Irq, ClockAssumption
      <4>2. x = BitOf(x) + WORD * WordOf(x)
        BY Zenon, <4>1, LineIs
      <4>3. WordOf(x) = f.i => BitOf(x) # bit
        BY Zenon, <2>3, <4>2 DEF irq
      <4>4. frame'[running].pc # "user"
        BY <1>9
      <4> QED  BY Zenon, <1>9, <2>2, <3>2, <4>3, <4>4 DEF Ahead
    <3> QED  BY Zenon, <3>1, <3>2
  <2> QED  BY Zenon, <2>4, <2>5
<1>18. frame'[running'].pc = "clk" => \A t \in Threads : IRQ_TIMER \notin owed'[t]
  <2>1. frame'[running].pc = "clk" => handle /\ irq = IRQ_TIMER
    BY <1>9
  <2> QED  BY Zenon, <1>11, <1>13, <2>1
<1>19. Owes'
  BY Zenon, <1>17, <1>18 DEF Owes
<1> QED  BY Zenon, <1>8, <1>15, <1>16, <1>19 DEF DInv

\* Every step keeps both invariants.
LEMMA ClockNext ==
  ASSUME ClockAssumption, TInv, DInv, [Next]_vars
  PROVE  TInv' /\ DInv'
<1>1. CASE UNCHANGED vars
  <2>1. UNCHANGED <<count, c3, match, late, clkticks, clktime, arm_enabled_irqs, pending,
                    interruptVector, running, frame, owed, preempt, halted>>
    BY Zenon, <1>1 DEF vars
  <2>2. ClkTypeOK'
    BY Zenon, <2>1 DEF TInv, ClkTypeOK
  <2>3. TInv'
    BY Zenon, <2>1, <2>2, TimeStays
  <2>4. \A irq : Pending(irq) => Pending(irq)'
    BY Zenon, <2>1 DEF Pending
  <2>5. DInv'
    BY Zenon, <2>1, <2>4, DispatchStays
  <2> QED  BY Zenon, <2>3, <2>5
<1>2. CASE Next
  <2>1. CASE \E t \in Threads : dispatch(t)
    BY Zenon, <2>1, NextWordStep, ServeStep, ClearStep, HandlerStep DEF dispatch
  <2>2. CASE \E d \in Devices : Assert(d) \/ Register(d) \/ Enable(d) \/ Disable(d)
    BY Zenon, <2>2, AssertStep, RegisterStep, EnableStep, DisableStep
  <2>3. CASE Tick \/ Interrupt \/ Yield
    BY Zenon, <2>3, TickStep, InterruptStep, YieldStep
  <2> QED  BY Zenon, <1>2, <2>1, <2>2, <2>3 DEF Next
<1> QED  BY Zenon, <1>1, <1>2

\* Both invariants hold in every behaviour.
LEMMA ClockInvariant ==
  ASSUME ClockAssumption
  PROVE  Spec => [](TInv /\ DInv)
<1>1. Init => TInv /\ DInv
  BY Zenon, TimeInit, DispatchInit
<1>2. TInv /\ DInv /\ [Next]_vars => (TInv /\ DInv)'
  BY Zenon, ClockNext
<1> QED  BY <1>1, <1>2, PTL DEF Spec

\* The clock keeps time, for every counter width, tick length, bound on the
\* latency of clkupdate() below a tick, quantum and set of devices: a match of
\* C3 is latched, being served, or at most a tick ahead, and the ticks that
\* clkhandler() has counted are no more than the whole ticks elapsed as long as
\* none was served a whole turn of the counter late.
THEOREM ClockKeepsTimeHolds ==
  ASSUME ClockAssumption
  PROVE  Spec => []ClockKeepsTime
<1>1. TInv /\ DInv => ClockKeepsTime
  BY Zenon, TimeKept DEF ClockKeepsTime
<1> QED  BY <1>1, ClockInvariant, PTL

\* dispatch() returns with nothing left of what was pending when it began and
\* stayed enabled, however its process was switched out in the middle, and
\* handle_irq() never meets a line without a handler.
THEOREM DispatchServesAllHolds ==
  ASSUME ClockAssumption
  PROVE  Spec => [](DispatchServesAll /\ NeverHalted)
<1>1. TInv /\ DInv => DispatchServesAll /\ NeverHalted
  BY Zenon, DispatchKept
<1> QED  BY <1>1, ClockInvariant, PTL

-----------------------------------------------------------------------------
(* Module Timer, which shares nothing with module Clock but the counter *)

\* The low word of a counter that was at b, less than two turns later.
LEMMA LowWord ==
  ASSUME NEW W \in Nat, W > 0, NEW b \in Int, NEW c \in Int, b <= c
  PROVE  LET x == (b % W) + (c - b) IN
         /\ x < W => c % W = x
         /\ x >= W /\ x < 2 * W => c % W = x - W
<1> DEFINE x == (b % W) + (c - b)
<1>1. PICK q \in Int : b = q * W + (b % W)
  BY ModOf
<1>2. b % W \in 0 .. W - 1
  BY ModOf
<1>3. x \in Int /\ x >= 0 /\ c = q * W + x
  BY <1>1, <1>2
<1> HIDE DEF x
<1>4. CASE x < W
  <2>1. x \in 0 .. W - 1
    BY <1>3, <1>4
  <2>2. (q * W + x) % W = x
    BY <2>1, ModIs
  <2> QED  BY <1>3, <1>4, <2>2 DEF x
<1>5. CASE x >= W /\ x < 2 * W
  <2>1. x - W \in 0 .. W - 1 /\ q + 1 \in Int
    BY <1>3, <1>5
  <2>2. ((q + 1) * W + (x - W)) % W = x - W
    BY <2>1, ModIs
  <2>3. (q + 1) * W + (x - W) = c
    BY <1>3
  <2> QED  BY <1>3, <1>5, <2>2, <2>3 DEF x
<1> QED  BY <1>3, <1>4, <1>5 DEF x

\* The compare value CLKUPDATE sets is CYCLES ahead if the low word does not
\* wrap on the way, and never further.
LEMMA CompareAhead ==
  ASSUME Tmr!TimerAssumption, count \in Nat
  PROVE  /\ Tmr!CLKUPDATE(CYCLES) \in Int /\ Tmr!CLKUPDATE(CYCLES) <= count + CYCLES
         /\ (count % WRAP) + CYCLES < WRAP => Tmr!CLKUPDATE(CYCLES) = count + CYCLES
<1>1. WRAP \in Nat /\ WRAP > 0 /\ CYCLES \in Nat
  BY DEF Tmr!TimerAssumption
<1> DEFINE l == count % WRAP
           q == count \div WRAP
           s == (l + CYCLES) % WRAP
<1>2. l \in 0 .. WRAP - 1 /\ q \in Int /\ count = q * WRAP + l
  BY <1>1
<1> HIDE DEF l, q
<1>3. s \in 0 .. WRAP - 1 /\ \E p \in Int : l + CYCLES = p * WRAP + s
  <2>1. l + CYCLES \in Int
    BY <1>1, <1>2
  <2> QED  BY <1>1, <2>1, ModOf
<1>4. PICK p \in Int : l + CYCLES = p * WRAP + s
  BY <1>3
<1> HIDE DEF s
<1>5. s <= l + CYCLES
  <2>1. p >= 0
    <3>1. CASE p <= -1
      <4>1. p * WRAP <= -WRAP
        BY <1>1, <3>1
      <4> QED  BY <1>1, <1>2, <1>3, <1>4, <4>1
    <3> QED  BY <3>1
  <2>2. p * WRAP >= 0
    BY <1>1, <2>1
  <2> QED  BY <1>1, <1>2, <1>3, <1>4, <2>2
<1>6. l + CYCLES < WRAP => s = l + CYCLES
  <2>1. ASSUME l + CYCLES < WRAP
        PROVE  s = l + CYCLES
    <3>1. l + CYCLES \in 0 .. WRAP - 1 /\ 0 * WRAP + (l + CYCLES) = l + CYCLES
      BY <1>1, <1>2, <2>1
    <3>2. (0 * WRAP + (l + CYCLES)) % WRAP = l + CYCLES
      BY <1>1, <3>1, ModIs
    <3> QED  BY <3>1, <3>2 DEF s
  <2> QED  BY <2>1
<1>7. Tmr!CLKUPDATE(CYCLES) = WRAP * q + s
  BY Zenon DEF Tmr!CLKUPDATE, Tmr!clkcount, q, s, l
<1>8. WRAP * q = q * WRAP /\ q * WRAP \in Int
  BY <1>1, <1>2
<1>9. Tmr!CLKUPDATE(CYCLES) \in Int /\ Tmr!CLKUPDATE(CYCLES) <= count + CYCLES
  BY <1>1, <1>2, <1>3, <1>5, <1>7, <1>8
<1>10. l + CYCLES < WRAP => Tmr!CLKUPDATE(CYCLES) = count + CYCLES
  BY <1>1, <1>2, <1>3, <1>6, <1>7, <1>8
<1> QED  BY Zenon, <1>9, <1>10 DEF l

\* The clock of a secondary core: the compare value is the one set when the
\* counter was at lastSet.
CoreInv ==
  /\ count \in Nat /\ lastSet \in Nat /\ lastSet <= count
  /\ who = "core" => /\ cval \in Int /\ cval <= lastSet + CYCLES
                     /\ (lastSet % WRAP) + CYCLES < WRAP => cval = lastSet + CYCLES

\* udelay(): start is the low word at the call.  The first branch is taken if
\* the low word does not wrap within the delay; in the second, once the first
\* loop is left after the counter moved, the low word has wrapped.
DelayInv ==
  /\ began \in Nat /\ began <= count
  /\ start \in Nat /\ delay \in Nat /\ target \in Nat
  /\ pc \in {"out", "loop", "above", "below", "done"}
  /\ pc # "out" => start = began % WRAP /\ delay < WRAP
  /\ pc = "loop" => target = start + delay /\ start + delay < WRAP
  /\ pc \in {"above", "below"} => start + delay >= WRAP /\ target = (start + delay) - WRAP
  /\ moved => count > began
  /\ pc = "below" /\ moved => count - began >= WRAP - start
  /\ Tmr!UdelayWaits

\* The invariants of module Timer hold at first.
LEMMA TimerInit ==
  ASSUME Tmr!TimerAssumption, Tmr!Init
  PROVE  CoreInv /\ DelayInv
<1>1. count \in Nat /\ lastSet = count /\ (who = "core" => cval = Tmr!CLKUPDATE(CYCLES))
  BY DEF Tmr!Init, Tmr!TimerAssumption
<1>2. CoreInv
  BY <1>1, CompareAhead DEF CoreInv
<1>3. ~moved /\ pc = "out" /\ began = 0 /\ start = 0 /\ delay = 0 /\ target = 0
  BY Zenon DEF Tmr!Init
<1>4. DelayInv
  BY <1>1, <1>3 DEF DelayInv, Tmr!UdelayWaits
<1> QED  BY Zenon, <1>2, <1>4

\* The secondary core's clock is set only when its time has come.
LEMMA CoreStep ==
  ASSUME Tmr!TimerAssumption, CoreInv, [Tmr!Next]_Tmr!vars
  PROVE  CoreInv' /\ Tmr!SpacedStep
<1> USE DEF CoreInv
<1>0. CYCLES \in Nat /\ WRAP \in Nat /\ WRAP > 0
  BY DEF Tmr!TimerAssumption
<1>1. CASE Tmr!CoreTick
  <2>1. /\ who = "core" /\ count >= cval /\ cval' = Tmr!CLKUPDATE(CYCLES) /\ lastSet' = count
        /\ count' = count /\ who' = who
    BY Zenon, <1>1 DEF Tmr!CoreTick
  <2>2. CoreInv'
    BY <2>1, CompareAhead
  <2>3. lastSet % WRAP \in 0 .. WRAP - 1
    BY <1>0, ModOf
  <2> DEFINE m == lastSet % WRAP
  <2> HIDE DEF m
  <2>4. count - lastSet >= CYCLES \/ m + CYCLES >= WRAP
    BY <1>0, <2>1, <2>3 DEF m
  <2> QED  BY Zenon, <2>2, <2>4 DEF m, Tmr!SpacedStep
<1>2. CASE Tmr!Tick
  <2>1. count' = count + 1 /\ UNCHANGED <<who, cval, lastSet>>
    BY Zenon, <1>2 DEF Tmr!Tick, Tmr!tvars
  <2> QED  BY <2>1 DEF Tmr!SpacedStep
<1>3. CASE UNCHANGED <<count, who, cval, lastSet>>
  BY <1>3 DEF Tmr!SpacedStep
<1>4. Tmr!CoreTick \/ Tmr!Tick \/ UNCHANGED <<count, who, cval, lastSet>>
  BY Zenon DEF Tmr!Next, Tmr!vars, Tmr!tvars, Tmr!udelay, Tmr!Loop, Tmr!Above, Tmr!Below, Tmr!Return
<1> QED  BY <1>1, <1>2, <1>3, <1>4

\* udelay() reads the counter for the first time and chooses its branch.
LEMMA DelayCall ==
  ASSUME Tmr!TimerAssumption, CoreInv, DelayInv, NEW d \in Delays, Tmr!udelay(d)
  PROVE  DelayInv'
<1>0. WRAP \in Nat /\ WRAP > 0 /\ d \in 0 .. WRAP - 1 /\ count \in Nat
  BY DEF Tmr!TimerAssumption, CoreInv
<1> DEFINE l == count % WRAP
           s == (l + d) % WRAP
<1>1. /\ delay' = d /\ began' = count /\ start' = l /\ target' = s /\ moved' = FALSE
      /\ pc' = (IF s >= l THEN "loop" ELSE "above") /\ count' = count
  BY Zenon DEF Tmr!udelay, Tmr!clkcount
<1>2. l \in 0 .. WRAP - 1
  BY <1>0, ModOf
<1> HIDE DEF l
<1>3. /\ l + d < WRAP => s = l + d
      /\ l + d >= WRAP => s = (l + d) - WRAP
  <2>1. l + d \in Int /\ 1 \in Int /\ 0 \in Int
    BY <1>0, <1>2
  <2>2. ASSUME l + d < WRAP
        PROVE  s = l + d
    <3>1. l + d \in 0 .. WRAP - 1 /\ 0 * WRAP + (l + d) = l + d
      BY <1>0, <1>2, <2>2
    <3>2. (0 * WRAP + (l + d)) % WRAP = l + d
      BY <1>0, <3>1, ModIs
    <3> QED  BY <3>1, <3>2
  <2>3. ASSUME l + d >= WRAP
        PROVE  s = (l + d) - WRAP
    <3>1. (l + d) - WRAP \in 0 .. WRAP - 1 /\ 1 * WRAP + ((l + d) - WRAP) = l + d
      BY <1>0, <1>2, <2>3
    <3>2. (1 * WRAP + ((l + d) - WRAP)) % WRAP = (l + d) - WRAP
      BY <1>0, <3>1, ModIs
    <3> QED  BY <3>1, <3>2
  <2> QED  BY <2>2, <2>3
<1> HIDE DEF s
<1>4. l = count % WRAP
  BY DEF l
<1>5. s \in Nat /\ (s >= l <=> l + d < WRAP)
  BY <1>0, <1>2, <1>3
<1>6. /\ pc' = "loop" => l + d < WRAP
      /\ pc' = "above" => l + d >= WRAP
      /\ pc' \in {"loop", "above"}
  BY <1>0, <1>1, <1>2, <1>5
<1>7. start' = began' % WRAP
  BY Zenon, <1>1, <1>4
<1>8. /\ delay' = d /\ began' = count /\ start' = l /\ target' = s /\ ~moved' /\ count' = count
  BY Zenon, <1>1
<1> QED  BY <1>0, <1>2, <1>3, <1>5, <1>6, <1>7, <1>8 DEF DelayInv, Tmr!UdelayWaits

\* The loops of udelay() end no earlier than they should.
LEMMA DelayLoops ==
  ASSUME Tmr!TimerAssumption, CoreInv, DelayInv, Tmr!Loop \/ Tmr!Above \/ Tmr!Below
  PROVE  DelayInv'
<1>0. /\ WRAP \in Nat /\ WRAP > 0 /\ count \in Nat /\ began \in Nat /\ began <= count
      /\ start \in Nat /\ delay \in Nat /\ target \in Nat
      /\ pc # "out" /\ start = began % WRAP /\ delay < WRAP
  BY DEF Tmr!TimerAssumption, CoreInv, DelayInv, Tmr!Loop, Tmr!Above, Tmr!Below
<1>1. start \in 0 .. WRAP - 1
  BY <1>0, ModOf
<1> DEFINE l == count % WRAP
           x == start + (count - began)
<1>2. l \in 0 .. WRAP - 1
  BY <1>0, ModOf
<1>3. /\ x < WRAP => l = x
      /\ x >= WRAP /\ x < 2 * WRAP => l = x - WRAP
  <2> DEFINE y == (began % WRAP) + (count - began)
  <2>1. began \in Int /\ count \in Int
    BY <1>0
  <2>2. /\ y < WRAP => count % WRAP = y
        /\ y >= WRAP /\ y < 2 * WRAP => count % WRAP = y - WRAP
    BY Zenon, <1>0, <2>1, LowWord
  <2> QED  BY Zenon, <1>0, <2>2
<1>4. UNCHANGED <<count, start, target, delay, began>> /\ Tmr!clkcount = l
  BY Zenon DEF Tmr!Loop, Tmr!Above, Tmr!Below, Tmr!clkcount
<1> HIDE DEF l
<1>5. CASE Tmr!Loop
  <2>1. /\ pc = "loop" /\ moved' = moved
        /\ pc' = IF l < target /\ l >= start THEN pc ELSE "done"
    BY Zenon, <1>4, <1>5 DEF Tmr!Loop
  <2>2. pc' \in {"loop", "done"} /\ (pc' = "done" => count - began >= delay)
    BY <1>0, <1>1, <1>2, <1>3, <2>1 DEF DelayInv
  <2> QED  BY <1>0, <1>4, <2>1, <2>2 DEF DelayInv, Tmr!UdelayWaits
<1>6. CASE Tmr!Above
  <2>1. /\ pc = "above" /\ moved' = (moved \/ count # began)
        /\ pc' = IF l > start THEN pc ELSE "below"
    BY Zenon, <1>4, <1>6 DEF Tmr!Above
  <2>2. pc' \in {"above", "below"} /\ (moved' => count > began)
    <3>1. moved' => moved \/ count # began
      BY Zenon, <2>1
    <3>2. pc' \in {"above", "below"}
      BY <2>1
    <3> QED  BY <1>0, <3>1, <3>2 DEF DelayInv
  <2>3. pc' = "below" /\ moved' => count - began >= WRAP - start
    BY <1>0, <1>1, <1>2, <1>3, <2>1, <2>2
  <2> QED  BY <1>0, <1>4, <2>1, <2>2, <2>3 DEF DelayInv, Tmr!UdelayWaits
<1>7. CASE Tmr!Below
  <2>1. /\ pc = "below" /\ moved' = moved
        /\ pc' = IF l < target THEN pc ELSE "done"
    BY Zenon, <1>4, <1>7 DEF Tmr!Below
  <2>2. pc' \in {"below", "done"} /\ (pc' = "done" /\ moved => count - began >= delay)
    BY <1>0, <1>1, <1>2, <1>3, <2>1 DEF DelayInv
  <2> QED  BY <1>0, <1>4, <2>1, <2>2 DEF DelayInv, Tmr!UdelayWaits
<1> QED  BY <1>5, <1>6, <1>7

\* Every step of module Timer keeps udelay()'s invariant.
LEMMA DelayStep ==
  ASSUME Tmr!TimerAssumption, CoreInv, DelayInv, [Tmr!Next]_Tmr!vars
  PROVE  DelayInv'
<1>1. CASE Tmr!Tick
  BY <1>1 DEF Tmr!Tick, Tmr!uvars, DelayInv, CoreInv, Tmr!UdelayWaits, Tmr!TimerAssumption
<1>2. CASE Tmr!CoreTick \/ UNCHANGED Tmr!vars
  <2>1. UNCHANGED <<count, pc, start, target, delay, began, moved>>
    BY Zenon, <1>2 DEF Tmr!CoreTick, Tmr!uvars, Tmr!vars
  <2> QED  BY <2>1 DEF DelayInv, Tmr!UdelayWaits
<1>3. CASE Tmr!Return
  <2>1. /\ ~moved' /\ pc' = "out" /\ began' = 0 /\ start' = 0 /\ delay' = 0 /\ target' = 0
        /\ count' = count
    BY Zenon, <1>3 DEF Tmr!Return
  <2> QED  BY <2>1 DEF DelayInv, CoreInv, Tmr!UdelayWaits
<1>4. CASE Tmr!Loop \/ Tmr!Above \/ Tmr!Below
  BY Zenon, <1>4, DelayLoops
<1>5. CASE \E d \in Delays : Tmr!udelay(d)
  BY Zenon, <1>5, DelayCall
<1> QED  BY Zenon, <1>1, <1>2, <1>3, <1>4, <1>5 DEF Tmr!Next

\* udelay() waits as long as it is asked to, for every width of the counter,
\* every delay that fits in a word and wherever the counter wraps meanwhile,
\* unless the low word is to wrap within the delay and the counter has not moved
\* when udelay() first reads it again.
THEOREM UdelayWaitsHolds ==
  ASSUME Tmr!TimerAssumption
  PROVE  Tmr!Spec => []Tmr!UdelayWaits
<1>1. Tmr!Init => CoreInv /\ DelayInv
  BY Zenon, TimerInit
<1>2. CoreInv /\ DelayInv /\ [Tmr!Next]_Tmr!vars => (CoreInv /\ DelayInv)'
  BY Zenon, CoreStep, DelayStep
<1>3. CoreInv /\ DelayInv => Tmr!UdelayWaits
  BY Zenon DEF DelayInv
<1> QED  BY <1>1, <1>2, <1>3, PTL DEF Tmr!Spec

\* The clock of a secondary core: the next tick is never more than CYCLES
\* ahead, and two ticks are CYCLES apart unless CLKUPDATE lost the carry of
\* the low word between them.
THEOREM CoreTickSpacedHolds ==
  ASSUME Tmr!TimerAssumption
  PROVE  Tmr!Spec => []Tmr!CoreNotSilent /\ Tmr!CoreTickSpaced
<1>1. Tmr!Init => CoreInv
  BY Zenon, TimerInit
<1>2. CoreInv /\ [Tmr!Next]_Tmr!vars => CoreInv' /\ [Tmr!SpacedStep]_Tmr!vars
  BY Zenon, CoreStep
<1>3. CoreInv => Tmr!CoreNotSilent
  BY DEF CoreInv, Tmr!CoreNotSilent, Tmr!TimerAssumption
<1> QED  BY <1>1, <1>2, <1>3, PTL DEF Tmr!Spec, Tmr!CoreTickSpaced
=============================================================================
