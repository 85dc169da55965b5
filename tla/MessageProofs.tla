--------------------------- MODULE MessageProofs ----------------------------
(***************************************************************************)
(* No wake-up is lost or comes twice, no sender is left behind, and the    *)
(* calls implement mailboxes, for any number of cores and processes, any   *)
(* of which may be preempted inside a call.                                *)
(***************************************************************************)
EXTENDS Message, TLAPS

\* Labels of a process that has marked itself as waiting but is still in the
\* call, and of a process that is about to ready another one.
Blocking == {"release resched", "resched"}
Waking == {"release ready", "ready"}
State == {"PRFREE", "PRCURR", "PRREADY", "PRRECV", "PRSEND"}

\* The places of the queues of blocked senders, and who is in them.
Waits(queue) == {x \in Proc \X Nat : x[2] \in 1 .. Len(queue[x[1]])}
Sender(queue, x) == queue[x[1]][x[2]]

\* A core runs its own processes.  One that runs is PRCURR unless it is about
\* to block: then it may be waiting or, if it was readied meanwhile, ready.
RunOK ==
  /\ \A c \in Core : running[c] # None => CoreOf[running[c]] = c
  /\ \A p \in Proc : running[CoreOf[p]] = p => state[p] = "PRCURR" \/ pc[p] \in Blocking
  /\ \A p \in Proc : state[p] = "PRCURR" => running[CoreOf[p]] = p
  /\ \A p \in readyset : state[p] = "PRREADY"

\* A process waits in recv() with a message exactly while one process is
\* about to ready it; a process about to be readied waits.
WakeOK ==
  /\ \A p \in Proc : state[p] = "PRRECV" => (hasMessage[p] <=> WakePending(p))
  /\ \A q \in Proc : pc[q] \in Waking =>
       peer[q] \in Proc /\ state[peer[q]] \in {"PRRECV", "PRSEND"}
  /\ \A q, s \in Proc : pc[q] \in Waking /\ pc[s] \in Waking /\ peer[q] = peer[s] => q = s

\* Who is about to be readied.
Woken == {peer[q] : q \in {d \in Proc : pc[d] \in Waking}}

\* A sender in a queue is there once, is PRSEND, and nobody readies it.
SendersOK(queue, st, woken) ==
  /\ queue \in [Proc -> Seq(Proc)]
  /\ \A x \in Waits(queue) : st[Sender(queue, x)] = "PRSEND" /\ Sender(queue, x) \notin woken
  /\ \A x, y \in Waits(queue) : Sender(queue, x) = Sender(queue, y) => x = y

QueueOK == SendersOK(msgqueue, state, Woken)

\* A sender in its call has a receiver.
CallOK == \A p \in Proc : pc[p] # "out" /\ Sending(p) => peer[p] \in Proc

MInv == TypeOK /\ RunOK /\ WakeOK /\ QueueOK /\ CallOK
-----------------------------------------------------------------------------
\* The queues new are the queues queue with p added behind queue r.
Extended(queue, new, r, p) ==
  /\ new \in [Proc -> Seq(Proc)]
  /\ \E e : /\ Waits(new) = Waits(queue) \cup {e} /\ Sender(new, e) = p /\ e[1] = r
            /\ \A x \in Waits(queue) : Sender(new, x) = Sender(queue, x)

\* enqueue() on a queue of senders adds one place.
LEMMA AppendWaits ==
  ASSUME NEW queue \in [Proc -> Seq(Proc)], NEW r \in Proc, NEW p \in Proc, NEW new,
         new = [queue EXCEPT ![r] = Append(@, p)]
  PROVE  Extended(queue, new, r, p)
<1> DEFINE e == <<r, Len(queue[r]) + 1>>
<1>1. /\ new \in [Proc -> Seq(Proc)] /\ new[r] = Append(queue[r], p)
      /\ \A q \in Proc : q # r => new[q] = queue[q]
  OBVIOUS
<1>2. /\ Len(queue[r]) \in Nat /\ Len(new[r]) = Len(queue[r]) + 1
      /\ new[r][Len(queue[r]) + 1] = p
      /\ \A i \in 1 .. Len(queue[r]) : new[r][i] = queue[r][i]
  BY <1>1
<1>3. ASSUME NEW x \in Proc \X Nat
      PROVE  /\ x \in Waits(new) <=> (x \in Waits(queue) \/ x = e)
             /\ x \in Waits(queue) => Sender(new, x) = Sender(queue, x)
  <2>1. x = <<x[1], x[2]>> /\ x[1] \in Proc /\ x[2] \in Nat
    OBVIOUS
  <2>2. CASE x[1] # r
    BY <1>1, <2>1, <2>2 DEF Waits, Sender
  <2>3. CASE x[1] = r
    BY <1>2, <2>1, <2>3 DEF Waits, Sender
  <2> QED  BY Zenon, <2>2, <2>3
<1>4. e \in Proc \X Nat /\ Sender(new, e) = p /\ e[1] = r
  BY <1>2 DEF Sender
<1> HIDE DEF e
<1>5. \A x : x \in Waits(new) \/ x \in Waits(queue) => x \in Proc \X Nat
  BY Zenon DEF Waits
<1>6. Waits(new) = Waits(queue) \cup {e}
  BY Zenon, <1>3, <1>4, <1>5
<1>7. \A x \in Waits(queue) : Sender(new, x) = Sender(queue, x)
  BY Zenon, <1>3, <1>5
<1> QED  BY Zenon, <1>1, <1>4, <1>6, <1>7 DEF Extended

\* The queues new are the queues queue without the first place of queue r;
\* Back leads from a place to the one it was before.
Back(r, x) == IF x[1] = r THEN <<r, x[2] + 1>> ELSE x

Shortened(queue, new, r) ==
  /\ new \in [Proc -> Seq(Proc)]
  /\ <<r, 1>> \in Waits(queue) /\ Sender(queue, <<r, 1>>) = Head(queue[r])
  /\ Head(queue[r]) \in Proc
  /\ \A x \in Waits(new) : /\ Back(r, x) \in Waits(queue) /\ Back(r, x) # <<r, 1>>
                           /\ Sender(queue, Back(r, x)) = Sender(new, x)
                           /\ Back(r, x)[1] = x[1]
  /\ \A x, y \in Waits(new) : Back(r, x) = Back(r, y) => x = y
  /\ \A y \in Waits(queue) : y = <<r, 1>> \/ \E x \in Waits(new) : Back(r, x) = y

\* dequeue() takes the first place of a queue away.
LEMMA TailWaits ==
  ASSUME NEW queue \in [Proc -> Seq(Proc)], NEW r \in Proc, queue[r] # <<>>, NEW new,
         new = [queue EXCEPT ![r] = Tail(@)]
  PROVE  Shortened(queue, new, r)
<1>1. /\ new \in [Proc -> Seq(Proc)] /\ new[r] = Tail(queue[r])
      /\ \A q \in Proc : q # r => new[q] = queue[q]
  OBVIOUS
<1>2. /\ Len(queue[r]) \in Nat /\ Len(queue[r]) >= 1 /\ Len(new[r]) = Len(queue[r]) - 1
      /\ \A i \in 1 .. Len(new[r]) : new[r][i] = queue[r][i + 1]
      /\ Head(queue[r]) = queue[r][1] /\ Head(queue[r]) \in Proc
  BY <1>1
<1>3. <<r, 1>> \in Waits(queue) /\ Sender(queue, <<r, 1>>) = Head(queue[r])
  BY <1>2 DEF Waits, Sender
<1>4. ASSUME NEW x \in Waits(new)
      PROVE  /\ Back(r, x) \in Waits(queue) /\ Back(r, x) # <<r, 1>>
             /\ Sender(queue, Back(r, x)) = Sender(new, x)
             /\ Back(r, x)[1] = x[1]
  <2>1. x = <<x[1], x[2]>> /\ x[1] \in Proc /\ x[2] \in Nat /\ x[2] \in 1 .. Len(new[x[1]])
    BY DEF Waits
  <2>2. CASE x[1] # r
    BY <1>1, <2>1, <2>2 DEF Waits, Sender, Back
  <2>3. CASE x[1] = r
    <3>1. Back(r, x) = <<r, x[2] + 1>>
      BY Zenon, <2>3 DEF Back
    <3>2. x[2] \in 1 .. Len(new[r]) /\ x[2] + 1 \in 1 .. Len(queue[r]) /\ x[2] + 1 # 1
      BY <1>2, <2>1, <2>3
    <3> QED  BY <1>2, <2>1, <2>3, <3>1, <3>2 DEF Waits, Sender
  <2> QED  BY Zenon, <2>2, <2>3
<1>5. ASSUME NEW x \in Waits(new), NEW y \in Waits(new), Back(r, x) = Back(r, y)
      PROVE  x = y
  <2>1. /\ x = <<x[1], x[2]>> /\ x[2] \in Nat
        /\ y = <<y[1], y[2]>> /\ y[2] \in Nat
    BY DEF Waits
  <2>2. x[1] = y[1]
    BY Zenon, <1>4, <1>5
  <2>3. CASE x[1] # r
    BY Zenon, <1>5, <2>2, <2>3 DEF Back
  <2>4. CASE x[1] = r
    <3>1. <<r, x[2] + 1>> = <<r, y[2] + 1>>
      BY Zenon, <1>5, <2>2, <2>4 DEF Back
    <3>2. x[2] = y[2]
      BY <2>1, <3>1
    <3> QED  BY Zenon, <2>1, <2>2, <3>2, Zenon
  <2> QED  BY Zenon, <2>3, <2>4
<1>6. ASSUME NEW y \in Waits(queue), y # <<r, 1>>
      PROVE  \E x \in Waits(new) : Back(r, x) = y
  <2>1. y = <<y[1], y[2]>> /\ y[1] \in Proc /\ y[2] \in Nat /\ y[2] \in 1 .. Len(queue[y[1]])
    BY DEF Waits
  <2>2. CASE y[1] # r
    BY Zenon, <1>1, <2>1, <2>2 DEF Waits, Back
  <2>3. CASE y[1] = r
    <3>1. y[2] # 1 /\ y[2] - 1 \in Nat /\ y[2] - 1 \in 1 .. Len(new[r]) /\ (y[2] - 1) + 1 = y[2]
      BY <1>2, <1>6, <2>1, <2>3
    <3>2. <<r, y[2] - 1>> \in Waits(new) /\ Back(r, <<r, y[2] - 1>>) = y
      BY Zenon, <2>1, <2>3, <3>1 DEF Waits, Back
    <3> QED  BY Zenon, <3>2
  <2> QED  BY Zenon, <2>2, <2>3
<1> QED  BY Zenon, <1>1, <1>2, <1>3, <1>4, <1>5, <1>6 DEF Shortened

\* Only processes wait in the queues.
LEMMA SendersInProc ==
  ASSUME NEW queue \in [Proc -> Seq(Proc)]
  PROVE  \A x \in Waits(queue) : Sender(queue, x) \in Proc
BY DEF Waits, Sender

\* Processes that wait in queues are left alone.
LEMMA SendersStay ==
  ASSUME NEW queue, NEW st, NEW w, NEW st2, NEW w2, SendersOK(queue, st, w),
         \A p \in Proc : st[p] = "PRSEND" /\ p \notin w => st2[p] = "PRSEND" /\ p \notin w2
  PROVE  SendersOK(queue, st2, w2)
BY Zenon, SendersInProc DEF SendersOK

\* A process blocks behind the others.
LEMMA SendersAppend ==
  ASSUME NEW queue, NEW st, NEW w, NEW st2, NEW w2, SendersOK(queue, st, w),
         NEW r \in Proc, NEW p \in Proc, st[p] # "PRSEND", st2[p] = "PRSEND", p \notin w2,
         \A q \in Proc : st[q] = "PRSEND" /\ q \notin w => st2[q] = "PRSEND" /\ q \notin w2
  PROVE  SendersOK([queue EXCEPT ![r] = Append(@, p)], st2, w2)
<1> DEFINE new == [queue EXCEPT ![r] = Append(@, p)]
<1>1. queue \in [Proc -> Seq(Proc)] /\ new = [queue EXCEPT ![r] = Append(@, p)]
  BY Zenon DEF SendersOK
<1> HIDE DEF new
<1>2. Extended(queue, new, r, p)
  BY Zenon, <1>1, AppendWaits
<1>3. PICK e : /\ Waits(new) = Waits(queue) \cup {e} /\ Sender(new, e) = p
               /\ \A x \in Waits(queue) : Sender(new, x) = Sender(queue, x)
  BY Zenon, <1>2 DEF Extended
<1>4. \A x \in Waits(queue) : /\ Sender(queue, x) \in Proc /\ Sender(queue, x) # p
                              /\ st2[Sender(queue, x)] = "PRSEND" /\ Sender(queue, x) \notin w2
  BY Zenon, <1>1, SendersInProc DEF SendersOK
<1>5. \A x, y \in Waits(new) : Sender(new, x) = Sender(new, y) => x = y
  BY Zenon, <1>3, <1>4 DEF SendersOK
<1>6. \A x \in Waits(new) : st2[Sender(new, x)] = "PRSEND" /\ Sender(new, x) \notin w2
  BY Zenon, <1>3, <1>4
<1>7. SendersOK(new, st2, w2)
  BY Zenon, <1>2, <1>5, <1>6 DEF SendersOK, Extended
<1> QED  BY Zenon, <1>7 DEF new

\* The first of a queue is taken out, to be readied.
LEMMA SendersTail ==
  ASSUME NEW queue, NEW st, NEW w, SendersOK(queue, st, w), NEW r \in Proc, queue[r] # <<>>
  PROVE  /\ SendersOK([queue EXCEPT ![r] = Tail(@)], st, w \cup {Head(queue[r])})
         /\ Head(queue[r]) \in Proc /\ st[Head(queue[r])] = "PRSEND" /\ Head(queue[r]) \notin w
<1> DEFINE new == [queue EXCEPT ![r] = Tail(@)]
           h == Head(queue[r])
<1>1. queue \in [Proc -> Seq(Proc)] /\ new = [queue EXCEPT ![r] = Tail(@)]
  BY Zenon DEF SendersOK
<1> HIDE DEF new
<1>2. /\ new \in [Proc -> Seq(Proc)]
      /\ <<r, 1>> \in Waits(queue) /\ Sender(queue, <<r, 1>>) = h /\ h \in Proc
      /\ \A x \in Waits(new) : /\ Back(r, x) \in Waits(queue) /\ Back(r, x) # <<r, 1>>
                               /\ Sender(queue, Back(r, x)) = Sender(new, x)
      /\ \A x, y \in Waits(new) : Back(r, x) = Back(r, y) => x = y
  <2>1. Shortened(queue, new, r)
    BY Zenon, <1>1, TailWaits
  <2> QED  BY Zenon, <2>1 DEF Shortened
<1> HIDE DEF h
<1>3. st[h] = "PRSEND" /\ h \notin w
  BY Zenon, <1>2 DEF SendersOK
<1>4. \A x \in Waits(new) : /\ st[Sender(new, x)] = "PRSEND" /\ Sender(new, x) \notin w
                            /\ Sender(new, x) # h
  BY Zenon, <1>2 DEF SendersOK
<1>5. \A x, y \in Waits(new) : Sender(new, x) = Sender(new, y) => x = y
  BY Zenon, <1>2 DEF SendersOK
<1>6. SendersOK(new, st, w \cup {h})
  BY Zenon, <1>2, <1>4, <1>5 DEF SendersOK
<1> QED  BY Zenon, <1>2, <1>3, <1>6 DEF new, h

\* What resched() needs of the states st and the ready processes rs.
Reschedulable(st, rs) ==
  /\ st \in [Proc -> State] /\ rs \in SUBSET Proc
  /\ running \in [Core -> Proc \cup {None}]
  /\ \A d \in Core : running[d] # None => CoreOf[running[d]] = d
  /\ \A p \in Proc : st[p] = "PRCURR" => running[CoreOf[p]] = p
  /\ \A p \in rs : st[p] = "PRREADY"

\* What resched() on core c makes of the states st.
Rescheduled(c, st) ==
  /\ state' \in [Proc -> State] /\ readyset' \in SUBSET Proc
  /\ running' \in [Core -> Proc \cup {None}]
  /\ \A d \in Core : running'[d] # None => CoreOf[running'[d]] = d
  /\ \A p \in Proc : running'[CoreOf[p]] = p =>
       state'[p] = "PRCURR" \/ (CoreOf[p] # c /\ state'[p] = st[p] /\ running[CoreOf[p]] = p)
  /\ \A p \in Proc : state'[p] = "PRCURR" => running'[CoreOf[p]] = p
  /\ \A p \in readyset' : state'[p] = "PRREADY"
  /\ \A p \in Proc : st[p] \in {"PRRECV", "PRSEND", "PRFREE"} => state'[p] = st[p]
  /\ \A p \in Proc : state'[p] \in {"PRRECV", "PRSEND", "PRFREE"} => state'[p] = st[p]

-----------------------------------------------------------------------------
\* resched() on core c, entered with states st and ready set rs.  Processes
\* that wait or are free stay so, and what the core runs then is PRCURR.
LEMMA ReschedOK ==
  ASSUME NEW c \in Core, NEW st, NEW rs, Reschedulable(st, rs), Resched(c, st, rs)
  PROVE  Rescheduled(c, st)
<1> USE DEF Reschedulable, Rescheduled
<1> DEFINE old == running[c]
           back == old # None /\ st[old] = "PRCURR"
           st1 == IF back THEN [st EXCEPT ![old] = "PRREADY"] ELSE st
           rs1 == IF back THEN rs \cup {old} ELSE rs
<1>1. PICK new \in {p \in rs1 : CoreOf[p] = c} \cup {None} :
        /\ running' = [running EXCEPT ![c] = new]
        /\ readyset' = rs1 \ {new}
        /\ state' = IF new = None THEN st1 ELSE [st1 EXCEPT ![new] = "PRCURR"]
  BY Zenon DEF Resched
<1>2. /\ st1 \in [Proc -> State] /\ rs1 \in SUBSET Proc
      /\ \A p \in rs1 : st1[p] = "PRREADY"
      /\ \A p \in Proc : st1[p] = "PRCURR" => st[p] = "PRCURR" /\ running[CoreOf[p]] = p /\ CoreOf[p] # c
      /\ \A p \in Proc : p # old => st1[p] = st[p]
      /\ \A p \in Proc : st[p] \in {"PRRECV", "PRSEND", "PRFREE"} => st1[p] = st[p]
      /\ \A p \in Proc : st1[p] \in {"PRRECV", "PRSEND", "PRFREE"} => st1[p] = st[p]
  BY MessageAssumption DEF State
<1>3. old # None => CoreOf[old] = c
  OBVIOUS
<1> HIDE DEF st1, rs1
<1>4. CASE new = None
  BY <1>1, <1>2, <1>3, <1>4, MessageAssumption DEF State
<1>5. CASE new # None
  <2>1. new \in rs1 /\ new \in Proc /\ CoreOf[new] = c /\ st1[new] = "PRREADY"
    BY Zenon, <1>1, <1>2, <1>5
  <2>2. /\ running' = [running EXCEPT ![c] = new] /\ readyset' = rs1 \ {new}
        /\ state' = [st1 EXCEPT ![new] = "PRCURR"]
    BY Zenon, <1>1, <1>5
  <2>3. /\ state' \in [Proc -> State] /\ readyset' \in SUBSET Proc
        /\ running' \in [Core -> Proc \cup {None}]
    BY Zenon, <1>2, <2>1, <2>2 DEF State
  <2>4. /\ state'[new] = "PRCURR" /\ running'[c] = new
        /\ \A p \in Proc : p # new => state'[p] = st1[p]
        /\ \A d \in Core : d # c => running'[d] = running[d]
    BY ZenonT(40), <1>2, <2>1, <2>2
  <2>5. \A d \in Core : running'[d] # None => CoreOf[running'[d]] = d
    BY Zenon, <2>1, <2>4
  <2>6. \A p \in Proc : running'[CoreOf[p]] = p =>
          state'[p] = "PRCURR" \/ (CoreOf[p] # c /\ state'[p] = st[p] /\ running[CoreOf[p]] = p)
    BY SMTT(30), <1>2, <1>3, <2>1, <2>4, MessageAssumption
  <2>7. \A p \in Proc : state'[p] = "PRCURR" => running'[CoreOf[p]] = p
    BY SMTT(30), <1>2, <2>1, <2>4, MessageAssumption
  <2>8. \A p \in readyset' : state'[p] = "PRREADY"
    BY SMTT(30), <1>2, <2>2, <2>4
  <2>9. \A p \in Proc : /\ st[p] \in {"PRRECV", "PRSEND", "PRFREE"} => state'[p] = st[p]
                        /\ state'[p] \in {"PRRECV", "PRSEND", "PRFREE"} => state'[p] = st[p]
    BY SMTT(30), <1>2, <2>1, <2>4
  <2> QED  BY SMTT(30), <2>3, <2>5, <2>6, <2>7, <2>8, <2>9
<1> QED  BY Zenon, <1>4, <1>5

\* A step that leaves queues, messages and wake-ups alone, and changes the
\* state of no process that waits or comes to wait, preserves what they say.
LEMMA MailStays ==
  ASSUME MInv, UNCHANGED msgqueue,
         \A p \in Proc : state[p] = "PRRECV" => hasMessage'[p] = hasMessage[p],
         \A p \in Proc : state[p] \in {"PRRECV", "PRSEND"} => state'[p] = state[p],
         \A p \in Proc : state'[p] \in {"PRRECV", "PRSEND"} => state'[p] = state[p],
         \A p \in Proc : pc'[p] \in Waking <=> pc[p] \in Waking,
         \A p \in Proc : pc[p] \in Waking => peer'[p] = peer[p]
  PROVE  WakeOK' /\ QueueOK'
<1>1. \A p \in Proc : WakePending(p)' <=> WakePending(p)
  BY Zenon DEF WakePending, Waking
<1>2. WakeOK'
  <2>1. (\A p \in Proc : state[p] = "PRRECV" => (hasMessage[p] <=> WakePending(p)))'
    BY Zenon, <1>1 DEF MInv, WakeOK
  <2>2. (\A q \in Proc : pc[q] \in Waking =>
           peer[q] \in Proc /\ state[peer[q]] \in {"PRRECV", "PRSEND"})'
    BY DEF MInv, WakeOK
  <2>3. (\A q, s \in Proc : pc[q] \in Waking /\ pc[s] \in Waking /\ peer[q] = peer[s] => q = s)'
    BY Zenon DEF MInv, WakeOK
  <2> QED  BY Zenon, <2>1, <2>2, <2>3 DEF WakeOK
<1>3. QueueOK'
  <2>1. \A p \in Proc : p \in Woken' => p \in Woken
    BY Zenon DEF Woken
  <2>2. SendersOK(msgqueue, state', Woken')
    BY <2>1, SendersStay DEF MInv, QueueOK
  <2> QED  BY Zenon, <2>2 DEF QueueOK
<1> QED  BY Zenon, <1>2, <1>3

\* WakePending in terms of Woken.
LEMMA WokenPending ==
  \A p : p \in Woken <=> WakePending(p)
BY Zenon DEF Woken, WakePending, Waking

\* A process on its core that is not about to block is PRCURR.
LEMMA OnCore ==
  ASSUME MInv, NEW p \in Proc, NEW l, At(p, l), l \notin Blocking
  PROVE  state[p] = "PRCURR" /\ pc[p] = l
BY Zenon DEF MInv, RunOK, At

\* A step of a call that neither blocks nor readies a process.
LEMMA QuietStep ==
  ASSUME MInv, NEW p \in Proc, NEW l \in Label, At(p, pc[p]), Goto(p, l),
         UNCHANGED <<schedvars, msgqueue>>,
         \A q \in Proc : state[q] = "PRRECV" => hasMessage'[q] = hasMessage[q],
         pc[p] \in Waking <=> l \in Waking, pc[p] \in Blocking => l \in Blocking,
         \A q \in Proc : q # p \/ l \in Waking => peer'[q] = peer[q]
  PROVE  RunOK' /\ WakeOK' /\ QueueOK' /\ pc' \in [Proc -> Label]
<1>1. /\ pc' \in [Proc -> Label] /\ pc'[p] = l
      /\ \A q \in Proc : q # p => pc'[q] = pc[q]
  BY Zenon DEF Goto, MInv, TypeOK
<1>2. RunOK'
  BY Zenon, <1>1 DEF MInv, RunOK, schedvars
<1>3. UNCHANGED state /\ UNCHANGED msgqueue
  BY Zenon DEF schedvars
<1>4. \A q \in Proc : pc'[q] \in Waking <=> pc[q] \in Waking
  BY Zenon, <1>1
<1>5. \A q \in Proc : pc[q] \in Waking => peer'[q] = peer[q]
  BY Zenon, <1>1
<1>6. WakeOK' /\ QueueOK'
  BY Zenon, <1>3, <1>4, <1>5, MailStays
<1> QED  BY Zenon, <1>1, <1>2, <1>6

\* CallOK speaks of the call of each process.
LEMMA CallStays ==
  ASSUME MInv, NEW p \in Proc, NEW l \in Label, Goto(p, l),
         \A q \in Proc : q # p => op'[q] = op[q] /\ peer'[q] = peer[q],
         l # "out" /\ op'[p] \in {"send", "sendnow"} => peer'[p] \in Proc
  PROVE  CallOK'
BY Zenon DEF MInv, TypeOK, CallOK, Sending, Goto

\* The calls begin.
LEMMA CallStep ==
  ASSUME MInv, NEW p \in Proc, Call(p)
  PROVE  MInv'
<1> USE DEF Blocking, Waking, Label
<1>1. ASSUME NEW o \in Ops, CallRecv(p, o)
      PROVE  MInv'
  <2>1. /\ At(p, pc[p]) /\ pc[p] = "out" /\ Goto(p, "acquire") /\ o \in {"recv", "recvnow"}
        /\ op' = [op EXCEPT ![p] = o]
        /\ UNCHANGED <<mailvars, schedvars, holder, peer, msg, nsent, Ops>>
    BY Zenon, <1>1 DEF CallRecv, At
  <2>2. RunOK' /\ WakeOK' /\ QueueOK' /\ pc' \in [Proc -> Label]
    BY Zenon, <2>1, QuietStep DEF mailvars
  <2>3. op' \in [Proc -> {"send", "sendnow", "recv", "recvnow", None}] /\ op'[p] = o
        /\ \A q \in Proc : q # p => op'[q] = op[q]
    BY Zenon, <2>1 DEF MInv, TypeOK
  <2>4. TypeOK'
    BY Zenon, <2>1, <2>2, <2>3 DEF MInv, TypeOK, mailvars, schedvars
  <2>5. CallOK'
    BY Zenon, <2>1, <2>3, CallStays
  <2> QED  BY Zenon, <2>2, <2>4, <2>5 DEF MInv
<1>2. ASSUME NEW o \in Ops, NEW r \in Proc, CallSend(p, o, r)
      PROVE  MInv'
  <2>1. /\ At(p, pc[p]) /\ pc[p] = "out" /\ Goto(p, "acquire") /\ o \in {"send", "sendnow"}
        /\ op' = [op EXCEPT ![p] = o] /\ peer' = [peer EXCEPT ![p] = r]
        /\ nsent[p] < MaxSent /\ nsent' = [nsent EXCEPT ![p] = @ + 1]
        /\ msg' = [msg EXCEPT ![p] = <<p, nsent[p] + 1>>]
        /\ UNCHANGED <<mailvars, schedvars, holder, Ops>>
    BY Zenon, <1>2 DEF CallSend, At
  <2>2. /\ op' \in [Proc -> {"send", "sendnow", "recv", "recvnow", None}] /\ op'[p] = o
        /\ \A q \in Proc : q # p => op'[q] = op[q] /\ peer'[q] = peer[q]
        /\ peer' \in [Proc -> Proc \cup {None}] /\ peer'[p] = r
    BY Zenon, <2>1 DEF MInv, TypeOK
  <2>3. RunOK' /\ WakeOK' /\ QueueOK' /\ pc' \in [Proc -> Label]
    BY Zenon, <2>1, <2>2, QuietStep DEF mailvars
  <2>4. nsent[p] \in 0 .. MaxSent /\ MaxSent \in Nat
    BY Zenon, MessageAssumption DEF MInv, TypeOK
  <2>5. nsent[p] + 1 \in 1 .. MaxSent /\ nsent[p] + 1 \in 0 .. MaxSent
    BY <2>1, <2>4
  <2>6. nsent' \in [Proc -> 0 .. MaxSent]
    BY Zenon, <2>1, <2>5 DEF MInv, TypeOK
  <2>7. <<p, nsent[p] + 1>> \in Msg
    BY Zenon, <2>5 DEF Msg
  <2>8. msg' \in [Proc -> Msg \cup {None}]
    BY Zenon, <2>1, <2>7 DEF MInv, TypeOK
  <2>9. TypeOK'
    BY Zenon, <2>1, <2>2, <2>3, <2>6, <2>8 DEF MInv, TypeOK, mailvars, schedvars
  <2>10. CallOK'
    BY Zenon, <2>1, <2>2, CallStays
  <2> QED  BY Zenon, <2>3, <2>9, <2>10 DEF MInv
<1> QED  BY Zenon, <1>1, <1>2 DEF Call

\* lock_acquire() and lock_release().
LEMMA LockStep ==
  ASSUME MInv, NEW p \in Proc, Spin(p) \/ Release(p)
  PROVE  MInv'
<1>1. PICK l \in Label : /\ At(p, pc[p]) /\ Goto(p, l) /\ l # "out" /\ pc[p] # "out"
                         /\ pc[p] \in Waking <=> l \in Waking
                         /\ pc[p] \in Blocking => l \in Blocking
  BY Zenon DEF Spin, AcquireFirst, AcquireAgain, Acquire, Release, AfterRelease, At, Label, Waking, Blocking
<1>2. UNCHANGED <<mailvars, callvars, schedvars>>
  BY Zenon DEF Spin, AcquireFirst, AcquireAgain, Acquire, Release
<1>3. holder' \in [Proc -> Proc \cup {None}]
  BY Zenon DEF MInv, TypeOK, Spin, AcquireFirst, AcquireAgain, Acquire, Release
<1>4. RunOK' /\ WakeOK' /\ QueueOK' /\ pc' \in [Proc -> Label]
  BY Zenon, <1>1, <1>2, QuietStep DEF mailvars, callvars
<1>5. TypeOK'
  BY Zenon, <1>2, <1>3, <1>4 DEF MInv, TypeOK, mailvars, callvars, schedvars
<1>6. CallOK'
  BY Zenon, <1>1, <1>2, CallStays DEF MInv, CallOK, Sending, callvars
<1> QED  BY Zenon, <1>4, <1>5, <1>6 DEF MInv

\* A step under the lock that only goes on to another step.
LEMMA PassStep ==
  ASSUME MInv, NEW p \in Proc, At(p, "body"), NEW l \in {"release", "collect"}, Goto(p, l),
         UNCHANGED <<mailvars, callvars, schedvars, holder>>
  PROVE  MInv'
<1>1. /\ l \in Label /\ At(p, pc[p]) /\ pc[p] = "body" /\ l # "out"
      /\ pc[p] \notin Waking /\ l \notin Waking /\ pc[p] \notin Blocking
  BY Zenon DEF At, Label, Waking, Blocking
<1>2. RunOK' /\ WakeOK' /\ QueueOK' /\ pc' \in [Proc -> Label]
  BY Zenon, <1>1, QuietStep DEF mailvars, callvars
<1>3. TypeOK'
  BY Zenon, <1>2 DEF MInv, TypeOK, mailvars, callvars, schedvars
<1>4. CallOK'
  BY Zenon, <1>1, CallStays DEF MInv, CallOK, Sending, callvars
<1> QED  BY Zenon, <1>2, <1>3, <1>4 DEF MInv

\* recvnow() takes the message of a process that runs, so of none that waits.
LEMMA RecvnowStep ==
  ASSUME MInv, NEW p \in Proc, RecvnowBody(p)
  PROVE  MInv'
<1>1. /\ "release" \in Label /\ At(p, pc[p]) /\ pc[p] = "body" /\ state[p] = "PRCURR"
      /\ pc[p] \notin Waking /\ "release" \notin Waking /\ pc[p] \notin Blocking
  BY Zenon, OnCore DEF RecvnowBody, At, Label, Waking, Blocking
<1>2. /\ hasMessage' \in [Proc -> BOOLEAN] /\ msg' \in [Proc -> Msg \cup {None}]
      /\ \A q \in Proc : q # p => hasMessage'[q] = hasMessage[q]
  BY Zenon DEF RecvnowBody, MInv, TypeOK
<1>3. /\ Goto(p, "release")
      /\ UNCHANGED <<msgin, msgout, msgqueue, op, peer, nsent, Ops, schedvars, holder>>
  BY Zenon DEF RecvnowBody
<1>4. \A q \in Proc : state[q] = "PRRECV" => hasMessage'[q] = hasMessage[q]
  BY Zenon, <1>1, <1>2
<1>5. RunOK' /\ WakeOK' /\ QueueOK' /\ pc' \in [Proc -> Label]
  BY Zenon, <1>1, <1>3, <1>4, QuietStep
<1>6. TypeOK'
  BY Zenon, <1>2, <1>3, <1>5 DEF MInv, TypeOK, schedvars
<1>7. CallOK'
  BY Zenon, <1>1, <1>3, CallStays DEF MInv, CallOK, Sending
<1> QED  BY Zenon, <1>5, <1>6, <1>7 DEF MInv

\* A call returns.
LEMMA ReturnStep ==
  ASSUME MInv, NEW p \in Proc, Return(p)
  PROVE  MInv'
<1>1. /\ "out" \in Label /\ At(p, pc[p]) /\ pc[p] = "return"
      /\ pc[p] \notin Waking /\ "out" \notin Waking /\ pc[p] \notin Blocking
  BY Zenon DEF Return, At, Label, Waking, Blocking
<1>2. /\ op' \in [Proc -> {"send", "sendnow", "recv", "recvnow", None}]
      /\ peer' \in [Proc -> Proc \cup {None}] /\ msg' \in [Proc -> Msg \cup {None}]
      /\ \A q \in Proc : q # p => op'[q] = op[q] /\ peer'[q] = peer[q]
  BY Zenon DEF Return, MInv, TypeOK
<1>3. Goto(p, "out") /\ UNCHANGED <<mailvars, schedvars, holder, nsent, Ops>>
  BY Zenon DEF Return
<1>4. RunOK' /\ WakeOK' /\ QueueOK' /\ pc' \in [Proc -> Label]
  BY Zenon, <1>1, <1>2, <1>3, QuietStep DEF mailvars
<1>5. TypeOK'
  BY Zenon, <1>2, <1>3, <1>4 DEF MInv, TypeOK, mailvars, schedvars
<1>6. CallOK'
  BY Zenon, <1>1, <1>2, <1>3, CallStays
<1> QED  BY Zenon, <1>4, <1>5, <1>6 DEF MInv

-----------------------------------------------------------------------------
\* A process p that was not about to ready anybody is now about to ready t,
\* who waits and for whom nobody else came.
LEMMA WakeBegins ==
  ASSUME MInv, NEW p \in Proc, NEW t \in Proc, pc[p] \notin Waking,
         state[t] \in {"PRRECV", "PRSEND"}, ~WakePending(t),
         Goto(p, "release ready"), peer'[p] = t,
         \A q \in Proc : q # p => peer'[q] = peer[q],
         UNCHANGED state,
         \A q \in Proc : state[q] = "PRRECV" => hasMessage'[q] = (hasMessage[q] \/ q = t)
  PROVE  WakeOK' /\ Woken' = Woken \cup {t}
<1>1. pc'[p] = "release ready" /\ \A q \in Proc : q # p => pc'[q] = pc[q]
  BY Zenon DEF Goto, MInv, TypeOK
<1>2. \A q \in Proc : WakePending(q)' <=> (WakePending(q) \/ q = t)
  BY Zenon, <1>1 DEF WakePending, Waking
<1>3. (\A q \in Proc : state[q] = "PRRECV" => (hasMessage[q] <=> WakePending(q)))'
  <2> SUFFICES ASSUME NEW q \in Proc, state[q] = "PRRECV"
               PROVE  hasMessage'[q] <=> WakePending(q)'
    OBVIOUS
  <2>1. hasMessage[q] <=> WakePending(q)
    BY Zenon DEF MInv, WakeOK
  <2> QED  BY Zenon, <1>2, <2>1
<1>4. (\A q \in Proc : pc[q] \in Waking =>
         peer[q] \in Proc /\ state[peer[q]] \in {"PRRECV", "PRSEND"})'
  BY Zenon, <1>1 DEF MInv, WakeOK
<1>5. \A q \in Proc : pc[q] \in Waking => peer[q] # t
  BY Zenon DEF WakePending, Waking
<1>6. (\A q, s \in Proc : pc[q] \in Waking /\ pc[s] \in Waking /\ peer[q] = peer[s] => q = s)'
  <2> SUFFICES ASSUME NEW q \in Proc, NEW s \in Proc,
                      pc'[q] \in Waking, pc'[s] \in Waking, peer'[q] = peer'[s]
               PROVE  q = s
    OBVIOUS
  <2>1. CASE q = p \/ s = p
    BY Zenon, <1>1, <1>5, <2>1
  <2>2. CASE q # p /\ s # p
    BY Zenon, <1>1, <2>2 DEF MInv, WakeOK
  <2> QED  BY Zenon, <2>1, <2>2
<1>7. Woken' = Woken \cup {t}
  <2>1. \A x : x \in Woken' <=> \E q \in Proc : pc'[q] \in Waking /\ x = peer'[q]
    BY Zenon DEF Woken
  <2>2. \A x : x \in Woken <=> \E q \in Proc : pc[q] \in Waking /\ x = peer[q]
    BY Zenon DEF Woken
  <2>3. \A x : x \in Woken' <=> (x \in Woken \/ x = t)
    <3>1. ASSUME NEW x, x \in Woken'
          PROVE  x \in Woken \/ x = t
      <4>1. PICK q \in Proc : pc'[q] \in Waking /\ x = peer'[q]
        BY Zenon, <2>1, <3>1
      <4> QED  BY Zenon, <1>1, <2>2, <4>1
    <3>2. ASSUME NEW x, x \in Woken
          PROVE  x \in Woken'
      <4>1. PICK q \in Proc : pc[q] \in Waking /\ x = peer[q]
        BY Zenon, <2>2, <3>2
      <4> QED  BY Zenon, <1>1, <2>1, <4>1
    <3>3. t \in Woken'
      BY Zenon, <1>1, <2>1 DEF Waking
    <3> QED  BY Zenon, <3>1, <3>2, <3>3
  <2> QED  BY Zenon, <2>3
<1> QED  BY Zenon, <1>3, <1>4, <1>6, <1>7 DEF WakeOK

\* A sender leaves its message and, if the receiver waits, will ready it.
LEMMA DepositStep ==
  ASSUME MInv, NEW p \in Proc, At(p, "body"), Sending(p), ~hasMessage[peer[p]], Deposit(p)
  PROVE  MInv'
<1> DEFINE r == peer[p]
<1>1. /\ pc[p] = "body" /\ At(p, pc[p]) /\ state[p] = "PRCURR" /\ r \in Proc
      /\ pc[p] \notin Waking /\ pc[p] \notin Blocking
  BY Zenon, OnCore DEF At, MInv, CallOK, Waking, Blocking
<1>2. /\ msgin' = [msgin EXCEPT ![r] = msg[p]] /\ hasMessage' = [hasMessage EXCEPT ![r] = TRUE]
      /\ Goto(p, IF state[r] = "PRRECV" THEN "release ready" ELSE "release")
      /\ UNCHANGED <<msgout, msgqueue, callvars, schedvars, holder>>
  BY Zenon DEF Deposit, NeedsWake
<1>3. /\ msgin' \in [Proc -> Msg \cup {None}] /\ hasMessage' \in [Proc -> BOOLEAN]
      /\ hasMessage'[r] = TRUE /\ \A q \in Proc : q # r => hasMessage'[q] = hasMessage[q]
  BY Zenon, <1>1, <1>2 DEF MInv, TypeOK
<1>4. UNCHANGED state /\ UNCHANGED peer /\ UNCHANGED op
  BY Zenon, <1>2 DEF schedvars, callvars
<1>5. CASE state[r] = "PRRECV"
  <2>1. Goto(p, "release ready") /\ "release ready" \in Label
    BY Zenon, <1>2, <1>5 DEF Label
  <2>2. ~WakePending(r)
    BY Zenon, <1>1, <1>5 DEF MInv, WakeOK
  <2>3. \A q \in Proc : state[q] = "PRRECV" => hasMessage'[q] = (hasMessage[q] \/ q = r)
    BY Zenon, <1>1, <1>3 DEF MInv, TypeOK
  <2>4. WakeOK' /\ Woken' = Woken \cup {r}
    BY Zenon, <1>1, <1>4, <1>5, <2>1, <2>2, <2>3, WakeBegins
  <2>5. pc' \in [Proc -> Label] /\ \A q \in Proc : q # p => pc'[q] = pc[q]
    BY Zenon, <2>1 DEF Goto, MInv, TypeOK
  <2>6. RunOK'
    BY Zenon, <1>1, <1>2, <2>5 DEF MInv, RunOK, schedvars
  <2>7. SendersOK(msgqueue, state, Woken')
    BY Zenon, <1>5, <2>4, SendersStay DEF MInv, QueueOK
  <2>8. QueueOK'
    BY Zenon, <1>2, <1>4, <2>7 DEF QueueOK
  <2>9. TypeOK'
    BY Zenon, <1>2, <1>3, <2>5 DEF MInv, TypeOK, callvars, schedvars
  <2>10. CallOK'
    BY Zenon, <1>1, <1>4, <2>1, CallStays
  <2> QED  BY Zenon, <2>4, <2>6, <2>8, <2>9, <2>10 DEF MInv
<1>6. CASE state[r] # "PRRECV"
  <2>1. Goto(p, "release") /\ "release" \in Label /\ "release" \notin Waking
    BY Zenon, <1>2, <1>6 DEF Label, Waking
  <2>2. RunOK' /\ WakeOK' /\ QueueOK' /\ pc' \in [Proc -> Label]
    BY Zenon, <1>1, <1>2, <1>3, <1>4, <1>6, <2>1, QuietStep
  <2>3. TypeOK'
    BY Zenon, <1>2, <1>3, <2>2 DEF MInv, TypeOK, callvars, schedvars
  <2>4. CallOK'
    BY Zenon, <1>1, <1>4, <2>1, CallStays
  <2> QED  BY Zenon, <2>2, <2>3, <2>4 DEF MInv
<1> QED  BY Zenon, <1>5, <1>6

-----------------------------------------------------------------------------
\* A process p blocks: it is PRCURR and becomes PRRECV or PRSEND.
LEMMA WaitBegins ==
  ASSUME MInv, NEW p \in Proc, At(p, "body"), NEW w \in {"PRRECV", "PRSEND"},
         w = "PRRECV" => ~hasMessage[p],
         state' = [state EXCEPT ![p] = w], Goto(p, "release resched"),
         UNCHANGED <<running, readyset, hasMessage, peer, op>>
  PROVE  /\ RunOK' /\ WakeOK' /\ CallOK' /\ pc' \in [Proc -> Label]
         /\ state' \in [Proc -> State] /\ state'[p] = w /\ state[p] = "PRCURR"
         /\ \A q \in Proc : q # p => state'[q] = state[q]
         /\ Woken' = Woken /\ p \notin Woken
<1>1. state[p] = "PRCURR" /\ pc[p] = "body" /\ running[CoreOf[p]] = p
  BY Zenon, OnCore DEF At, Blocking
<1>2. /\ state' \in [Proc -> State] /\ state'[p] = w
      /\ \A q \in Proc : q # p => state'[q] = state[q]
  BY Zenon DEF MInv, TypeOK, State
<1>3. /\ pc' \in [Proc -> Label] /\ pc'[p] = "release resched" /\ pc'[p] \in Blocking
      /\ pc'[p] \notin Waking /\ pc[p] \notin Waking
      /\ \A q \in Proc : q # p => pc'[q] = pc[q]
  BY Zenon, <1>1 DEF Goto, MInv, TypeOK, Label, Blocking, Waking
<1>4. ~WakePending(p)
  BY Zenon, <1>1 DEF MInv, WakeOK, WakePending, Waking
<1>5. \A q \in Proc : WakePending(q)' <=> WakePending(q)
  BY Zenon, <1>3 DEF WakePending, Waking
<1>6. RunOK'
  <2>1. \A q \in Proc : running[CoreOf[q]] = q => state'[q] = "PRCURR" \/ pc'[q] \in Blocking
    BY Zenon, <1>2, <1>3 DEF MInv, RunOK
  <2>2. \A q \in Proc : state'[q] = "PRCURR" => running[CoreOf[q]] = q
    BY Zenon, <1>1, <1>2 DEF MInv, RunOK
  <2>3. \A q \in readyset : q \in Proc /\ q # p /\ state[q] = "PRREADY"
    BY Zenon, <1>1 DEF MInv, RunOK, TypeOK
  <2>4. \A c \in Core : running[c] # None => CoreOf[running[c]] = c
    BY Zenon DEF MInv, RunOK
  <2> QED  BY Zenon, <1>2, <2>1, <2>2, <2>3, <2>4 DEF RunOK
<1>7. WakeOK'
  <2>1. (\A q \in Proc : state[q] = "PRRECV" => (hasMessage[q] <=> WakePending(q)))'
    <3> SUFFICES ASSUME NEW q \in Proc, state'[q] = "PRRECV"
                 PROVE  hasMessage[q] <=> WakePending(q)'
      OBVIOUS
    <3>1. CASE q = p
      BY Zenon, <1>2, <1>4, <1>5, <3>1
    <3>2. CASE q # p
      BY Zenon, <1>2, <1>5, <3>2 DEF MInv, WakeOK
    <3> QED  BY Zenon, <3>1, <3>2
  <2>2. (\A q \in Proc : pc[q] \in Waking =>
           peer[q] \in Proc /\ state[peer[q]] \in {"PRRECV", "PRSEND"})'
    BY Zenon, <1>1, <1>2, <1>3 DEF MInv, WakeOK
  <2>3. (\A q, s \in Proc : pc[q] \in Waking /\ pc[s] \in Waking /\ peer[q] = peer[s] => q = s)'
    BY Zenon, <1>3 DEF MInv, WakeOK
  <2> QED  BY Zenon, <2>1, <2>2, <2>3 DEF WakeOK
<1>8. CallOK'
  BY Zenon, <1>1, <1>3 DEF MInv, CallOK, Sending
<1>9. Woken' = Woken
  BY Zenon, <1>3 DEF Woken
<1>10. p \notin Woken
  BY Zenon, <1>4, WokenPending
<1> QED  BY Zenon, <1>1, <1>2, <1>3, <1>6, <1>7, <1>8, <1>9, <1>10

\* send() to a receiver that has a message: the sender blocks in its queue.
LEMMA BlockedSendStep ==
  ASSUME MInv, NEW p \in Proc, At(p, "body"), op[p] = "send",
         msgout' = [msgout EXCEPT ![p] = msg[p]],
         state' = [state EXCEPT ![p] = "PRSEND"],
         msgqueue' = [msgqueue EXCEPT ![peer[p]] = Append(@, p)],
         Goto(p, "release resched"),
         UNCHANGED <<hasMessage, msgin, callvars, running, readyset, holder>>
  PROVE  MInv'
<1> DEFINE r == peer[p]
<1>1. r \in Proc
  BY Zenon DEF MInv, CallOK, Sending, At
<1>2. /\ RunOK' /\ WakeOK' /\ CallOK' /\ pc' \in [Proc -> Label]
      /\ state' \in [Proc -> State] /\ state'[p] = "PRSEND" /\ state[p] = "PRCURR"
      /\ \A q \in Proc : q # p => state'[q] = state[q]
      /\ Woken' = Woken /\ p \notin Woken
  BY Zenon, WaitBegins DEF callvars
<1>3. SendersOK([msgqueue EXCEPT ![r] = Append(@, p)], state', Woken')
  BY Zenon, <1>1, <1>2, SendersAppend DEF MInv, QueueOK
<1>4. QueueOK' /\ msgqueue' \in [Proc -> Seq(Proc)]
  BY Zenon, <1>3 DEF QueueOK, SendersOK
<1>5. msgout' \in [Proc -> Msg \cup {None}]
  BY Zenon DEF MInv, TypeOK
<1>6. TypeOK'
  BY Zenon, <1>2, <1>4, <1>5 DEF MInv, TypeOK, State, callvars
<1> QED  BY Zenon, <1>2, <1>4, <1>6 DEF MInv

\* send() and sendnow() under the lock.
LEMMA SendStep ==
  ASSUME MInv, NEW p \in Proc, SendBody(p) \/ SendnowBody(p)
  PROVE  MInv'
<1>1. At(p, "body") /\ Sending(p)
  BY Zenon DEF SendBody, SendnowBody, Sending
<1>2. CASE Goto(p, "release") /\ UNCHANGED <<mailvars, callvars, schedvars, holder>>
  BY Zenon, <1>1, <1>2, PassStep
<1>3. CASE ~hasMessage[peer[p]] /\ Deposit(p)
  BY Zenon, <1>1, <1>3, DepositStep
<1>4. CASE /\ op[p] = "send"
           /\ msgout' = [msgout EXCEPT ![p] = msg[p]]
           /\ state' = [state EXCEPT ![p] = "PRSEND"]
           /\ msgqueue' = [msgqueue EXCEPT ![peer[p]] = Append(@, p)]
           /\ Goto(p, "release resched")
           /\ UNCHANGED <<hasMessage, msgin, callvars, running, readyset, holder>>
  BY Zenon, <1>1, <1>4, BlockedSendStep
<1> QED  BY Zenon, <1>2, <1>3, <1>4 DEF SendBody, SendnowBody

\* recv() under the lock.
LEMMA RecvStep ==
  ASSUME MInv, NEW p \in Proc, RecvBody(p)
  PROVE  MInv'
<1>1. CASE hasMessage[p]
  BY Zenon, <1>1, PassStep DEF RecvBody, schedvars
<1>2. CASE ~hasMessage[p]
  <2>1. /\ At(p, "body") /\ op[p] = "recv" /\ state' = [state EXCEPT ![p] = "PRRECV"]
        /\ Goto(p, "release resched")
        /\ UNCHANGED <<mailvars, callvars, running, readyset, holder>>
    BY Zenon, <1>2 DEF RecvBody
  <2>2. /\ RunOK' /\ WakeOK' /\ CallOK' /\ pc' \in [Proc -> Label]
        /\ state' \in [Proc -> State] /\ state'[p] = "PRRECV" /\ state[p] = "PRCURR"
        /\ \A q \in Proc : q # p => state'[q] = state[q]
        /\ Woken' = Woken
    BY Zenon, <1>2, <2>1, WaitBegins DEF callvars, mailvars
  <2>3. SendersOK(msgqueue, state', Woken')
    BY <2>2, SendersStay DEF MInv, QueueOK
  <2>4. QueueOK'
    BY Zenon, <2>1, <2>3 DEF QueueOK, mailvars
  <2>5. TypeOK'
    BY Zenon, <2>1, <2>2 DEF MInv, TypeOK, State, mailvars, callvars
  <2> QED  BY Zenon, <2>2, <2>4, <2>5 DEF MInv
<1> QED  BY Zenon, <1>1, <1>2

\* recv() takes the message, and the first blocked sender out of the queue.
LEMMA CollectStep ==
  ASSUME MInv, NEW p \in Proc, Collect(p)
  PROVE  MInv'
<1>1. /\ pc[p] = "collect" /\ At(p, pc[p]) /\ state[p] = "PRCURR"
      /\ pc[p] \notin Waking /\ pc[p] \notin Blocking
  BY Zenon, OnCore DEF Collect, At, Waking, Blocking
<1>2. /\ msg' = [msg EXCEPT ![p] = msgin[p]]
      /\ UNCHANGED <<op, nsent, Ops, schedvars, holder>>
  BY Zenon DEF Collect
<1>3. msg' \in [Proc -> Msg \cup {None}]
  BY Zenon, <1>2 DEF MInv, TypeOK
<1>4. CASE msgqueue[p] = <<>>
  <2>1. /\ hasMessage' = [hasMessage EXCEPT ![p] = FALSE] /\ Goto(p, "release")
        /\ UNCHANGED <<msgin, msgout, msgqueue, peer>>
    BY Zenon, <1>4 DEF Collect
  <2>2. /\ hasMessage' \in [Proc -> BOOLEAN]
        /\ \A q \in Proc : state[q] = "PRRECV" => hasMessage'[q] = hasMessage[q]
        /\ "release" \in Label /\ "release" \notin Waking
    BY Zenon, <1>1, <2>1 DEF MInv, TypeOK, Label, Waking
  <2>3. RunOK' /\ WakeOK' /\ QueueOK' /\ pc' \in [Proc -> Label]
    BY Zenon, <1>1, <1>2, <2>1, <2>2, QuietStep
  <2>4. TypeOK'
    BY Zenon, <1>2, <1>3, <2>1, <2>2, <2>3 DEF MInv, TypeOK, schedvars
  <2>5. CallOK'
    BY Zenon, <1>1, <1>2, <2>1, <2>2, CallStays DEF MInv, CallOK, Sending
  <2> QED  BY Zenon, <2>3, <2>4, <2>5 DEF MInv
<1>5. CASE msgqueue[p] # <<>>
  <2> DEFINE t == Head(msgqueue[p])
  <2>1. /\ msgqueue' = [msgqueue EXCEPT ![p] = Tail(@)]
        /\ msgin' = [msgin EXCEPT ![p] = msgout[t]] /\ msgout' = [msgout EXCEPT ![t] = None]
        /\ peer' = [peer EXCEPT ![p] = t] /\ Goto(p, "release ready") /\ UNCHANGED hasMessage
    BY Zenon, <1>5 DEF Collect, QueuedMessage
  <2>2. /\ SendersOK(msgqueue', state, Woken \cup {t})
        /\ t \in Proc /\ state[t] = "PRSEND" /\ t \notin Woken
    BY Zenon, <1>5, <2>1, SendersTail DEF MInv, QueueOK
  <2> HIDE DEF t
  <2>3. /\ peer' \in [Proc -> Proc \cup {None}] /\ peer'[p] = t
        /\ \A q \in Proc : q # p => peer'[q] = peer[q]
    BY Zenon, <2>1, <2>2 DEF MInv, TypeOK
  <2>4. UNCHANGED state /\ UNCHANGED op /\ "release ready" \in Label
    BY Zenon, <1>2 DEF schedvars, Label
  <2>5. \A q \in Proc : state[q] = "PRRECV" => hasMessage'[q] = (hasMessage[q] \/ q = t)
    BY Zenon, <2>1, <2>2 DEF MInv, TypeOK
  <2>6. WakeOK' /\ Woken' = Woken \cup {t}
    BY Zenon, <1>1, <2>1, <2>2, <2>3, <2>4, <2>5, WokenPending, WakeBegins
  <2>7. QueueOK' /\ msgqueue' \in [Proc -> Seq(Proc)]
    BY Zenon, <2>2, <2>4, <2>6 DEF QueueOK, SendersOK
  <2>8. pc' \in [Proc -> Label] /\ \A q \in Proc : q # p => pc'[q] = pc[q]
    BY Zenon, <2>1, <2>4 DEF Goto, MInv, TypeOK
  <2>9. RunOK'
    BY Zenon, <1>1, <1>2, <2>8 DEF MInv, RunOK, schedvars
  <2>10. msgin' \in [Proc -> Msg \cup {None}] /\ msgout' \in [Proc -> Msg \cup {None}]
    BY Zenon, <2>1, <2>2 DEF MInv, TypeOK
  <2>11. TypeOK'
    BY Zenon, <1>2, <1>3, <2>1, <2>3, <2>7, <2>8, <2>10 DEF MInv, TypeOK, schedvars
  <2>12. CallOK'
    BY Zenon, <2>1, <2>2, <2>3, <2>4, CallStays
  <2> QED  BY Zenon, <2>6, <2>7, <2>9, <2>11, <2>12 DEF MInv
<1> QED  BY Zenon, <1>4, <1>5

-----------------------------------------------------------------------------
\* resched() by the clock, between calls, or by a process that blocks.
LEMMA ReschedStep ==
  ASSUME MInv, NEW c \in Core, Resched(c, state, readyset),
         UNCHANGED <<mailvars, callvars, holder>>, pc' \in [Proc -> Label],
         \A q \in Proc : pc'[q] \in Waking <=> pc[q] \in Waking,
         \A q \in Proc : CoreOf[q] # c => pc'[q] = pc[q],
         \A q \in Proc : pc[q] = "out" => pc'[q] = "out"
  PROVE  MInv'
<1>1. /\ state' \in [Proc -> State] /\ readyset' \in SUBSET Proc
      /\ running' \in [Core -> Proc \cup {None}]
      /\ \A d \in Core : running'[d] # None => CoreOf[running'[d]] = d
      /\ \A p \in Proc : running'[CoreOf[p]] = p =>
           state'[p] = "PRCURR" \/ (CoreOf[p] # c /\ state'[p] = state[p] /\ running[CoreOf[p]] = p)
      /\ \A p \in Proc : state'[p] = "PRCURR" => running'[CoreOf[p]] = p
      /\ \A p \in readyset' : state'[p] = "PRREADY"
      /\ \A p \in Proc : state[p] \in {"PRRECV", "PRSEND", "PRFREE"} => state'[p] = state[p]
      /\ \A p \in Proc : state'[p] \in {"PRRECV", "PRSEND", "PRFREE"} => state'[p] = state[p]
  <2>1. state \in [Proc -> State] /\ readyset \in SUBSET Proc
        /\ running \in [Core -> Proc \cup {None}]
    BY Zenon DEF MInv, TypeOK, State
  <2>2. /\ \A d \in Core : running[d] # None => CoreOf[running[d]] = d
        /\ \A p \in Proc : state[p] = "PRCURR" => running[CoreOf[p]] = p
        /\ \A p \in readyset : state[p] = "PRREADY"
    BY Zenon DEF MInv, RunOK
  <2>3. Reschedulable(state, readyset)
    BY Zenon, <2>1, <2>2 DEF Reschedulable
  <2>4. Rescheduled(c, state)
    BY SMTT(30), <2>3, ReschedOK
  <2> QED  BY Zenon, <2>4 DEF Rescheduled
<1>2. RunOK'
  BY Zenon, <1>1 DEF MInv, RunOK
<1>3. UNCHANGED <<msgqueue, hasMessage, peer>>
  BY Zenon DEF mailvars, callvars
<1>4. WakeOK' /\ QueueOK'
  BY Zenon, <1>1, <1>3, MailStays
<1>5. TypeOK'
  BY Zenon, <1>1 DEF MInv, TypeOK, State, mailvars, callvars
<1>6. CallOK'
  BY Zenon DEF MInv, CallOK, Sending, callvars
<1> QED  BY Zenon, <1>2, <1>4, <1>5, <1>6 DEF MInv

\* resched() of a process that has marked itself waiting.
LEMMA BlockStep ==
  ASSUME MInv, NEW p \in Proc, Block(p)
  PROVE  MInv'
<1> DEFINE l == IF op[p] = "recv" THEN "reacquire" ELSE "return"
<1>1. /\ pc[p] = "resched" /\ Goto(p, l) /\ Resched(CoreOf[p], state, readyset)
      /\ UNCHANGED <<mailvars, callvars, holder>>
  BY Zenon DEF Block, At
<1>2. l \in Label /\ l \notin Waking /\ l # "out" /\ pc[p] \notin Waking
  BY Zenon, <1>1 DEF Label, Waking
<1> HIDE DEF l
<1>3. /\ pc' \in [Proc -> Label] /\ pc'[p] = l
      /\ \A q \in Proc : q # p => pc'[q] = pc[q]
  BY Zenon, <1>1, <1>2 DEF Goto, MInv, TypeOK
<1>4. CoreOf[p] \in Core
  BY Zenon, MessageAssumption
<1> QED  BY Zenon, <1>1, <1>2, <1>3, <1>4, ReschedStep

\* resched() of the null process, of a process between calls, and of the
\* clock handler.
LEMMA SwitchStep ==
  ASSUME MInv, NEW c \in Core, Yield(c) \/ Preempt(c)
  PROVE  MInv'
<1>1. /\ Resched(c, state, readyset) /\ UNCHANGED <<mailvars, callvars, holder>>
      /\ UNCHANGED pc
  BY Zenon DEF Yield, Preempt
<1>2. pc' \in [Proc -> Label]
  BY Zenon, <1>1 DEF MInv, TypeOK
<1> QED  BY Zenon, <1>1, <1>2, ReschedStep

\* ready(): the process that was waited for is ready, and nobody else comes
\* for it.
LEMMA ReadyStep ==
  ASSUME MInv, NEW p \in Proc, Ready(p)
  PROVE  MInv'
<1> DEFINE t == peer[p]
           c == CoreOf[p]
           st == [state EXCEPT ![t] = "PRREADY"]
           rs == readyset \cup {t}
<1>1. /\ pc[p] = "ready" /\ pc[p] \in Waking /\ state[p] = "PRCURR" /\ running[c] = p
      /\ Goto(p, "return") /\ ready(c, t, op[p] = "send") /\ UNCHANGED <<mailvars, callvars, holder>>
  BY Zenon, OnCore DEF Ready, Peer, At, Waking, Blocking
<1>2. /\ t \in Proc /\ t # p /\ state[t] \in {"PRRECV", "PRSEND"} /\ c \in Core
      /\ \A q \in Proc : pc[q] \in Waking /\ peer[q] = t => q = p
  BY Zenon, <1>1, MessageAssumption DEF MInv, WakeOK
<1>3. /\ pc' \in [Proc -> Label] /\ pc'[p] = "return" /\ pc'[p] \notin Waking
      /\ \A q \in Proc : q # p => pc'[q] = pc[q]
  BY Zenon, <1>1 DEF Goto, MInv, TypeOK, Label, Waking
<1>4. /\ st \in [Proc -> State] /\ rs \in SUBSET Proc /\ st[t] = "PRREADY"
      /\ \A q \in Proc : q # t => st[q] = state[q]
      /\ running \in [Core -> Proc \cup {None}]
  BY Zenon, <1>2 DEF MInv, TypeOK, State
<1>5. /\ \A d \in Core : running[d] # None => CoreOf[running[d]] = d
      /\ \A q \in Proc : st[q] = "PRCURR" => running[CoreOf[q]] = q
      /\ \A q \in rs : st[q] = "PRREADY"
  BY Zenon, <1>2, <1>4 DEF MInv, RunOK, TypeOK
<1>6. \/ op[p] = "send" /\ CoreOf[t] = c /\ Resched(c, st, rs)
      \/ state' = st /\ readyset' = rs /\ running' = running
  BY Zenon, <1>1 DEF ready
<1> HIDE DEF st, rs, t, c
<1>7. /\ state' \in [Proc -> State] /\ readyset' \in SUBSET Proc
      /\ running' \in [Core -> Proc \cup {None}] /\ RunOK'
      /\ \A q \in Proc : st[q] \in {"PRRECV", "PRSEND"} => state'[q] = st[q]
      /\ \A q \in Proc : state'[q] \in {"PRRECV", "PRSEND"} => state'[q] = st[q]
  <2>1. CASE CoreOf[t] = c /\ Resched(c, st, rs)
    <3>1. /\ state' \in [Proc -> State] /\ readyset' \in SUBSET Proc
          /\ running' \in [Core -> Proc \cup {None}]
          /\ \A d \in Core : running'[d] # None => CoreOf[running'[d]] = d
          /\ \A q \in Proc : running'[CoreOf[q]] = q =>
               state'[q] = "PRCURR" \/ (CoreOf[q] # c /\ state'[q] = st[q] /\ running[CoreOf[q]] = q)
          /\ \A q \in Proc : state'[q] = "PRCURR" => running'[CoreOf[q]] = q
          /\ \A q \in readyset' : state'[q] = "PRREADY"
          /\ \A q \in Proc : st[q] \in {"PRRECV", "PRSEND", "PRFREE"} => state'[q] = st[q]
          /\ \A q \in Proc : state'[q] \in {"PRRECV", "PRSEND", "PRFREE"} => state'[q] = st[q]
      <4>1. Reschedulable(st, rs)
        BY Zenon, <1>4, <1>5 DEF Reschedulable
      <4>2. Rescheduled(c, st)
        BY SMTT(30), <1>2, <2>1, <4>1, ReschedOK
      <4> QED  BY Zenon, <4>2 DEF Rescheduled
    <3>2. \A q \in Proc : running'[CoreOf[q]] = q => state'[q] = "PRCURR" \/ pc'[q] \in Blocking
      BY ZenonT(40), <1>3, <1>4, <2>1, <3>1 DEF MInv, RunOK, c
    <3> QED  BY Zenon, <3>1, <3>2 DEF RunOK
  <2>2. CASE state' = st /\ readyset' = rs /\ running' = running
    <3>1. \A q \in Proc : running[CoreOf[q]] = q => st[q] = "PRCURR" \/ pc'[q] \in Blocking
      BY ZenonT(40), <1>1, <1>2, <1>3, <1>4 DEF MInv, RunOK
    <3>2. RunOK'
      BY Zenon, <1>5, <2>2, <3>1 DEF RunOK
    <3> QED  BY Zenon, <1>4, <2>2, <3>2
  <2> QED  BY Zenon, <1>6, <2>1, <2>2
<1>8. UNCHANGED <<msgqueue, hasMessage, peer>>
  BY Zenon, <1>1 DEF mailvars, callvars
<1>9. \A q \in Proc : WakePending(q)' <=> (WakePending(q) /\ q # t)
  BY Zenon, <1>1, <1>2, <1>3, <1>8 DEF WakePending, Waking, t
<1>10. WakeOK'
  <2>1. (\A q \in Proc : state[q] = "PRRECV" => (hasMessage[q] <=> WakePending(q)))'
    <3> SUFFICES ASSUME NEW q \in Proc, state'[q] = "PRRECV"
                 PROVE  hasMessage[q] <=> WakePending(q)'
      BY Zenon, <1>8
    <3>1. q # t /\ state[q] = "PRRECV"
      BY Zenon, <1>4, <1>7
    <3> QED  BY Zenon, <1>9, <3>1 DEF MInv, WakeOK
  <2>2. (\A q \in Proc : pc[q] \in Waking =>
           peer[q] \in Proc /\ state[peer[q]] \in {"PRRECV", "PRSEND"})'
    <3> SUFFICES ASSUME NEW q \in Proc, pc'[q] \in Waking
                 PROVE  peer[q] \in Proc /\ state'[peer[q]] \in {"PRRECV", "PRSEND"}
      BY Zenon, <1>8
    <3>1. q # p /\ pc[q] \in Waking
      BY Zenon, <1>3
    <3>2. peer[q] \in Proc /\ peer[q] # t /\ state[peer[q]] \in {"PRRECV", "PRSEND"}
      BY Zenon, <1>2, <3>1 DEF MInv, WakeOK
    <3> QED  BY Zenon, <1>4, <1>7, <3>2
  <2>3. (\A q, s \in Proc : pc[q] \in Waking /\ pc[s] \in Waking /\ peer[q] = peer[s] => q = s)'
    BY Zenon, <1>3, <1>8 DEF MInv, WakeOK
  <2> QED  BY Zenon, <2>1, <2>2, <2>3 DEF WakeOK
<1>11. QueueOK'
  <2>1. \A q : q \in Woken' => q \in Woken
    BY Zenon, <1>3, <1>8 DEF Woken
  <2>2. t \in Woken
    BY Zenon, <1>1 DEF Woken, t
  <2>3. SendersOK(msgqueue, state', Woken')
    BY <1>4, <1>7, <2>1, <2>2, SendersStay DEF MInv, QueueOK
  <2> QED  BY Zenon, <1>8, <2>3 DEF QueueOK
<1>12. TypeOK'
  BY Zenon, <1>1, <1>3, <1>7 DEF MInv, TypeOK, State, mailvars, callvars
<1>13. CallOK'
  BY Zenon, <1>1, <1>3 DEF MInv, CallOK, Sending, callvars
<1> QED  BY Zenon, <1>7, <1>10, <1>11, <1>12, <1>13 DEF MInv

-----------------------------------------------------------------------------
\* The invariant holds when the processes start.
LEMMA MInit ==
  Init => MInv
<1> SUFFICES ASSUME Init
             PROVE  MInv
  OBVIOUS
<1>1. TypeOK
  BY MessageAssumption DEF Init, TypeOK, Label, Live
<1>2. \A p \in Proc : pc[p] \notin Waking /\ pc[p] = "out" /\ running[CoreOf[p]] # p
                      /\ state[p] \in {"PRFREE", "PRREADY"}
  BY Zenon, MessageAssumption DEF Init, Waking
<1>3. RunOK
  BY Zenon, <1>2, MessageAssumption DEF Init, RunOK, Live
<1>4. WakeOK
  BY Zenon, <1>2 DEF WakeOK
<1>5. Waits(msgqueue) = {}
  BY DEF Init, Waits
<1>6. QueueOK
  BY Zenon, <1>1, <1>5 DEF QueueOK, SendersOK, TypeOK
<1>7. CallOK
  BY Zenon, <1>2 DEF CallOK
<1> QED  BY Zenon, <1>1, <1>3, <1>4, <1>6, <1>7 DEF MInv

\* Every step preserves the invariant.
LEMMA MStep ==
  ASSUME MInv, [Next]_vars
  PROVE  MInv'
<1>1. ASSUME NEW p \in Proc, Spin(p) \/ Step(p) \/ Call(p)
      PROVE  MInv'
  <2>1. CASE Spin(p) \/ Release(p)
    BY Zenon, <2>1, LockStep
  <2>2. CASE SendBody(p) \/ SendnowBody(p)
    BY Zenon, <2>2, SendStep
  <2>3. CASE RecvBody(p)
    BY Zenon, <2>3, RecvStep
  <2>4. CASE Collect(p)
    BY Zenon, <2>4, CollectStep
  <2>5. CASE RecvnowBody(p)
    BY Zenon, <2>5, RecvnowStep
  <2>6. CASE Ready(p)
    BY Zenon, <2>6, ReadyStep
  <2>7. CASE Block(p)
    BY Zenon, <2>7, BlockStep
  <2>8. CASE Return(p)
    BY Zenon, <2>8, ReturnStep
  <2>9. CASE Call(p)
    BY Zenon, <2>9, CallStep
  <2> QED  BY Zenon, <1>1, <2>1, <2>2, <2>3, <2>4, <2>5, <2>6, <2>7, <2>8, <2>9 DEF Step
<1>2. ASSUME NEW c \in Core, Yield(c) \/ Preempt(c)
      PROVE  MInv'
  BY Zenon, <1>2, SwitchStep
<1>3. CASE UNCHANGED vars
  <2>1. UNCHANGED <<mailvars, callvars, schedvars, holder, pc>>
    BY Zenon, <1>3 DEF vars
  <2>2. RunOK' /\ TypeOK' /\ CallOK'
    BY Zenon, <2>1 DEF MInv, RunOK, TypeOK, CallOK, Sending, mailvars, callvars, schedvars
  <2>3. WakeOK' /\ QueueOK'
    BY Zenon, <2>1, MailStays DEF mailvars, callvars, schedvars
  <2> QED  BY Zenon, <2>2, <2>3 DEF MInv
<1> QED  BY Zenon, <1>1, <1>2, <1>3 DEF Next

\* MInv is stronger than the property.
LEMMA WakeupsFollow ==
  MInv => WakeupsExact
<1> SUFFICES ASSUME MInv
             PROVE  WakeupsExact
  OBVIOUS
<1>1. \A p \in Live : state[p] = "PRRECV" /\ hasMessage[p] => WakePending(p)
  BY Zenon DEF MInv, WakeOK, Live
<1>2. ASSUME NEW p \in Proc, NEW q \in Proc, pc[q] \in {"release ready", "ready"}, peer[q] = p
      PROVE  /\ p \notin readyset
             /\ state[p] \in {"PRRECV", "PRSEND"}
             /\ \A s \in Proc : pc[s] \in {"release ready", "ready"} /\ peer[s] = p => s = q
  BY Zenon, <1>2 DEF MInv, WakeOK, RunOK, Waking
<1> QED  BY Zenon, <1>1, <1>2 DEF WakeupsExact, MInv

\* No wake-up of recv() or send() is lost and none comes twice, however the
\* calls of the processes interleave and wherever they are preempted.
THEOREM WakeupsExactHolds ==
  Spec => []WakeupsExact
<1>1. Spec => []MInv
  BY Zenon, MInit, MStep, PTL DEF Spec
<1> QED  BY Zenon, <1>1, WakeupsFollow, PTL

-----------------------------------------------------------------------------
\* recvnow() takes a message and leaves the queue of senders.  In a program
\* that does not use it together with send(), a process with senders in its
\* queue has a message, so its next recv() dequeues one.
NotMixed == \A ops \in OpSets : ~("send" \in ops /\ "recvnow" \in ops)

Served(queue, st, woken, has) ==
  /\ \A p \in Proc : st[p] = "PRSEND" => p \in woken \/ \E x \in Waits(queue) : Sender(queue, x) = p
  /\ \A x \in Waits(queue) : has[x[1]]

NInv ==
  /\ MInv
  /\ \A p \in Proc : pc[p] # "out" => op[p] \in Ops
  /\ Served(msgqueue, state, Woken, hasMessage)
  /\ "recvnow" \in Ops => \A p \in Proc : msgqueue[p] = <<>>

\* Nobody blocks in send(), is forgotten, or loses a message.
LEMMA ServedStay ==
  ASSUME NEW queue, NEW st, NEW w, NEW has, NEW st2, NEW w2, NEW has2,
         Served(queue, st, w, has),
         \A p \in Proc : st2[p] = "PRSEND" => st[p] = "PRSEND" /\ (p \in w => p \in w2),
         \A x \in Waits(queue) : has[x[1]] => has2[x[1]]
  PROVE  Served(queue, st2, w2, has2)
BY Zenon DEF Served

\* send() blocks behind a message: its receiver has one.
LEMMA ServedAppend ==
  ASSUME NEW queue \in [Proc -> Seq(Proc)], NEW st, NEW w, NEW has, NEW st2,
         NEW r \in Proc, NEW p \in Proc, has[r], Served(queue, st, w, has),
         \A q \in Proc : q # p /\ st2[q] = "PRSEND" => st[q] = "PRSEND"
  PROVE  Served([queue EXCEPT ![r] = Append(@, p)], st2, w, has)
<1> DEFINE new == [queue EXCEPT ![r] = Append(@, p)]
<1>1. new = [queue EXCEPT ![r] = Append(@, p)]
  OBVIOUS
<1> HIDE DEF new
<1>2. Extended(queue, new, r, p)
  BY Zenon, <1>1, AppendWaits
<1>3. PICK e : /\ Waits(new) = Waits(queue) \cup {e} /\ Sender(new, e) = p /\ e[1] = r
               /\ \A x \in Waits(queue) : Sender(new, x) = Sender(queue, x)
  BY Zenon, <1>2 DEF Extended
<1>4. Served(new, st2, w, has)
  BY Zenon, <1>3 DEF Served
<1> QED  BY Zenon, <1>1, <1>4

\* recv() takes the first waiting sender, whom it is about to ready.
LEMMA ServedTail ==
  ASSUME NEW queue \in [Proc -> Seq(Proc)], NEW st, NEW w, NEW has,
         NEW r \in Proc, queue[r] # <<>>, Served(queue, st, w, has)
  PROVE  Served([queue EXCEPT ![r] = Tail(@)], st, w \cup {Head(queue[r])}, has)
<1> DEFINE new == [queue EXCEPT ![r] = Tail(@)]
           h == Head(queue[r])
<1>1. new = [queue EXCEPT ![r] = Tail(@)]
  OBVIOUS
<1> HIDE DEF new
<1>2. Shortened(queue, new, r)
  BY Zenon, <1>1, TailWaits
<1> HIDE DEF h
<1>3. \A x \in Waits(new) : has[x[1]]
  BY Zenon, <1>2 DEF Served, Shortened
<1>4. ASSUME NEW p \in Proc, st[p] = "PRSEND", p \notin w, p # h
      PROVE  \E x \in Waits(new) : Sender(new, x) = p
  <2>1. PICK y \in Waits(queue) : Sender(queue, y) = p
    BY Zenon, <1>4 DEF Served
  <2>2. y # <<r, 1>>
    BY Zenon, <1>2, <1>4, <2>1 DEF Shortened, h
  <2>3. PICK x \in Waits(new) : Back(r, x) = y
    BY Zenon, <1>2, <2>2 DEF Shortened
  <2> QED  BY Zenon, <1>2, <2>1, <2>3 DEF Shortened
<1>5. Served(new, st, w \cup {h}, has)
  BY Zenon, <1>3, <1>4 DEF Served
<1> QED  BY Zenon, <1>1, <1>5 DEF h

\* resched() makes nobody PRSEND.
LEMMA NoNewSender ==
  ASSUME NEW c, NEW st \in [Proc -> State], NEW rs, Resched(c, st, rs)
  PROVE  \A q \in Proc : state'[q] = "PRSEND" => st[q] = "PRSEND"
<1> DEFINE old == running[c]
           back == old # None /\ st[old] = "PRCURR"
           st1 == IF back THEN [st EXCEPT ![old] = "PRREADY"] ELSE st
<1>1. PICK new : state' = IF new = None THEN st1 ELSE [st1 EXCEPT ![new] = "PRCURR"]
  BY Zenon DEF Resched
<1>2. st1 \in [Proc -> State] /\ \A q \in Proc : st1[q] = "PRSEND" => st[q] = "PRSEND"
  BY Zenon DEF State
<1> HIDE DEF st1
<1> QED  BY Zenon, <1>1, <1>2

\* Whoever is about to be readied still is.
LEMMA WokenGrows ==
  ASSUME \A q \in Proc : pc[q] \in Waking => pc'[q] \in Waking /\ peer'[q] = peer[q]
  PROVE  \A x : x \in Woken => x \in Woken'
BY Zenon DEF Woken

\* Steps that leave the queues alone and take no message keep senders served.
LEMMA ServedQuietly ==
  ASSUME NInv, UNCHANGED msgqueue,
         \A q \in Proc : state'[q] = "PRSEND" => state[q] = "PRSEND",
         \A q \in Proc : pc[q] \in Waking => pc'[q] \in Waking /\ peer'[q] = peer[q],
         \A q \in Proc : hasMessage[q] => hasMessage'[q]
  PROVE  Served(msgqueue', state', Woken', hasMessage')
<1>1. \A x : x \in Woken => x \in Woken'
  BY Zenon, WokenGrows
<1>2. \A x \in Waits(msgqueue) : x[1] \in Proc
  BY Zenon DEF Waits
<1>3. Served(msgqueue, state', Woken', hasMessage')
  BY <1>1, <1>2, ServedStay DEF NInv
<1> QED  BY Zenon, <1>3

\* Only the process that takes a step goes to another label.
LEMMA GotoOnly ==
  ASSUME MInv, NEW p \in Proc, NEW l, Goto(p, l)
  PROVE  pc'[p] = l /\ \A q \in Proc : q # p => pc'[q] = pc[q]
BY Zenon DEF Goto, MInv, TypeOK

\* Every process in a call is in one of the calls of the program.
LEMMA CallsOfProgram ==
  ASSUME NInv, [Next]_vars
  PROVE  (\A p \in Proc : pc[p] # "out" => op[p] \in Ops)'
<1>0. MInv /\ \A q \in Proc : pc[q] # "out" => op[q] \in Ops
  BY Zenon DEF NInv
<1>1. ASSUME NEW p \in Proc, Call(p)
      PROVE  (\A q \in Proc : pc[q] # "out" => op[q] \in Ops)'
  <2>1. PICK o \in Ops : op' = [op EXCEPT ![p] = o] /\ Goto(p, "acquire") /\ UNCHANGED Ops
    BY Zenon, <1>1 DEF Call, CallSend, CallRecv
  <2>2. op'[p] = o /\ \A q \in Proc : q # p => op'[q] = op[q]
    BY Zenon, <1>0, <2>1 DEF MInv, TypeOK
  <2> QED  BY <1>0, <2>1, <2>2, GotoOnly
<1>2. ASSUME NEW p \in Proc, Return(p)
      PROVE  (\A q \in Proc : pc[q] # "out" => op[q] \in Ops)'
  <2>1. /\ Goto(p, "out") /\ UNCHANGED Ops
        /\ \A q \in Proc : q # p => op'[q] = op[q]
    BY Zenon, <1>0, <1>2 DEF Return, MInv, TypeOK
  <2> QED  BY ZenonT(40), <1>0, <2>1, GotoOnly
<1>3. ASSUME UNCHANGED <<op, Ops>>, \A q \in Proc : pc'[q] # "out" => pc[q] # "out"
      PROVE  (\A q \in Proc : pc[q] # "out" => op[q] \in Ops)'
  BY Zenon, <1>0, <1>3
<1>4. ASSUME NEW p \in Proc, Spin(p) \/ Step(p), ~Return(p)
      PROVE  (\A q \in Proc : pc[q] # "out" => op[q] \in Ops)'
  <2>1. PICK l : Goto(p, l) /\ pc[p] # "out"
    BY Zenon, <1>4 DEF Spin, AcquireFirst, AcquireAgain, Acquire, Step, Release, AfterRelease, SendBody,
                SendnowBody, Deposit, RecvBody, Collect, RecvnowBody, Ready, Block, At
  <2>2. UNCHANGED <<op, Ops>>
    BY Zenon, <1>4 DEF Spin, AcquireFirst, AcquireAgain, Acquire, Step, Release, SendBody,
                SendnowBody, Deposit, RecvBody, Collect, RecvnowBody, Ready, Block, callvars
  <2>3. \A q \in Proc : pc'[q] # "out" => pc[q] # "out"
    BY Zenon, <1>0, <2>1, GotoOnly
  <2> QED  BY Zenon, <1>3, <2>2, <2>3
<1>5. ASSUME NEW c \in Core, Yield(c) \/ Preempt(c)
      PROVE  (\A q \in Proc : pc[q] # "out" => op[q] \in Ops)'
  <2>1. UNCHANGED <<op, Ops, pc>>
    BY SMTT(30), <1>5 DEF Yield, Preempt, callvars
  <2> QED  BY Zenon, <1>3, <2>1
<1>6. CASE UNCHANGED vars
  <2>1. UNCHANGED <<op, Ops, pc>>
    BY Zenon, <1>6 DEF vars, callvars
  <2> QED  BY Zenon, <1>3, <2>1
<1>7. CASE Next
  <2>1. CASE \E p \in Proc : Spin(p) \/ Step(p) \/ Call(p)
    BY Zenon, <1>1, <1>2, <1>4, <2>1
  <2>2. CASE \E c \in Core : Yield(c) \/ Preempt(c)
    BY SMTT(30), <1>5, <2>2
  <2> QED  BY Zenon, <1>7, <2>1, <2>2 DEF Next
<1> QED  BY Zenon, <1>6, <1>7

\* The steps of a call, as far as blocked senders are concerned.
LEMMA ServedStep ==
  ASSUME NInv, NEW p \in Proc, Spin(p) \/ Step(p) \/ Call(p)
  PROVE  Served(msgqueue', state', Woken', hasMessage')
<1>0. MInv /\ msgqueue \in [Proc -> Seq(Proc)] /\ hasMessage \in [Proc -> BOOLEAN]
      /\ state \in [Proc -> State]
  BY Zenon DEF NInv, MInv, TypeOK, State
<1>1. CASE Spin(p) \/ Release(p)
  <2>1. PICK l : Goto(p, l) /\ (pc[p] \in Waking => l \in Waking)
    BY Zenon, <1>1 DEF Spin, AcquireFirst, AcquireAgain, Acquire, Release, AfterRelease, At, Waking
  <2>2. UNCHANGED <<msgqueue, hasMessage, state, peer>>
    BY SMTT(30), <1>1 DEF Spin, AcquireFirst, AcquireAgain, Acquire, Release, mailvars, callvars, schedvars
  <2> QED  BY Zenon, <1>0, <2>1, <2>2, GotoOnly, ServedQuietly
<1>2. CASE Return(p) \/ Call(p)
  <2>1. PICK l : Goto(p, l) /\ pc[p] \notin Waking
    BY ZenonT(40), <1>2 DEF Return, Call, CallSend, CallRecv, At, Waking
  <2>2. UNCHANGED <<msgqueue, hasMessage, state>> /\ \A q \in Proc : q # p => peer'[q] = peer[q]
    BY SMTT(30), <1>0, <1>2 DEF Return, Call, CallSend, CallRecv, mailvars, schedvars, MInv, TypeOK
  <2> QED  BY SMTT(30), <1>0, <2>1, <2>2, GotoOnly, ServedQuietly
<1>3. CASE SendBody(p) \/ SendnowBody(p)
  <2>1. pc[p] = "body" /\ pc[p] \notin Waking /\ Sending(p) /\ peer[p] \in Proc
    BY ZenonT(40), <1>0, <1>3 DEF SendBody, SendnowBody, At, Waking, MInv, CallOK, Sending
  <2>2. CASE Goto(p, "release") /\ UNCHANGED <<mailvars, callvars, schedvars, holder>>
    BY Zenon, <1>0, <2>1, <2>2, GotoOnly, ServedQuietly DEF mailvars, callvars, schedvars
  <2>3. CASE Deposit(p)
    <3>1. \A q \in Proc : hasMessage[q] => hasMessage'[q]
      BY ZenonT(40), <1>0, <2>1, <2>3 DEF Deposit
    <3> QED  BY ZenonT(40), <1>0, <2>1, <2>3, <3>1, GotoOnly, ServedQuietly DEF Deposit, callvars, schedvars
  <2>4. CASE /\ hasMessage[peer[p]]
             /\ state' = [state EXCEPT ![p] = "PRSEND"]
             /\ msgqueue' = [msgqueue EXCEPT ![peer[p]] = Append(@, p)]
             /\ Goto(p, "release resched")
             /\ UNCHANGED <<hasMessage, callvars>>
    <3>1. \A q \in Proc : q # p /\ state'[q] = "PRSEND" => state[q] = "PRSEND"
      BY ZenonT(40), <1>0, <2>4
    <3>2. Served(msgqueue', state', Woken, hasMessage)
      BY ZenonT(40), <1>0, <2>1, <2>4, <3>1, ServedAppend DEF NInv
    <3>3. \A x : x \in Woken => x \in Woken'
      BY ZenonT(40), <1>0, <2>1, <2>4, GotoOnly, WokenGrows DEF callvars
    <3> QED  BY ZenonT(40), <2>4, <3>2, <3>3, ServedStay
  <2> QED  BY ZenonT(40), <1>3, <2>2, <2>3, <2>4 DEF SendBody, SendnowBody
<1>4. CASE RecvBody(p)
  <2>1. PICK l : Goto(p, l) /\ pc[p] \notin Waking
    BY Zenon, <1>4 DEF RecvBody, At, Waking
  <2>2. UNCHANGED <<msgqueue, hasMessage, peer>>
        /\ \A q \in Proc : state'[q] = "PRSEND" => state[q] = "PRSEND"
    BY ZenonT(40), <1>0, <1>4 DEF RecvBody, mailvars, callvars
  <2> QED  BY Zenon, <1>0, <2>1, <2>2, GotoOnly, ServedQuietly
<1>5. CASE Collect(p) /\ msgqueue[p] = <<>>
  <2>1. /\ pc[p] \notin Waking /\ Goto(p, "release") /\ UNCHANGED <<msgqueue, peer, state>>
        /\ \A q \in Proc : q # p => hasMessage'[q] = hasMessage[q]
    BY Zenon, <1>0, <1>5 DEF Collect, At, Waking, schedvars
  <2>2. \A x \in Waits(msgqueue) : x[1] \in Proc /\ x[1] # p
    BY <1>5 DEF Waits
  <2>3. \A x : x \in Woken => x \in Woken'
    BY SMTT(30), <1>0, <2>1, GotoOnly, WokenGrows
  <2>4. Served(msgqueue, state', Woken', hasMessage')
    BY SMTT(30), <2>1, <2>2, <2>3, ServedStay DEF NInv
  <2> QED  BY SMTT(30), <2>1, <2>4
<1>6. CASE Collect(p) /\ msgqueue[p] # <<>>
  <2> DEFINE t == Head(msgqueue[p])
  <2>1. /\ pc[p] \notin Waking /\ Goto(p, "release ready") /\ UNCHANGED <<hasMessage, state>>
        /\ msgqueue' = [msgqueue EXCEPT ![p] = Tail(@)] /\ peer' = [peer EXCEPT ![p] = t]
    BY Zenon, <1>6 DEF Collect, At, Waking, schedvars
  <2>2. Served(msgqueue', state, Woken \cup {t}, hasMessage)
    BY ZenonT(40), <1>0, <1>6, <2>1, ServedTail DEF NInv
  <2> HIDE DEF t
  <2>3. /\ pc'[p] = "release ready" /\ peer'[p] = t
        /\ \A q \in Proc : q # p => pc'[q] = pc[q] /\ peer'[q] = peer[q]
    BY ZenonT(40), <1>0, <2>1, GotoOnly DEF MInv, TypeOK
  <2>4. \A x : x \in Woken => x \in Woken'
    BY ZenonT(40), <2>1, <2>3, WokenGrows
  <2>5. t \in Woken'
    BY Zenon, <2>3 DEF Woken, Waking
  <2> QED  BY ZenonT(40), <2>1, <2>2, <2>4, <2>5, ServedStay
<1>7. CASE RecvnowBody(p)
  <2>1. pc[p] = "body" /\ op[p] = "recvnow" /\ Goto(p, "release") /\ UNCHANGED <<msgqueue, peer, state>>
    BY Zenon, <1>7 DEF RecvnowBody, At, schedvars
  <2>2. \A q \in Proc : msgqueue[q] = <<>>
    BY Zenon, <2>1 DEF NInv
  <2>3. Waits(msgqueue) = {}
    BY <2>2 DEF Waits
  <2>4. \A q \in Proc : pc[q] \in Waking => pc'[q] \in Waking /\ peer'[q] = peer[q]
    BY Zenon, <1>0, <2>1, GotoOnly DEF Waking
  <2>5. \A x : x \in Woken => x \in Woken'
    BY Zenon, <2>4, WokenGrows
  <2>6. Served(msgqueue, state', Woken', hasMessage')
    BY Zenon, <2>1, <2>3, <2>5 DEF NInv, Served
  <2> QED  BY Zenon, <2>1, <2>6
<1>8. CASE Ready(p)
  <2> DEFINE t == peer[p]
             st == [state EXCEPT ![t] = "PRREADY"]
             rs == readyset \cup {t}
  <2>1. /\ pc[p] = "ready" /\ pc[p] \in Waking /\ Goto(p, "return") /\ UNCHANGED <<msgqueue, hasMessage, peer>>
        /\ Resched(CoreOf[p], st, rs) \/ state' = st
    BY Zenon, <1>8 DEF Ready, Peer, ready, At, Waking, mailvars, callvars
  <2>2. t \in Proc
    BY Zenon, <1>0, <2>1 DEF MInv, WakeOK
  <2>3. st \in [Proc -> State] /\ \A q \in Proc : st[q] = "PRSEND" => state[q] = "PRSEND" /\ q # t
    BY SMTT(30), <1>0, <2>2 DEF State
  <2> HIDE DEF st, rs
  <2>4. \A q \in Proc : state'[q] = "PRSEND" => state[q] = "PRSEND" /\ q # t
    BY SMTT(30), <2>1, <2>3, NoNewSender
  <2>5. \A x \in Proc : x \in Woken /\ x # t => x \in Woken'
    <3> SUFFICES ASSUME NEW x \in Proc, x \in Woken, x # t
                 PROVE  x \in Woken'
      OBVIOUS
    <3>1. PICK q \in Proc : pc[q] \in Waking /\ x = peer[q]
      BY Zenon DEF Woken
    <3>2. q # p /\ pc'[q] = pc[q] /\ peer'[q] = peer[q]
      BY SMTT(30), <1>0, <2>1, <3>1, GotoOnly
    <3> QED  BY Zenon, <3>1, <3>2 DEF Woken
  <2>6. Served(msgqueue, state', Woken', hasMessage)
    BY SMTT(30), <2>4, <2>5, ServedStay DEF NInv
  <2> QED  BY SMTT(30), <2>1, <2>6
<1>9. CASE Block(p)
  <2>1. PICK l : Goto(p, l) /\ pc[p] \notin Waking
    BY SMTT(30), <1>9 DEF Block, At, Waking
  <2>2. UNCHANGED <<msgqueue, hasMessage, peer>> /\ Resched(CoreOf[p], state, readyset)
    BY SMTT(30), <1>9 DEF Block, mailvars, callvars
  <2>3. \A q \in Proc : state'[q] = "PRSEND" => state[q] = "PRSEND"
    BY SMTT(30), <1>0, <2>2, NoNewSender
  <2> QED  BY Zenon, <1>0, <2>1, <2>2, <2>3, GotoOnly, ServedQuietly
<1> QED  BY SMTT(30), <1>1, <1>2, <1>3, <1>4, <1>5, <1>6, <1>7, <1>8, <1>9 DEF Step

\* Nobody changes the program, and a step that changes a queue is a send()
\* that blocks or a recv() that dequeues.
LEMMA QueueChanges ==
  ASSUME [Next]_vars
  PROVE  /\ UNCHANGED Ops
         /\ \/ UNCHANGED msgqueue
            \/ \E p \in Proc : pc[p] # "out" /\ op[p] = "send"
            \/ \E p \in Proc : msgqueue[p] # <<>>
<1>1. ASSUME NEW p \in Proc, Spin(p) \/ Release(p) \/ Ready(p) \/ Block(p)
      PROVE  UNCHANGED <<Ops, msgqueue>>
  BY Zenon, <1>1 DEF Spin, AcquireFirst, AcquireAgain, Acquire, Release, Ready, Block, mailvars, callvars
<1>2. ASSUME NEW p \in Proc, Call(p) \/ Return(p) \/ RecvBody(p) \/ RecvnowBody(p)
      PROVE  UNCHANGED <<Ops, msgqueue>>
  BY Zenon, <1>2 DEF Call, CallSend, CallRecv, Return, RecvBody, RecvnowBody, mailvars, callvars
<1>3. ASSUME NEW p \in Proc, SendnowBody(p)
      PROVE  UNCHANGED <<Ops, msgqueue>>
  BY Zenon, <1>3 DEF SendnowBody, Deposit, mailvars, callvars
<1>4. ASSUME NEW p \in Proc, SendBody(p)
      PROVE  UNCHANGED Ops /\ pc[p] # "out" /\ op[p] = "send"
  BY Zenon, <1>4 DEF SendBody, Deposit, At, callvars
<1>5. ASSUME NEW p \in Proc, Collect(p)
      PROVE  UNCHANGED Ops /\ (UNCHANGED msgqueue \/ msgqueue[p] # <<>>)
  BY Zenon, <1>5 DEF Collect
<1>6. ASSUME NEW c \in Core, Yield(c) \/ Preempt(c)
      PROVE  UNCHANGED <<Ops, msgqueue>>
  BY Zenon, <1>6 DEF Yield, Preempt, mailvars, callvars
<1>7. CASE UNCHANGED vars
  BY Zenon, <1>7 DEF vars, mailvars, callvars
<1>8. CASE Next
  BY Zenon, <1>1, <1>2, <1>3, <1>4, <1>5, <1>6, <1>8 DEF Next, Step
<1> QED  BY Zenon, <1>7, <1>8

\* Nobody blocks in send() where the program uses recvnow().
LEMMA NobodyQueues ==
  ASSUME NotMixed, NInv, [Next]_vars
  PROVE  ("recvnow" \in Ops => \A p \in Proc : msgqueue[p] = <<>>)'
<1>1. Ops \in OpSets
  BY Zenon DEF NInv, MInv, TypeOK
<1>2. \A p \in Proc : pc[p] # "out" /\ op[p] = "send" => "send" \in Ops
  BY Zenon DEF NInv
<1>3. "recvnow" \in Ops => \A p \in Proc : msgqueue[p] = <<>>
  BY Zenon DEF NInv
<1> QED  BY Zenon, <1>1, <1>2, <1>3, QueueChanges DEF NotMixed

\* Every step of a program that does not mix the two keeps senders served.
LEMMA NStep ==
  ASSUME NotMixed, NInv, [Next]_vars
  PROVE  NInv'
<1>0. MInv /\ state \in [Proc -> State]
  BY Zenon DEF NInv, MInv, TypeOK, State
<1>1. MInv'
  BY Zenon, <1>0, MStep
<1>2. Served(msgqueue', state', Woken', hasMessage')
  <2>1. CASE \E p \in Proc : Spin(p) \/ Step(p) \/ Call(p)
    BY SMTT(30), <2>1, ServedStep
  <2>2. CASE \E c \in Core : Yield(c) \/ Preempt(c)
    <3>1. PICK c \in Core : Resched(c, state, readyset) /\ UNCHANGED <<msgqueue, hasMessage, peer, pc>>
      BY Zenon, <2>2 DEF Yield, Preempt, mailvars, callvars
    <3> QED  BY SMTT(30), <1>0, <3>1, NoNewSender, ServedQuietly
  <2>3. CASE UNCHANGED vars
    BY SMTT(30), <2>3, ServedQuietly DEF vars, mailvars, callvars, schedvars
  <2> QED  BY SMTT(30), <2>1, <2>2, <2>3 DEF Next
<1> QED  BY SMTT(30), <1>1, <1>2, CallsOfProgram, NobodyQueues DEF NInv

\* No sender waits when the processes start.
LEMMA NInit ==
  Init => NInv
<1> SUFFICES ASSUME Init
             PROVE  NInv
  OBVIOUS
<1>1. Waits(msgqueue) = {}
  BY DEF Init, Waits
<1>2. \A p \in Proc : state[p] # "PRSEND" /\ pc[p] = "out" /\ msgqueue[p] = <<>>
  BY Zenon DEF Init
<1> QED  BY SMTT(30), <1>1, <1>2, MInit DEF NInv, Served

\* The invariant implies the property.
LEMMA SendersFollow ==
  NInv => SenderNotStranded
<1> SUFFICES ASSUME NInv, NEW p \in Live, state[p] = "PRSEND", ~WakePending(p)
             PROVE  \E r \in Proc : /\ hasMessage[r]
                                    /\ \E i \in 1 .. Len(msgqueue[r]) : msgqueue[r][i] = p
  BY Zenon DEF SenderNotStranded
<1>1. PICK x \in Waits(msgqueue) : Sender(msgqueue, x) = p
  BY Zenon, WokenPending DEF NInv, Served, Live
<1>2. hasMessage[x[1]]
  BY Zenon DEF NInv, Served
<1>3. x[1] \in Proc /\ x[2] \in 1 .. Len(msgqueue[x[1]]) /\ msgqueue[x[1]][x[2]] = p
  BY Zenon, <1>1 DEF Waits, Sender, NInv, MInv, TypeOK
<1> QED  BY Zenon, <1>2, <1>3

\* Where no program mixes send() and recvnow(), a process blocked in send()
\* is in the queue of a process that has a message, or about to be readied.
THEOREM SenderNotStrandedHolds ==
  ASSUME NotMixed
  PROVE  Spec => []SenderNotStranded
<1>1. Spec => []NInv
  BY Zenon, NInit, NStep, PTL DEF Spec
<1> QED  BY Zenon, <1>1, SendersFollow, PTL

-----------------------------------------------------------------------------
\* Labels of a recv() from where it waits to where it collects, and of a call
\* that has not received a message yet.
Marked == Blocking \cup {"reacquire"}
Early == Marked \cup {"acquire", "body", "collect"}

\* A call of send() has its message; another one has none until it collects.
MsgOK ==
  \A p \in Proc :
    /\ pc[p] = "out" => msg[p] = None
    /\ pc[p] # "out" /\ Sending(p) => msg[p] \in Msg
    /\ pc[p] \in Early /\ ~Sending(p) => msg[p] = None

\* A recv() that waits no more has a message to collect.
Assured(p) == pc[p] = "collect" \/ (pc[p] \in Marked /\ op[p] = "recv" /\ state[p] # "PRRECV")

RecvOK ==
  \A p \in Proc :
    /\ pc[p] \in {"collect", "reacquire"} => op[p] = "recv"
    /\ Assured(p) => hasMessage[p]

BoxInv == NInv /\ MsgOK /\ RecvOK

\* A step inside a call that changes neither calls nor messages.
LEMMA MsgStays ==
  ASSUME MInv, MsgOK, NEW p \in Proc, NEW l, Goto(p, l), UNCHANGED <<op, msg>>,
         pc[p] # "out", l # "out", l \in Early => pc[p] \in Early
  PROVE  MsgOK'
<1>1. pc'[p] = l /\ \A q \in Proc : q # p => pc'[q] = pc[q]
  BY Zenon, GotoOnly
<1> QED  BY Zenon, <1>1 DEF MsgOK, Sending

\* The step of p changes only its own call and message.
LEMMA MsgChanges ==
  ASSUME MInv, MsgOK, NEW p \in Proc, NEW l, Goto(p, l),
         \A q \in Proc : q # p => op'[q] = op[q] /\ msg'[q] = msg[q],
         l = "out" => msg'[p] = None,
         l # "out" /\ op'[p] \in {"send", "sendnow"} => msg'[p] \in Msg,
         l \in Early /\ op'[p] \notin {"send", "sendnow"} => msg'[p] = None
  PROVE  MsgOK'
<1>1. pc'[p] = l /\ \A q \in Proc : q # p => pc'[q] = pc[q]
  BY Zenon, GotoOnly
<1> QED  BY Zenon, <1>1 DEF MsgOK, Sending

\* Every step leaves each call with the message it should have.
LEMMA MsgStep ==
  ASSUME NInv, MsgOK, RecvOK, NEW p \in Proc, Spin(p) \/ Step(p) \/ Call(p)
  PROVE  MsgOK'
<1> USE DEF Early, Marked, Blocking
<1>0. MInv /\ op \in [Proc -> {"send", "sendnow", "recv", "recvnow", None}]
      /\ msg \in [Proc -> Msg \cup {None}]
  BY Zenon DEF NInv, MInv, TypeOK
<1>1. CASE Spin(p)
  <2>1. PICK l \in {"body", "collect"} : Goto(p, l) /\ pc[p] \in {"acquire", "reacquire"} /\ UNCHANGED <<op, msg>>
    BY Zenon, <1>1 DEF Spin, AcquireFirst, AcquireAgain, Acquire, At, callvars
  <2> QED  BY Zenon, <1>0, <2>1, MsgStays
<1>2. CASE Release(p)
  <2>1. PICK l : /\ Goto(p, l) /\ UNCHANGED <<op, msg>>
                 /\ \/ pc[p] = "release" /\ l = "return"
                    \/ pc[p] = "release ready" /\ l = "ready"
                    \/ pc[p] = "release resched" /\ l = "resched"
    BY Zenon, <1>2 DEF Release, AfterRelease, At, callvars
  <2> QED  BY Zenon, <1>0, <2>1, MsgStays
<1>3. CASE SendBody(p) \/ SendnowBody(p) \/ RecvBody(p)
  <2>1. PICK l \in {"release", "release resched", "release ready", "collect"} : Goto(p, l)
    BY Zenon, <1>3 DEF SendBody, SendnowBody, RecvBody, Deposit
  <2>2. pc[p] = "body" /\ UNCHANGED <<op, msg>>
    BY Zenon, <1>3 DEF SendBody, SendnowBody, RecvBody, Deposit, At, callvars
  <2> QED  BY Zenon, <1>0, <2>1, <2>2, MsgStays
<1>4. CASE Collect(p) \/ RecvnowBody(p)
  <2>1. PICK l \in {"release", "release ready"} : Goto(p, l)
    BY Zenon, <1>4 DEF Collect, RecvnowBody
  <2>2. op[p] \in {"recv", "recvnow"} /\ UNCHANGED op
    BY Zenon, <1>4 DEF Collect, RecvnowBody, RecvOK, At
  <2>3. \A q \in Proc : q # p => msg'[q] = msg[q]
    BY Zenon, <1>0, <1>4 DEF Collect, RecvnowBody
  <2> QED  BY Zenon, <1>0, <2>1, <2>2, <2>3, MsgChanges
<1>5. CASE Ready(p) \/ Block(p)
  <2>1. PICK l \in {"return", "reacquire"} : Goto(p, l)
    BY Zenon, <1>5 DEF Ready, Block
  <2>2. UNCHANGED <<op, msg>> /\ (pc[p] = "resched" \/ (pc[p] = "ready" /\ Goto(p, "return")))
    BY Zenon, <1>5 DEF Ready, Block, At, callvars
  <2> QED  BY Zenon, <1>0, <2>1, <2>2, MsgStays
<1>6. CASE Return(p)
  <2>1. Goto(p, "out") /\ msg'[p] = None /\ \A q \in Proc : q # p => op'[q] = op[q] /\ msg'[q] = msg[q]
    BY Zenon, <1>0, <1>6 DEF Return
  <2> QED  BY Zenon, <1>0, <2>1, MsgChanges
<1>7. ASSUME NEW o \in Ops, CallRecv(p, o)
      PROVE  MsgOK'
  <2>1. /\ pc[p] = "out" /\ Goto(p, "acquire") /\ UNCHANGED msg /\ op' = [op EXCEPT ![p] = o]
        /\ o \in {"recv", "recvnow"}
    BY Zenon, <1>7 DEF CallRecv, At
  <2>2. msg'[p] = None /\ op'[p] = o /\ \A q \in Proc : q # p => op'[q] = op[q] /\ msg'[q] = msg[q]
    BY Zenon, <1>0, <2>1 DEF MsgOK
  <2> QED  BY Zenon, <1>0, <2>1, <2>2, MsgChanges
<1>8. ASSUME NEW o \in Ops, NEW r \in Proc, CallSend(p, o, r)
      PROVE  MsgOK'
  <2>1. /\ Goto(p, "acquire") /\ op' = [op EXCEPT ![p] = o] /\ o \in {"send", "sendnow"}
        /\ nsent[p] < MaxSent /\ msg' = [msg EXCEPT ![p] = <<p, nsent[p] + 1>>]
    BY Zenon, <1>8 DEF CallSend
  <2>2. nsent[p] \in 0 .. MaxSent /\ MaxSent \in Nat
    BY Zenon, MessageAssumption DEF NInv, MInv, TypeOK
  <2>3. <<p, nsent[p] + 1>> \in Msg
    BY <2>1, <2>2 DEF Msg
  <2>4. msg'[p] \in Msg /\ op'[p] = o /\ \A q \in Proc : q # p => op'[q] = op[q] /\ msg'[q] = msg[q]
    BY Zenon, <1>0, <2>1, <2>3
  <2> QED  BY Zenon, <1>0, <2>1, <2>4, MsgChanges
<1> QED  BY Zenon, <1>1, <1>2, <1>3, <1>4, <1>5, <1>6, <1>7, <1>8 DEF Step, Call

\* A step of p that takes no message of another process, and after which
\* whoever waited in recv() and does so no more has a message.
LEMMA RecvStays ==
  ASSUME MInv, RecvOK, NEW p \in Proc, NEW l, Goto(p, l),
         \A q \in Proc : q # p => op'[q] = op[q] /\ (hasMessage[q] => hasMessage'[q]),
         \A q \in Proc : q # p /\ state[q] = "PRRECV" => state'[q] = "PRRECV" \/ hasMessage'[q],
         l \in {"collect", "reacquire"} => op'[p] = "recv",
         l = "collect" \/ (l \in Marked /\ op'[p] = "recv" /\ state'[p] # "PRRECV") => hasMessage'[p]
  PROVE  RecvOK'
<1>1. pc'[p] = l /\ \A q \in Proc : q # p => pc'[q] = pc[q]
  BY Zenon, GotoOnly
<1> QED  BY Zenon, <1>1 DEF RecvOK, Assured

\* Whoever waits when resched() is called waits after it.
LEMMA WaitingStay ==
  ASSUME NEW c \in Core, NEW st, NEW rs, Reschedulable(st, rs), Resched(c, st, rs)
  PROVE  \A q \in Proc : st[q] = "PRRECV" => state'[q] = "PRRECV"
<1>1. Rescheduled(c, st)
  BY Zenon, ReschedOK
<1> QED  BY Zenon, <1>1 DEF Rescheduled

\* What resched() needs holds in every state.
LEMMA ReschedulableNow ==
  ASSUME MInv
  PROVE  Reschedulable(state, readyset)
BY Zenon DEF MInv, TypeOK, RunOK, Reschedulable, State

\* It still holds when ready() has made one that waited ready.
LEMMA ReschedulableReadied ==
  ASSUME MInv, NEW t \in Proc, state[t] \in {"PRRECV", "PRSEND"}, NEW st, NEW rs,
         st = [state EXCEPT ![t] = "PRREADY"], rs = readyset \cup {t}
  PROVE  Reschedulable(st, rs)
<1>1. /\ st \in [Proc -> State] /\ rs \in SUBSET Proc /\ st[t] = "PRREADY"
      /\ \A q \in Proc : q # t => st[q] = state[q]
      /\ running \in [Core -> Proc \cup {None}]
  BY Zenon DEF MInv, TypeOK, State
<1>2. /\ \A d \in Core : running[d] # None => CoreOf[running[d]] = d
      /\ \A q \in Proc : st[q] = "PRCURR" => running[CoreOf[q]] = q
      /\ \A q \in rs : st[q] = "PRREADY"
  BY Zenon, <1>1 DEF MInv, RunOK, TypeOK
<1> QED  BY Zenon, <1>1, <1>2 DEF Reschedulable

\* Every step leaves a message to each recv() that waits no more.
LEMMA RecvOKStep ==
  ASSUME NInv, RecvOK, NEW p \in Proc, Spin(p) \/ Step(p) \/ Call(p)
  PROVE  RecvOK'
<1> USE DEF Marked, Blocking
<1>0. MInv /\ state \in [Proc -> State] /\ hasMessage \in [Proc -> BOOLEAN]
      /\ op \in [Proc -> {"send", "sendnow", "recv", "recvnow", None}]
  BY Zenon DEF NInv, MInv, TypeOK, State
<1>00. CoreOf[p] \in Core
  BY Zenon, MessageAssumption
<1>1. CASE AcquireFirst(p)
  <2>1. Goto(p, "body") /\ UNCHANGED <<op, hasMessage, state>>
    BY Zenon, <1>1 DEF AcquireFirst, Acquire, mailvars, callvars, schedvars
  <2> QED  BY Zenon, <1>0, <2>1, RecvStays
<1>2. CASE AcquireAgain(p)
  <2>1. At(p, "reacquire") /\ Goto(p, "collect") /\ UNCHANGED <<op, hasMessage, state>>
    BY Zenon, <1>2 DEF AcquireAgain, Acquire, mailvars, callvars, schedvars
  <2>2. state[p] = "PRCURR" /\ pc[p] = "reacquire"
    BY Zenon, <1>0, <2>1, OnCore
  <2>3. op[p] = "recv" /\ hasMessage[p]
    BY Zenon, <2>2 DEF RecvOK, Assured
  <2> QED  BY Zenon, <1>0, <2>1, <2>3, RecvStays
<1>3. CASE Release(p)
  <2>1. PICK l : /\ Goto(p, l) /\ UNCHANGED <<op, hasMessage, state>>
                 /\ l \in {"return", "ready"} \/ (pc[p] = "release resched" /\ l = "resched")
    BY Zenon, <1>3 DEF Release, AfterRelease, At, mailvars, callvars, schedvars
  <2>2. pc[p] = "release resched" /\ op[p] = "recv" /\ state[p] # "PRRECV" => hasMessage[p]
    BY Zenon DEF RecvOK, Assured
  <2> QED  BY Zenon, <1>0, <2>1, <2>2, RecvStays
<1>4. CASE SendBody(p) \/ SendnowBody(p)
  <2>1. PICK l \in {"release", "release resched", "release ready"} : Goto(p, l)
    BY Zenon, <1>4 DEF SendBody, SendnowBody, Deposit
  <2>2. UNCHANGED op /\ op[p] \in {"send", "sendnow"}
    BY Zenon, <1>4 DEF SendBody, SendnowBody, Deposit, callvars
  <2>3. \A q \in Proc : hasMessage[q] => hasMessage'[q]
    BY Zenon, <1>0, <1>4 DEF SendBody, SendnowBody, Deposit, mailvars
  <2>4. \A q \in Proc : q # p => state'[q] = state[q]
    BY Zenon, <1>0, <1>4 DEF SendBody, SendnowBody, Deposit, schedvars
  <2> QED  BY Zenon, <1>0, <2>1, <2>2, <2>3, <2>4, RecvStays
<1>5. CASE RecvBody(p)
  <2>1. UNCHANGED <<op, hasMessage>> /\ op[p] = "recv"
    BY Zenon, <1>5 DEF RecvBody, mailvars, callvars
  <2>2. \/ hasMessage[p] /\ Goto(p, "collect") /\ UNCHANGED state
        \/ state' = [state EXCEPT ![p] = "PRRECV"] /\ Goto(p, "release resched")
    BY Zenon, <1>5 DEF RecvBody
  <2>3. CASE hasMessage[p] /\ Goto(p, "collect") /\ UNCHANGED state
    BY Zenon, <1>0, <2>1, <2>3, RecvStays
  <2>4. CASE state' = [state EXCEPT ![p] = "PRRECV"] /\ Goto(p, "release resched")
    BY Zenon, <1>0, <2>1, <2>4, RecvStays
  <2> QED  BY Zenon, <2>2, <2>3, <2>4
<1>6. CASE Collect(p) \/ RecvnowBody(p)
  <2>1. PICK l \in {"release", "release ready"} : Goto(p, l)
    BY Zenon, <1>6 DEF Collect, RecvnowBody
  <2>2. UNCHANGED <<op, state>>
    BY Zenon, <1>6 DEF Collect, RecvnowBody, schedvars
  <2>3. \A q \in Proc : q # p => hasMessage'[q] = hasMessage[q]
    BY Zenon, <1>0, <1>6 DEF Collect, RecvnowBody
  <2> QED  BY Zenon, <1>0, <2>1, <2>2, <2>3, RecvStays
<1>7. CASE Ready(p)
  <2> DEFINE t == peer[p]
             st == [state EXCEPT ![t] = "PRREADY"]
  <2>1. /\ pc[p] = "ready" /\ Goto(p, "return") /\ UNCHANGED <<op, hasMessage>>
        /\ Resched(CoreOf[p], st, readyset \cup {t}) \/ state' = st
    BY Zenon, <1>7 DEF Ready, Peer, ready, At, mailvars, callvars
  <2>2. t \in Proc /\ state[t] \in {"PRRECV", "PRSEND"} /\ (state[t] = "PRRECV" => hasMessage[t])
    BY Zenon, <1>0, <2>1 DEF MInv, WakeOK, WakePending, Waking
  <2>3. st \in [Proc -> State] /\ \A q \in Proc : q # t => st[q] = state[q]
    BY Zenon, <1>0, <2>2 DEF State
  <2>4. \A q \in Proc : st[q] = "PRRECV" => state'[q] = "PRRECV"
    <3>1. Reschedulable(st, readyset \cup {t})
      BY Zenon, <1>0, <2>2, ReschedulableReadied
    <3> QED  BY Zenon, <1>00, <2>1, <3>1, WaitingStay
  <2> QED  BY ZenonT(40), <1>0, <2>1, <2>2, <2>3, <2>4, RecvStays
<1>8. CASE Block(p)
  <2>1. /\ pc[p] = "resched" /\ Goto(p, IF op[p] = "recv" THEN "reacquire" ELSE "return")
        /\ UNCHANGED <<op, hasMessage>> /\ Resched(CoreOf[p], state, readyset)
    BY Zenon, <1>8 DEF Block, At, mailvars, callvars
  <2>2. \A q \in Proc : state[q] = "PRRECV" => state'[q] = "PRRECV"
    BY Zenon, <1>0, <1>00, <2>1, ReschedulableNow, WaitingStay
  <2>3. op[p] = "recv" /\ state'[p] # "PRRECV" => hasMessage[p]
    BY Zenon, <2>1, <2>2 DEF RecvOK, Assured
  <2> QED  BY Zenon, <1>0, <2>1, <2>2, <2>3, RecvStays
<1>9. CASE Return(p) \/ Call(p)
  <2>1. PICK l \in {"out", "acquire"} : Goto(p, l)
    BY Zenon, <1>9 DEF Return, Call, CallSend, CallRecv
  <2>2. UNCHANGED <<hasMessage, state>>
    BY Zenon, <1>9 DEF Return, Call, CallSend, CallRecv, mailvars, schedvars
  <2>3. \A q \in Proc : q # p => op'[q] = op[q]
    BY Zenon, <1>0, <1>9 DEF Return, Call, CallSend, CallRecv
  <2> QED  BY Zenon, <1>0, <2>1, <2>2, <2>3, RecvStays
<1> QED  BY Zenon, <1>1, <1>2, <1>3, <1>4, <1>5, <1>6, <1>7, <1>8, <1>9 DEF Step, Spin

\* What a program that does not mix send() and recvnow() keeps true.
LEMMA BoxStep ==
  ASSUME NotMixed, BoxInv, [Next]_vars
  PROVE  BoxInv'
<1>1. NInv /\ MsgOK /\ RecvOK /\ MInv
  BY Zenon DEF BoxInv, NInv
<1>2. NInv'
  BY Zenon, <1>1, NStep
<1>3. ASSUME NEW p \in Proc, Spin(p) \/ Step(p) \/ Call(p)
      PROVE  MsgOK' /\ RecvOK'
  BY Zenon, <1>1, <1>3, MsgStep, RecvOKStep
<1>4. ASSUME NEW c \in Core, Yield(c) \/ Preempt(c)
      PROVE  MsgOK' /\ RecvOK'
  <2>1. UNCHANGED <<pc, op, msg, hasMessage>> /\ Resched(c, state, readyset)
    BY Zenon, <1>4 DEF Yield, Preempt, mailvars, callvars
  <2>2. \A q \in Proc : state[q] = "PRRECV" => state'[q] = "PRRECV"
    BY Zenon, <1>1, <2>1, ReschedulableNow, WaitingStay
  <2>3. MsgOK'
    BY Zenon, <1>1, <2>1 DEF MsgOK, Sending
  <2>4. RecvOK'
    BY Zenon, <1>1, <2>1, <2>2 DEF RecvOK, Assured
  <2> QED  BY Zenon, <2>3, <2>4
<1>5. ASSUME UNCHANGED vars
      PROVE  MsgOK' /\ RecvOK'
  <2>1. UNCHANGED <<pc, op, msg, hasMessage, state>>
    BY Zenon, <1>5 DEF vars, mailvars, callvars, schedvars
  <2>2. MsgOK'
    BY Zenon, <1>1, <2>1 DEF MsgOK, Sending
  <2>3. RecvOK'
    BY Zenon, <1>1, <2>1 DEF RecvOK, Assured
  <2> QED  BY Zenon, <2>2, <2>3
<1>6. MsgOK' /\ RecvOK'
  <2>1. CASE \E p \in Proc : Spin(p) \/ Step(p) \/ Call(p)
    BY Zenon, <1>3, <2>1
  <2>2. CASE \E c \in Core : Yield(c) \/ Preempt(c)
    BY Zenon, <1>4, <2>2
  <2> QED  BY Zenon, <1>5, <2>1, <2>2 DEF Next
<1> QED  BY Zenon, <1>2, <1>6 DEF BoxInv

\* No process is in a call when the processes start.
LEMMA BoxInit ==
  Init => BoxInv
<1> SUFFICES ASSUME Init
             PROVE  BoxInv
  OBVIOUS
<1>1. \A p \in Proc : pc[p] = "out" /\ msg[p] = None
  BY Zenon DEF Init
<1>2. MsgOK
  BY Zenon, <1>1 DEF MsgOK, Early, Marked, Blocking
<1>3. RecvOK
  BY Zenon, <1>1 DEF RecvOK, Assured, Marked, Blocking
<1> QED  BY Zenon, <1>2, <1>3, NInit DEF BoxInv

-----------------------------------------------------------------------------
\* The messages that the senders of queue q have left in out, in its order,
\* and the mailbox they make with the message that was deposited.
Queued(q, out) == [i \in 1 .. Len(q) |-> out[q[i]]]
BoxOf(has, in, q, out) == (IF has THEN <<in>> ELSE <<>>) \o Queued(q, out)

\* Queued is a sequence that depends only on what its senders have left.
LEMMA QueuedIs ==
  ASSUME NEW q \in Seq(Proc), NEW out \in [Proc -> Msg \cup {None}]
  PROVE  /\ Queued(q, out) \in Seq(Msg \cup {None})
         /\ Len(Queued(q, out)) = Len(q)
         /\ \A i \in 1 .. Len(q) : Queued(q, out)[i] = out[q[i]]
BY DEF Queued

\* The mailbox of a process that no step of a call touches stays.
LEMMA QueuedSame ==
  ASSUME NEW q \in Seq(Proc), NEW out, NEW out2, \A i \in 1 .. Len(q) : out2[q[i]] = out[q[i]]
  PROVE  Queued(q, out2) = Queued(q, out)
BY Zenon DEF Queued

\* Mailbox new is mailbox b with m as its last message.
Adds(new, b, m) == new = Append(b, m)

\* A sender that blocks adds its message at the end.
LEMMA BoxAppend ==
  ASSUME NEW q \in Seq(Proc), NEW out \in [Proc -> Msg \cup {None}],
         NEW p \in Proc, NEW in \in Msg \cup {None}, NEW m \in Msg \cup {None},
         \A i \in 1 .. Len(q) : q[i] # p
  PROVE  Adds(BoxOf(TRUE, in, Append(q, p), [out EXCEPT ![p] = m]), BoxOf(TRUE, in, q, out), m)
<1> DEFINE out2 == [out EXCEPT ![p] = m]
           s == Queued(q, out)
           t == Queued(Append(q, p), out2)
<1>1. Append(q, p) \in Seq(Proc) /\ out2 \in [Proc -> Msg \cup {None}] /\ out2[p] = m
  OBVIOUS
<1>2. /\ s \in Seq(Msg \cup {None}) /\ Len(s) = Len(q)
      /\ \A i \in 1 .. Len(q) : s[i] = out[q[i]]
  BY Zenon, QueuedIs
<1>3. /\ t \in Seq(Msg \cup {None}) /\ Len(t) = Len(Append(q, p))
      /\ \A i \in 1 .. Len(Append(q, p)) : t[i] = out2[Append(q, p)[i]]
  BY Zenon, <1>1, QueuedIs
<1>4. /\ Len(t) = Len(q) + 1 /\ t[Len(q) + 1] = m
      /\ \A i \in 1 .. Len(q) : t[i] = s[i]
  <2>1. Len(Append(q, p)) = Len(q) + 1 /\ Append(q, p)[Len(q) + 1] = p
        /\ \A i \in 1 .. Len(q) : Append(q, p)[i] = q[i] /\ q[i] \in Proc /\ out2[q[i]] = out[q[i]]
    OBVIOUS
  <2> HIDE DEF s, t, out2
  <2> QED  BY <1>1, <1>2, <1>3, <2>1
<1> HIDE DEF s, t, out2
<1>5. <<in>> \o t = Append(<<in>> \o s, m)
  BY <1>2, <1>3, <1>4
<1> QED  BY Zenon, <1>5 DEF Adds, BoxOf, s, t, out2

\* A message deposited into an empty mailbox is all there is in it.
LEMMA BoxEmpty ==
  ASSUME NEW in, NEW out
  PROVE  /\ BoxOf(FALSE, in, <<>>, out) = <<>>
         /\ BoxOf(TRUE, in, <<>>, out) = <<in>>
BY DEF BoxOf, Queued

\* recv() takes the first message; that of the first sender in the queue
\* becomes the first.
LEMMA BoxTail ==
  ASSUME NEW q \in Seq(Proc), NEW out \in [Proc -> Msg \cup {None}], q # <<>>,
         NEW in \in Msg \cup {None}, \A i \in 2 .. Len(q) : q[i] # Head(q)
  PROVE  /\ BoxOf(TRUE, in, q, out) # <<>> /\ Head(BoxOf(TRUE, in, q, out)) = in
         /\ BoxOf(TRUE, out[Head(q)], Tail(q), [out EXCEPT ![Head(q)] = None])
              = Tail(BoxOf(TRUE, in, q, out))
<1> DEFINE out2 == [out EXCEPT ![Head(q)] = None]
           s == Queued(q, out)
           t == Queued(Tail(q), out2)
<1>1. Tail(q) \in Seq(Proc) /\ out2 \in [Proc -> Msg \cup {None}] /\ Head(q) \in Proc
  OBVIOUS
<1>2. /\ s \in Seq(Msg \cup {None}) /\ Len(s) = Len(q)
      /\ \A i \in 1 .. Len(q) : s[i] = out[q[i]]
  BY Zenon, QueuedIs
<1>3. /\ t \in Seq(Msg \cup {None}) /\ Len(t) = Len(Tail(q))
      /\ \A i \in 1 .. Len(Tail(q)) : t[i] = out2[Tail(q)[i]]
  BY Zenon, <1>1, QueuedIs
<1>4. /\ Len(t) = Len(s) - 1 /\ Len(s) > 0 /\ s[1] = out[Head(q)]
      /\ \A i \in 1 .. Len(t) : t[i] = s[i + 1]
  <2>1. /\ Len(q) > 0 /\ Len(Tail(q)) = Len(q) - 1 /\ q[1] = Head(q)
        /\ \A i \in 1 .. Len(q) - 1 : Tail(q)[i] = q[i + 1] /\ out2[q[i + 1]] = out[q[i + 1]]
    OBVIOUS
  <2> HIDE DEF s, t, out2
  <2> QED  BY <1>1, <1>2, <1>3, <2>1
<1> HIDE DEF s, t, out2
<1>5. <<in>> \o s # <<>> /\ Head(<<in>> \o s) = in /\ Tail(<<in>> \o s) = s
  BY <1>2
<1>6. <<out[Head(q)]>> \o t = s
  BY <1>2, <1>3, <1>4
<1> QED  BY Zenon, <1>5, <1>6 DEF BoxOf, s, t, out2

\* The mailboxes and the answers, process by process.
LEMMA BoxAt ==
  /\ Box = [r \in Proc |-> BoxOf(hasMessage[r], msgin[r], msgqueue[r], msgout)]
  /\ Box' = [r \in Proc |-> BoxOf(hasMessage'[r], msgin'[r], msgqueue'[r], msgout')]
BY Zenon DEF Box, BoxOf, Queued

\* A step that touches the mailbox of r only.
LEMMA BoxChanges ==
  ASSUME MInv, NEW r \in Proc, NEW b, BoxOf(hasMessage'[r], msgin'[r], msgqueue'[r], msgout') = b,
         \A q \in Proc : q # r => /\ hasMessage'[q] = hasMessage[q] /\ msgin'[q] = msgin[q]
                                  /\ msgqueue'[q] = msgqueue[q],
         \A q \in Proc : q # r => \A i \in 1 .. Len(msgqueue[q]) :
                                    msgout'[msgqueue[q][i]] = msgout[msgqueue[q][i]]
  PROVE  Box' = [Box EXCEPT ![r] = b]
<1>1. ASSUME NEW q \in Proc, q # r
      PROVE  BoxOf(hasMessage'[q], msgin'[q], msgqueue'[q], msgout')
               = BoxOf(hasMessage[q], msgin[q], msgqueue[q], msgout)
  <2>1. msgqueue[q] \in Seq(Proc)
    BY Zenon DEF MInv, TypeOK
  <2>2. Queued(msgqueue[q], msgout') = Queued(msgqueue[q], msgout)
    BY Zenon, <1>1, <2>1, QueuedSame
  <2> QED  BY Zenon, <1>1, <2>2 DEF BoxOf
<1> QED  BY Zenon, <1>1, BoxAt

\* Senders in the queues wait, and each is in one place.
LEMMA SendersApart ==
  ASSUME MInv, NEW q \in Proc, NEW i \in 1 .. Len(msgqueue[q])
  PROVE  /\ msgqueue[q][i] \in Proc /\ state[msgqueue[q][i]] = "PRSEND"
         /\ \A r \in Proc : \A j \in 1 .. Len(msgqueue[r]) :
              msgqueue[r][j] = msgqueue[q][i] => r = q /\ j = i
<1>1. msgqueue \in [Proc -> Seq(Proc)]
  BY Zenon DEF MInv, TypeOK
<1>2. ASSUME NEW r \in Proc, NEW j \in 1 .. Len(msgqueue[r])
      PROVE  <<r, j>> \in Waits(msgqueue) /\ Sender(msgqueue, <<r, j>>) = msgqueue[r][j]
  BY <1>1 DEF Waits, Sender
<1>3. msgqueue[q][i] \in Proc
  BY <1>1
<1>4. state[msgqueue[q][i]] = "PRSEND"
  <2>1. \A x \in Waits(msgqueue) : state[Sender(msgqueue, x)] = "PRSEND"
    BY Zenon DEF MInv, QueueOK, SendersOK
  <2>2. PICK x : x \in Waits(msgqueue) /\ Sender(msgqueue, x) = msgqueue[q][i]
    BY Zenon, <1>2
  <2> QED  BY Zenon, <2>1, <2>2
<1>5. ASSUME NEW r \in Proc, NEW j \in 1 .. Len(msgqueue[r]), msgqueue[r][j] = msgqueue[q][i]
      PROVE  r = q /\ j = i
  <2>1. \A x, y \in Waits(msgqueue) : Sender(msgqueue, x) = Sender(msgqueue, y) => x = y
    BY Zenon DEF MInv, QueueOK, SendersOK
  <2>2. PICK x : x = <<r, j>> /\ x \in Waits(msgqueue) /\ Sender(msgqueue, x) = msgqueue[r][j]
    BY Zenon, <1>2
  <2>3. PICK y : y = <<q, i>> /\ y \in Waits(msgqueue) /\ Sender(msgqueue, y) = msgqueue[q][i]
    BY Zenon, <1>2
  <2>4. x = y
    BY Zenon, <1>5, <2>1, <2>2, <2>3
  <2> QED  BY <2>2, <2>3, <2>4
<1> QED  BY Zenon, <1>3, <1>4, <1>5

\* An empty message buffer has nobody queued behind it.
LEMMA NobodyBehind ==
  ASSUME NInv, NEW r \in Proc, ~hasMessage[r]
  PROVE  msgqueue[r] = <<>>
<1>1. msgqueue[r] \in Seq(Proc)
  BY Zenon DEF NInv, MInv, TypeOK
<1>2. ASSUME Len(msgqueue[r]) > 0
      PROVE  <<r, 1>> \in Waits(msgqueue) /\ <<r, 1>>[1] = r
  BY <1>1, <1>2 DEF Waits
<1>3. ~(Len(msgqueue[r]) > 0)
  BY Zenon, <1>2 DEF NInv, Served
<1> QED  BY <1>1, <1>3

\* send() and sendnow() put a message into an empty mailbox.
LEMMA DepositMail ==
  ASSUME BoxInv, NEW p \in Proc, pc[p] # "out", Sending(p), ~hasMessage[peer[p]], Deposit(p)
  PROVE  Mail!Deposit(peer[p], msg[p]) /\ peer[p] \in Proc /\ msg[p] \in Msg
<1> DEFINE r == peer[p]
<1>0. MInv /\ NInv /\ MsgOK
  BY Zenon DEF BoxInv, NInv
<1>1. r \in Proc /\ msg[p] \in Msg
  BY Zenon, <1>0 DEF MInv, CallOK, MsgOK
<1>2. /\ msgin' = [msgin EXCEPT ![r] = msg[p]] /\ hasMessage' = [hasMessage EXCEPT ![r] = TRUE]
      /\ UNCHANGED <<msgout, msgqueue, op, msg>>
  BY Zenon DEF Deposit, callvars
<1>3. msgqueue[r] = <<>> /\ ~hasMessage[r]
  BY Zenon, <1>0, <1>1, NobodyBehind
<1> HIDE DEF r
<1>4. /\ msgin'[r] = msg[p] /\ hasMessage'[r] = TRUE
      /\ \A q \in Proc : q # r => hasMessage'[q] = hasMessage[q] /\ msgin'[q] = msgin[q]
  BY Zenon, <1>0, <1>1, <1>2 DEF MInv, TypeOK
<1>5. BoxOf(hasMessage'[r], msgin'[r], msgqueue'[r], msgout') = <<msg[p]>>
  <2>1. msgqueue'[r] = <<>>
    BY Zenon, <1>2, <1>3
  <2> QED  BY Zenon, <1>4, <2>1, BoxEmpty
<1>6. Box' = [Box EXCEPT ![r] = <<msg[p]>>]
  BY ZenonT(40), <1>0, <1>1, <1>2, <1>4, <1>5, BoxChanges
<1>7. hasMessage[r] = FALSE
  BY Zenon, <1>0, <1>1, <1>3 DEF MInv, TypeOK
<1>8. Box[r] = <<>>
  BY Zenon, <1>1, <1>3, <1>7, BoxAt, BoxEmpty
<1>9. Append(Box[r], msg[p]) = <<msg[p]>>
  BY <1>8
<1>10. Box' = [Box EXCEPT ![r] = Append(Box[r], msg[p])]
  BY Zenon, <1>6, <1>9
<1>11. UNCHANGED Answer
  BY Zenon, <1>2 DEF Answer, Sending
<1> QED  BY Zenon, <1>1, <1>10, <1>11 DEF Mail!Deposit, r

\* send() blocks: its message is the last of the mailbox.
LEMMA BlockedMail ==
  ASSUME BoxInv, NEW p \in Proc, At(p, "body"), Sending(p), hasMessage[peer[p]],
         msgout' = [msgout EXCEPT ![p] = msg[p]],
         msgqueue' = [msgqueue EXCEPT ![peer[p]] = Append(@, p)],
         UNCHANGED <<hasMessage, msgin, callvars>>
  PROVE  Mail!Deposit(peer[p], msg[p]) /\ peer[p] \in Proc /\ msg[p] \in Msg
<1> DEFINE r == peer[p]
<1>0. MInv /\ NInv /\ MsgOK
  BY Zenon DEF BoxInv, NInv
<1>1. r \in Proc /\ msg[p] \in Msg
  BY Zenon, <1>0 DEF MInv, CallOK, MsgOK, At
<1>2. state[p] = "PRCURR"
  BY Zenon, <1>0, OnCore DEF Blocking
<1>3. \A q \in Proc : \A i \in 1 .. Len(msgqueue[q]) : msgqueue[q][i] \in Proc /\ msgqueue[q][i] # p
  BY Zenon, <1>0, <1>2, SendersApart
<1> HIDE DEF r
<1>4. /\ msgqueue[r] \in Seq(Proc) /\ msgout \in [Proc -> Msg \cup {None}] /\ msgin[r] \in Msg \cup {None}
      /\ msgqueue'[r] = Append(msgqueue[r], p) /\ \A q \in Proc : q # r => msgqueue'[q] = msgqueue[q]
      /\ hasMessage[r] = TRUE
  BY Zenon, <1>0, <1>1 DEF MInv, TypeOK, r
<1>5. BoxOf(TRUE, msgin[r], Append(msgqueue[r], p), msgout') = Append(BoxOf(TRUE, msgin[r], msgqueue[r], msgout), msg[p])
  <2>1. msg[p] \in Msg \cup {None} /\ \A i \in 1 .. Len(msgqueue[r]) : msgqueue[r][i] # p
    BY Zenon, <1>1, <1>3
  <2>2. msgqueue[r] \in Seq(Proc) /\ msgout \in [Proc -> Msg \cup {None}] /\ msgin[r] \in Msg \cup {None}
    BY Zenon, <1>4
  <2>3. Adds(BoxOf(TRUE, msgin[r], Append(msgqueue[r], p), [msgout EXCEPT ![p] = msg[p]]),
             BoxOf(TRUE, msgin[r], msgqueue[r], msgout), msg[p])
    BY Zenon, <2>1, <2>2, BoxAppend
  <2> QED  BY Zenon, <2>3 DEF Adds
<1>6. Box[r] = BoxOf(TRUE, msgin[r], msgqueue[r], msgout)
  BY Zenon, <1>1, <1>4, BoxAt
<1>7. BoxOf(hasMessage'[r], msgin'[r], msgqueue'[r], msgout') = Append(Box[r], msg[p])
  BY Zenon, <1>4, <1>5, <1>6
<1>8. \A q \in Proc : \A i \in 1 .. Len(msgqueue[q]) : msgout'[msgqueue[q][i]] = msgout[msgqueue[q][i]]
  BY Zenon, <1>3, <1>4
<1>9. Box' = [Box EXCEPT ![r] = Append(Box[r], msg[p])]
  <2>1. UNCHANGED hasMessage /\ UNCHANGED msgin
    OBVIOUS
  <2>2. \A q \in Proc : q # r => /\ hasMessage'[q] = hasMessage[q] /\ msgin'[q] = msgin[q]
                                 /\ msgqueue'[q] = msgqueue[q]
    BY Zenon, <1>4, <2>1
  <2>3. \A q \in Proc : q # r => \A i \in 1 .. Len(msgqueue[q]) :
                                    msgout'[msgqueue[q][i]] = msgout[msgqueue[q][i]]
    BY Zenon, <1>8
  <2> QED  BY ZenonT(40), <1>0, <1>1, <1>7, <2>2, <2>3, BoxChanges
<1>10. UNCHANGED Answer
  BY Zenon DEF Answer, Sending, callvars
<1> QED  BY Zenon, <1>1, <1>9, <1>10 DEF Mail!Deposit, r

\* recv() and recvnow() take a message m from the mailbox.
LEMMA AnswerGiven ==
  ASSUME MInv, NEW p \in Proc, ~Sending(p), UNCHANGED op, NEW m, msg' = [msg EXCEPT ![p] = m]
  PROVE  Answer' = [Answer EXCEPT ![p] = m] /\ Answer[p] = msg[p]
<1>1. msg'[p] = m /\ \A q \in Proc : q # p => msg'[q] = msg[q]
  BY Zenon DEF MInv, TypeOK
<1> QED  BY Zenon, <1>1 DEF Answer, Sending

\* recv() takes the first message of the mailbox.
LEMMA CollectMail ==
  ASSUME BoxInv, NEW p \in Proc, Collect(p)
  PROVE  Mail!Collect(p)
<1>0. MInv /\ NInv /\ MsgOK /\ RecvOK /\ pc[p] = "collect"
  BY Zenon DEF BoxInv, NInv, Collect, At
<1>1. op[p] = "recv" /\ hasMessage[p]
  BY Zenon, <1>0 DEF RecvOK, Assured
<1>2. ~Sending(p) /\ msg[p] = None
  BY Zenon, <1>0, <1>1 DEF MsgOK, Sending, Early
<1>3. msg' = [msg EXCEPT ![p] = msgin[p]] /\ UNCHANGED op
  BY Zenon DEF Collect
<1>4. Answer' = [Answer EXCEPT ![p] = msgin[p]] /\ Answer[p] = None
  BY Zenon, <1>0, <1>2, <1>3, AnswerGiven
<1>5. /\ hasMessage[p] = TRUE /\ msgqueue[p] \in Seq(Proc) /\ msgin[p] \in Msg \cup {None}
      /\ msgout \in [Proc -> Msg \cup {None}]
  BY Zenon, <1>0, <1>1 DEF MInv, TypeOK
<1>6. Box[p] = BoxOf(TRUE, msgin[p], msgqueue[p], msgout)
  BY Zenon, <1>5, BoxAt
<1>7. ASSUME msgqueue[p] = <<>>
      PROVE  Box[p] # <<>> /\ Head(Box[p]) = msgin[p] /\ Box' = [Box EXCEPT ![p] = Tail(Box[p])]
  <2>1. hasMessage' = [hasMessage EXCEPT ![p] = FALSE] /\ UNCHANGED <<msgin, msgout, msgqueue>>
    BY Zenon, <1>7 DEF Collect
  <2>2. hasMessage'[p] = FALSE /\ \A q \in Proc : q # p => hasMessage'[q] = hasMessage[q]
    BY Zenon, <1>0, <2>1 DEF MInv, TypeOK
  <2>3. Box[p] = <<msgin[p]>>
    BY Zenon, <1>6, <1>7, BoxEmpty
  <2>4. BoxOf(hasMessage'[p], msgin'[p], msgqueue'[p], msgout') = <<>>
    BY Zenon, <1>7, <2>1, <2>2, BoxEmpty
  <2>5. Box' = [Box EXCEPT ![p] = <<>>]
    BY Zenon, <1>0, <2>1, <2>2, <2>4, BoxChanges
  <2>6. Box[p] # <<>> /\ Head(Box[p]) = msgin[p] /\ Tail(Box[p]) = <<>>
    BY <2>3
  <2> QED  BY Zenon, <2>5, <2>6
<1>8. ASSUME msgqueue[p] # <<>>
      PROVE  Box[p] # <<>> /\ Head(Box[p]) = msgin[p] /\ Box' = [Box EXCEPT ![p] = Tail(Box[p])]
  <2> DEFINE h == Head(msgqueue[p])
  <2>1. /\ msgqueue' = [msgqueue EXCEPT ![p] = Tail(@)] /\ msgin' = [msgin EXCEPT ![p] = msgout[h]]
        /\ msgout' = [msgout EXCEPT ![h] = None] /\ UNCHANGED hasMessage
    BY Zenon, <1>8 DEF Collect, QueuedMessage
  <2>2. 1 \in 1 .. Len(msgqueue[p]) /\ msgqueue[p][1] = h
    BY <1>5, <1>8
  <2>3. h \in Proc /\ \A q \in Proc : \A i \in 1 .. Len(msgqueue[q]) : msgqueue[q][i] = h => q = p /\ i = 1
    BY <1>0, <2>2, SendersApart
  <2>4. \A i \in 2 .. Len(msgqueue[p]) : i \in 1 .. Len(msgqueue[p]) /\ i # 1
    BY <1>5
  <2>5. \A i \in 2 .. Len(msgqueue[p]) : msgqueue[p][i] # h
    BY Zenon, <2>3, <2>4
  <2>6. \A q \in Proc : q # p => \A i \in 1 .. Len(msgqueue[q]) : msgout'[msgqueue[q][i]] = msgout[msgqueue[q][i]]
    <3> SUFFICES ASSUME NEW q \in Proc, q # p, NEW i \in 1 .. Len(msgqueue[q])
                 PROVE  msgout'[msgqueue[q][i]] = msgout[msgqueue[q][i]]
      BY Zenon
    <3>1. msgqueue[q][i] # h /\ msgqueue[q][i] \in Proc
      BY Zenon, <1>0, <2>3, SendersApart
    <3> HIDE DEF h
    <3> QED  BY Zenon, <1>5, <2>1, <3>1
  <2>7. /\ Box[p] # <<>> /\ Head(Box[p]) = msgin[p]
        /\ BoxOf(TRUE, msgout[h], Tail(msgqueue[p]), msgout') = Tail(Box[p])
    <3>1. LET b == BoxOf(TRUE, msgin[p], msgqueue[p], msgout)
          IN  /\ b # <<>> /\ Head(b) = msgin[p]
              /\ BoxOf(TRUE, msgout[h], Tail(msgqueue[p]), [msgout EXCEPT ![h] = None]) = Tail(b)
      BY Zenon, <1>5, <1>8, <2>5, BoxTail
    <3> QED  BY Zenon, <1>6, <2>1, <3>1
  <2> HIDE DEF h
  <2>8. /\ msgqueue'[p] = Tail(msgqueue[p]) /\ msgin'[p] = msgout[h] /\ hasMessage'[p] = TRUE
        /\ \A q \in Proc : q # p => /\ hasMessage'[q] = hasMessage[q] /\ msgin'[q] = msgin[q]
                                    /\ msgqueue'[q] = msgqueue[q]
    BY Zenon, <1>0, <1>5, <2>1 DEF MInv, TypeOK
  <2>9. BoxOf(hasMessage'[p], msgin'[p], msgqueue'[p], msgout') = Tail(Box[p])
    BY Zenon, <2>7, <2>8
  <2>10. Box' = [Box EXCEPT ![p] = Tail(Box[p])]
    BY ZenonT(40), <1>0, <2>6, <2>8, <2>9, BoxChanges
  <2> QED  BY Zenon, <2>7, <2>10
<1>9. Box[p] # <<>> /\ Head(Box[p]) = msgin[p] /\ Box' = [Box EXCEPT ![p] = Tail(Box[p])]
  BY Zenon, <1>7, <1>8
<1> QED  BY Zenon, <1>4, <1>9 DEF Mail!Collect

\* recvnow() takes the message there is, where nobody queues.
LEMMA RecvnowMail ==
  ASSUME BoxInv, NEW p \in Proc, RecvnowBody(p), hasMessage[p]
  PROVE  Mail!Collect(p)
<1>0. MInv /\ NInv /\ MsgOK /\ pc[p] = "body" /\ op[p] = "recvnow"
  BY Zenon DEF BoxInv, NInv, RecvnowBody, At
<1>1. msgqueue[p] = <<>> /\ ~Sending(p) /\ msg[p] = None
  BY Zenon, <1>0 DEF MsgOK, Sending, Early, NInv
<1>2. /\ msg' = [msg EXCEPT ![p] = msgin[p]] /\ hasMessage' = [hasMessage EXCEPT ![p] = FALSE]
      /\ UNCHANGED <<msgin, msgout, msgqueue, op>>
  BY Zenon DEF RecvnowBody
<1>3. Answer' = [Answer EXCEPT ![p] = msgin[p]] /\ Answer[p] = None
  BY Zenon, <1>0, <1>1, <1>2, AnswerGiven
<1>4. /\ hasMessage[p] = TRUE /\ hasMessage'[p] = FALSE
      /\ \A q \in Proc : q # p => hasMessage'[q] = hasMessage[q]
  BY Zenon, <1>0, <1>2 DEF MInv, TypeOK
<1>5. Box[p] = <<msgin[p]>>
  BY Zenon, <1>1, <1>4, BoxAt, BoxEmpty
<1>6. BoxOf(hasMessage'[p], msgin'[p], msgqueue'[p], msgout') = <<>>
  BY Zenon, <1>1, <1>2, <1>4, BoxEmpty
<1>7. Box' = [Box EXCEPT ![p] = <<>>]
  BY ZenonT(40), <1>0, <1>2, <1>4, <1>6, BoxChanges
<1>8. Box[p] # <<>> /\ Head(Box[p]) = msgin[p] /\ Tail(Box[p]) = <<>>
  BY <1>5
<1>9. Box' = [Box EXCEPT ![p] = Tail(Box[p])]
  BY Zenon, <1>7, <1>8
<1> QED  BY Zenon, <1>3, <1>8, <1>9 DEF Mail!Collect

\* Mailboxes stay where no message moves, and answers where no call does.
LEMMA MailUnmoved ==
  ASSUME UNCHANGED mailvars
  PROVE  UNCHANGED Box /\ (UNCHANGED <<op, msg>> => UNCHANGED Answer)
BY Zenon DEF mailvars, Box, Answer, Sending

\* A call returns its message, if it has received one.
LEMMA ReturnMail ==
  ASSUME BoxInv, NEW p \in Proc, Return(p)
  PROVE  Mail!Return(p) \/ UNCHANGED Mail!mailvars
<1>0. MInv /\ op \in [Proc -> {"send", "sendnow", "recv", "recvnow", None}]
      /\ msg \in [Proc -> Msg \cup {None}]
  BY Zenon DEF BoxInv, NInv, MInv, TypeOK
<1>1. UNCHANGED Box
  BY Zenon, MailUnmoved DEF Return
<1>2. /\ op'[p] = None /\ msg'[p] = None
      /\ \A q \in Proc : q # p => op'[q] = op[q] /\ msg'[q] = msg[q]
  BY Zenon, <1>0 DEF Return
<1>3. Answer' = [Answer EXCEPT ![p] = None]
  BY Zenon, <1>2 DEF Answer, Sending
<1>4. CASE Answer[p] = None
  <2>1. Answer' = Answer
    BY Zenon, <1>3, <1>4 DEF Answer
  <2> QED  BY Zenon, <1>1, <2>1 DEF Mail!mailvars
<1>5. CASE Answer[p] # None
  BY Zenon, <1>1, <1>3, <1>5 DEF Mail!Return
<1> QED  BY Zenon, <1>4, <1>5

\* The beginning of a call moves no message and answers nothing.
LEMMA CallMail ==
  ASSUME BoxInv, NEW p \in Proc, Call(p)
  PROVE  UNCHANGED Mail!mailvars
<1>0. /\ MInv /\ MsgOK /\ op \in [Proc -> {"send", "sendnow", "recv", "recvnow", None}]
      /\ msg \in [Proc -> Msg \cup {None}]
  BY Zenon DEF BoxInv, NInv, MInv, TypeOK
<1>1. pc[p] = "out" /\ UNCHANGED mailvars
  BY Zenon DEF Call, CallSend, CallRecv, At
<1>2. \A q \in Proc : q # p => op'[q] = op[q] /\ msg'[q] = msg[q]
  BY Zenon, <1>0 DEF Call, CallSend, CallRecv
<1>3. msg[p] = None /\ (op'[p] \in {"send", "sendnow"} \/ msg'[p] = None)
  BY Zenon, <1>0, <1>1 DEF MsgOK, Call, CallSend, CallRecv
<1>4. UNCHANGED Answer
  BY Zenon, <1>2, <1>3 DEF Answer, Sending
<1> QED  BY Zenon, <1>1, <1>4, MailUnmoved DEF Mail!mailvars

\* Every step is a step of the mailboxes, or none.
LEMMA MailStep ==
  ASSUME BoxInv, [Next]_vars
  PROVE  [Mail!Next]_(Mail!mailvars)
<1>1. ASSUME UNCHANGED mailvars, UNCHANGED <<op, msg>>
      PROVE  [Mail!Next]_(Mail!mailvars)
  BY Zenon, <1>1, MailUnmoved DEF Mail!mailvars
<1>2. ASSUME NEW p \in Proc, Spin(p) \/ Release(p) \/ RecvBody(p) \/ Ready(p) \/ Block(p)
      PROVE  [Mail!Next]_(Mail!mailvars)
  <2>1. UNCHANGED mailvars /\ UNCHANGED <<op, msg>>
    BY Zenon, <1>2 DEF Spin, AcquireFirst, AcquireAgain, Acquire, Release, RecvBody, Ready, Block, callvars
  <2> QED  BY Zenon, <1>1, <2>1
<1>3. ASSUME NEW p \in Proc, SendBody(p) \/ SendnowBody(p)
      PROVE  [Mail!Next]_(Mail!mailvars)
  <2>1. At(p, "body") /\ pc[p] # "out" /\ Sending(p)
    BY Zenon, <1>3 DEF SendBody, SendnowBody, At, Sending
  <2>2. CASE UNCHANGED <<mailvars, callvars, schedvars, holder>>
    <3>1. UNCHANGED mailvars /\ UNCHANGED <<op, msg>>
      BY Zenon, <2>2 DEF callvars
    <3> QED  BY Zenon, <1>1, <3>1
  <2>3. CASE ~hasMessage[peer[p]] /\ Deposit(p)
    BY Zenon, <2>1, <2>3, DepositMail DEF Mail!Next
  <2>4. CASE /\ hasMessage[peer[p]]
             /\ msgout' = [msgout EXCEPT ![p] = msg[p]]
             /\ msgqueue' = [msgqueue EXCEPT ![peer[p]] = Append(@, p)]
             /\ UNCHANGED <<hasMessage, msgin, callvars>>
    BY Zenon, <2>1, <2>4, BlockedMail DEF Mail!Next
  <2> QED  BY Zenon, <1>3, <2>2, <2>3, <2>4 DEF SendBody, SendnowBody
<1>4. ASSUME NEW p \in Proc, Collect(p)
      PROVE  [Mail!Next]_(Mail!mailvars)
  BY Zenon, <1>4, CollectMail DEF Mail!Next
<1>5. ASSUME NEW p \in Proc, RecvnowBody(p)
      PROVE  [Mail!Next]_(Mail!mailvars)
  <2>1. CASE hasMessage[p]
    BY Zenon, <1>5, <2>1, RecvnowMail DEF Mail!Next
  <2>2. CASE ~hasMessage[p]
    <3>1. UNCHANGED mailvars /\ UNCHANGED <<op, msg>>
      BY Zenon, <1>5, <2>2 DEF RecvnowBody, mailvars
    <3> QED  BY Zenon, <1>1, <3>1
  <2> QED  BY Zenon, <2>1, <2>2
<1>6. ASSUME NEW p \in Proc, Return(p) \/ Call(p)
      PROVE  [Mail!Next]_(Mail!mailvars)
  BY Zenon, <1>6, ReturnMail, CallMail DEF Mail!Next
<1>7. ASSUME NEW c \in Core, Yield(c) \/ Preempt(c)
      PROVE  [Mail!Next]_(Mail!mailvars)
  <2>1. UNCHANGED mailvars /\ UNCHANGED <<op, msg>>
    BY Zenon, <1>7 DEF Yield, Preempt, callvars
  <2> QED  BY Zenon, <1>1, <2>1
<1>8. CASE UNCHANGED vars
  <2>1. UNCHANGED mailvars /\ UNCHANGED <<op, msg>>
    BY Zenon, <1>8 DEF vars, callvars
  <2> QED  BY Zenon, <1>1, <2>1
<1>9. CASE Next
  BY Zenon, <1>2, <1>3, <1>4, <1>5, <1>6, <1>7, <1>9 DEF Next, Step
<1> QED  BY Zenon, <1>8, <1>9

\* The mailboxes are empty when the processes start.
LEMMA MailInit ==
  Init => Mail!Init
<1> SUFFICES ASSUME Init
             PROVE  Mail!Init
  OBVIOUS
<1>1. \A r \in Proc : hasMessage[r] = FALSE /\ msgqueue[r] = <<>> /\ op[r] = None /\ msg[r] = None
  BY Zenon DEF Init
<1>2. Box = [r \in Proc |-> <<>>]
  BY ZenonT(40), <1>1, BoxAt, BoxEmpty
<1>3. Answer = [r \in Proc |-> None]
  BY Zenon, <1>1 DEF Answer
<1> QED  BY Zenon, <1>2, <1>3 DEF Mail!Init

\* Where no program mixes send() and recvnow(), the calls implement mailboxes:
\* recv() and recvnow() return the messages that send() and sendnow() have put
\* into the mailbox, each once and in that order, for any number of processes
\* and messages and wherever the processes are preempted.
THEOREM ImplementsMailboxHolds ==
  ASSUME NotMixed
  PROVE  Spec => ImplementsMailbox
<1>1. Spec => []BoxInv
  BY Zenon, BoxInit, BoxStep, PTL DEF Spec
<1>2. Spec => Mail!Init /\ [][Mail!Next]_(Mail!mailvars)
  BY Zenon, <1>1, MailInit, MailStep, PTL DEF Spec
<1> QED  BY Zenon, <1>2 DEF ImplementsMailbox, Mail!Spec
=============================================================================
