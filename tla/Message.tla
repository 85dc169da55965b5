------------------------------ MODULE Message -------------------------------
(***************************************************************************)
(* Message passing: send(), recv(), sendnow() and recvnow().               *)
(*                                                                         *)
(* None of the four disables interrupts.  They work under core_com_lock of *)
(* the receiver, but resched() and ready() are called after its release,   *)
(* so a wake-up races with the step that blocks.  The steps of a call are  *)
(* the stretches between these points; a process whose interrupts are      *)
(* enabled can lose its core between any two of them.                      *)
(*                                                                         *)
(* core_com_lock is an abstract lock (LockSpec) and the ready lists of a   *)
(* core are the set of its processes that wait for it (Sched: each of them *)
(* comes to run).  running[c] = None: the core runs its null process.      *)
(***************************************************************************)
EXTENDS Naturals, Sequences

CONSTANTS Core, Proc, CoreOf,
          Masked,     \* processes that run with interrupts disabled
          Free,       \* slots of proctab that hold no process
          OpSets,     \* programs: the sets of calls that processes make
          MaxSent,    \* bound: messages each process sends
          None

ASSUME MessageAssumption ==
  /\ CoreOf \in [Proc -> Core]
  /\ Masked \subseteq Proc /\ Free \subseteq Proc
  /\ OpSets \subseteq SUBSET {"send", "sendnow", "recv", "recvnow"}
  /\ MaxSent \in Nat
  /\ None \notin Proc \cup Core

\* The n-th message of process p.
Msg == Proc \X (1 .. MaxSent)

VARIABLES state, hasMessage, msgin, msgout, msgqueue,  \* proctab[]
          holder,    \* holder[r]: the process inside core_com_lock of r
          running,   \* running[c]: the process core c executes
          readyset,  \* processes in the ready lists
          pc, op,    \* the call each process is in, and its next step
          peer,      \* send: the receiver; recv: the sender to wake
          msg,       \* the message sent, or received and not yet returned
          nsent,     \* number of messages sent
          Ops        \* the program: the calls processes make

mailvars == <<hasMessage, msgin, msgout, msgqueue>>
callvars == <<op, peer, msg, nsent, Ops>>
schedvars == <<state, running, readyset>>
vars == <<mailvars, callvars, schedvars, holder, pc>>

Live == Proc \ Free
Sending(p) == op[p] \in {"send", "sendnow"}

\* Whose core_com_lock the call of p takes.
LockOf(p) == IF Sending(p) THEN peer[p] ELSE p

At(p, label) == running[CoreOf[p]] = p /\ pc[p] = label
Goto(p, label) == pc' = [pc EXCEPT ![p] = label]

Init ==
  /\ state = [p \in Proc |-> IF p \in Free THEN "PRFREE" ELSE "PRREADY"]
  /\ hasMessage = [p \in Proc |-> FALSE]
  /\ msgin = [p \in Proc |-> None]
  /\ msgout = [p \in Proc |-> None]
  /\ msgqueue = [p \in Proc |-> <<>>]
  /\ holder = [p \in Proc |-> None]
  /\ running = [c \in Core |-> None]
  /\ readyset = Live
  /\ pc = [p \in Proc |-> "out"]
  /\ op = [p \in Proc |-> None]
  /\ peer = [p \in Proc |-> None]
  /\ msg = [p \in Proc |-> None]
  /\ nsent = [p \in Proc |-> 0]
  /\ Ops \in OpSets

-----------------------------------------------------------------------------
(* Scheduling *)

\* resched() on core c, entered with process states st and ready set rs.
Resched(c, st, rs) ==
  LET old == running[c]
      back == old # None /\ st[old] = "PRCURR"
      st1 == IF back THEN [st EXCEPT ![old] = "PRREADY"] ELSE st
      rs1 == IF back THEN rs \cup {old} ELSE rs
  IN  \E new \in {p \in rs1 : CoreOf[p] = c} \cup {None} :
        /\ running' = [running EXCEPT ![c] = new]
        /\ readyset' = rs1 \ {new}
        /\ state' = IF new = None THEN st1 ELSE [st1 EXCEPT ![new] = "PRCURR"]

\* ready(p, resch, its affinity), called on core c.
ready(c, p, resch) ==
  LET st == [state EXCEPT ![p] = "PRREADY"]
      rs == readyset \cup {p}
  IN  IF resch /\ CoreOf[p] = c THEN Resched(c, st, rs)
      ELSE state' = st /\ readyset' = rs /\ UNCHANGED running

\* resched() called by the null process in its loop or by a process between
\* two calls; and resched() called by the clock handler.
Yield(c) ==
  /\ running[c] # None => pc[running[c]] = "out"
  /\ Resched(c, state, readyset)
  /\ UNCHANGED <<mailvars, callvars, holder, pc>>

Preempt(c) ==
  /\ running[c] # None /\ running[c] \notin Masked
  /\ Resched(c, state, readyset)
  /\ UNCHANGED <<mailvars, callvars, holder, pc>>

-----------------------------------------------------------------------------
(* The calls *)

\* send() and sendnow() of the next message to r.
CallSend(p, o, r) ==
  /\ At(p, "out") /\ o \in Ops \cap {"send", "sendnow"}
  /\ nsent[p] < MaxSent /\ r # p
  /\ op' = [op EXCEPT ![p] = o]
  /\ peer' = [peer EXCEPT ![p] = r]
  /\ nsent' = [nsent EXCEPT ![p] = @ + 1]
  /\ msg' = [msg EXCEPT ![p] = <<p, nsent[p] + 1>>]
  /\ Goto(p, "acquire")
  /\ UNCHANGED <<mailvars, schedvars, holder, Ops>>

CallRecv(p, o) ==
  /\ At(p, "out") /\ o \in Ops \cap {"recv", "recvnow"}
  /\ op' = [op EXCEPT ![p] = o]
  /\ Goto(p, "acquire")
  /\ UNCHANGED <<mailvars, schedvars, holder, peer, msg, nsent, Ops>>

\* lock_acquire(core_com_lock), at the start and in recv() after the wait.
Acquire(p, from, to) ==
  /\ At(p, from) /\ holder[LockOf(p)] = None
  /\ holder' = [holder EXCEPT ![LockOf(p)] = p]
  /\ Goto(p, to)
  /\ UNCHANGED <<mailvars, callvars, schedvars>>

AcquireFirst(p) == Acquire(p, "acquire", "body")
AcquireAgain(p) == Acquire(p, "reacquire", "collect")

\* Mutants: the receiver must have left its core already; no test at all.
NeedsWakeOffCore(r) == state[r] = "PRRECV" /\ running[CoreOf[r]] # r
NeedsWakeAlways(r) == TRUE

\* "if receiver waits"
NeedsWake(r) == state[r] = "PRRECV"

Deposit(p) ==
  /\ msgin' = [msgin EXCEPT ![peer[p]] = msg[p]]
  /\ hasMessage' = [hasMessage EXCEPT ![peer[p]] = TRUE]
  /\ Goto(p, IF NeedsWake(peer[p]) THEN "release ready" ELSE "release")
  /\ UNCHANGED <<msgout, msgqueue, callvars, schedvars, holder>>

\* send() under the lock: SYSERR, or block behind a message, or deposit.
SendBody(p) ==
  LET r == peer[p] IN
  /\ At(p, "body") /\ op[p] = "send"
  /\ \/ /\ state[r] = "PRFREE"
        /\ Goto(p, "release")
        /\ UNCHANGED <<mailvars, callvars, schedvars, holder>>
     \/ /\ state[r] # "PRFREE" /\ hasMessage[r]
        /\ msgout' = [msgout EXCEPT ![p] = msg[p]]
        /\ state' = [state EXCEPT ![p] = "PRSEND"]
        /\ msgqueue' = [msgqueue EXCEPT ![r] = Append(@, p)]
        /\ Goto(p, "release resched")
        /\ UNCHANGED <<hasMessage, msgin, callvars, running, readyset, holder>>
     \/ state[r] # "PRFREE" /\ ~hasMessage[r] /\ Deposit(p)

\* sendnow() under the lock: SYSERR, or deposit.
SendnowBody(p) ==
  LET r == peer[p] IN
  /\ At(p, "body") /\ op[p] = "sendnow"
  /\ \/ /\ state[r] = "PRFREE" \/ hasMessage[r]
        /\ Goto(p, "release")
        /\ UNCHANGED <<mailvars, callvars, schedvars, holder>>
     \/ state[r] # "PRFREE" /\ ~hasMessage[r] /\ Deposit(p)

\* recv() under the lock: block without a message, else collect it.
RecvBody(p) ==
  /\ At(p, "body") /\ op[p] = "recv"
  /\ IF hasMessage[p]
       THEN Goto(p, "collect") /\ UNCHANGED state
       ELSE /\ state' = [state EXCEPT ![p] = "PRRECV"]
            /\ Goto(p, "release resched")
  /\ UNCHANGED <<mailvars, callvars, running, readyset, holder>>

\* The message a blocked sender has left
QueuedMessage(senderpid) == msgout[senderpid]

\* Mutant: the flag is reset although a queued message takes the place.
CollectAlwaysResets(p) ==
  /\ At(p, "collect")
  /\ msg' = [msg EXCEPT ![p] = msgin[p]]
  /\ hasMessage' = [hasMessage EXCEPT ![p] = FALSE]
  /\ IF msgqueue[p] # <<>>
       THEN LET senderpid == Head(msgqueue[p]) IN
            /\ msgqueue' = [msgqueue EXCEPT ![p] = Tail(@)]
            /\ msgin' = [msgin EXCEPT ![p] = QueuedMessage(senderpid)]
            /\ msgout' = [msgout EXCEPT ![senderpid] = None]
            /\ peer' = [peer EXCEPT ![p] = senderpid]
            /\ Goto(p, "release ready")
       ELSE /\ Goto(p, "release")
            /\ UNCHANGED <<msgin, msgout, msgqueue, peer>>
  /\ UNCHANGED <<op, nsent, Ops, schedvars, holder>>

\* recv() takes msgin; the first waiting sender's message replaces it.
Collect(p) ==
  /\ At(p, "collect")
  /\ msg' = [msg EXCEPT ![p] = msgin[p]]
  /\ IF msgqueue[p] # <<>>
       THEN LET senderpid == Head(msgqueue[p]) IN
            /\ msgqueue' = [msgqueue EXCEPT ![p] = Tail(@)]
            /\ msgin' = [msgin EXCEPT ![p] = QueuedMessage(senderpid)]
            /\ msgout' = [msgout EXCEPT ![senderpid] = None]
            /\ peer' = [peer EXCEPT ![p] = senderpid]
            /\ Goto(p, "release ready")
            /\ UNCHANGED hasMessage
       ELSE /\ hasMessage' = [hasMessage EXCEPT ![p] = FALSE]
            /\ Goto(p, "release")
            /\ UNCHANGED <<msgin, msgout, msgqueue, peer>>
  /\ UNCHANGED <<op, nsent, Ops, schedvars, holder>>

\* recvnow() under the lock: SYSERR, or the message; the queue is not read.
RecvnowBody(p) ==
  /\ At(p, "body") /\ op[p] = "recvnow"
  /\ IF hasMessage[p]
       THEN /\ msg' = [msg EXCEPT ![p] = msgin[p]]
            /\ hasMessage' = [hasMessage EXCEPT ![p] = FALSE]
       ELSE UNCHANGED <<msg, hasMessage>>
  /\ Goto(p, "release")
  /\ UNCHANGED <<msgin, msgout, msgqueue, op, peer, nsent, Ops, schedvars, holder>>

\* lock_release(core_com_lock); what is left of the call comes after it.
AfterRelease == [l \in {"release", "release ready", "release resched"} |->
                   CASE l = "release" -> "return"
                     [] l = "release ready" -> "ready"
                     [] l = "release resched" -> "resched"]

Release(p) ==
  /\ pc[p] \in DOMAIN AfterRelease /\ At(p, pc[p])
  /\ holder' = [holder EXCEPT ![LockOf(p)] = None]
  /\ Goto(p, AfterRelease[pc[p]])
  /\ UNCHANGED <<mailvars, callvars, schedvars>>

\* Mutant: the caller readies itself.
PeerSelf(p) == p

\* The process that the call wakes: the receiver, or the sender dequeued.
Peer(p) == peer[p]

\* ready(pid, RESCHED_YES) in send(), RESCHED_NO in sendnow() and recv().
Ready(p) ==
  /\ At(p, "ready")
  /\ ready(CoreOf[p], Peer(p), op[p] = "send")
  /\ Goto(p, "return")
  /\ UNCHANGED <<mailvars, callvars, holder>>

\* resched() of a process that has marked itself PRSEND or PRRECV.
Block(p) ==
  /\ At(p, "resched")
  /\ Resched(CoreOf[p], state, readyset)
  /\ Goto(p, IF op[p] = "recv" THEN "reacquire" ELSE "return")
  /\ UNCHANGED <<mailvars, callvars, holder>>

Return(p) ==
  /\ At(p, "return")
  /\ op' = [op EXCEPT ![p] = None]
  /\ peer' = [peer EXCEPT ![p] = None]
  /\ msg' = [msg EXCEPT ![p] = None]
  /\ Goto(p, "out")
  /\ UNCHANGED <<mailvars, schedvars, holder, nsent, Ops>>

Spin(p) == AcquireFirst(p) \/ AcquireAgain(p)

Step(p) ==
  \/ Release(p) \/ SendBody(p) \/ SendnowBody(p) \/ RecvBody(p) \/ Collect(p) \/ RecvnowBody(p)
  \/ Ready(p) \/ Block(p) \/ Return(p)

Call(p) ==
  \E o \in Ops : CallRecv(p, o) \/ \E r \in Proc : CallSend(p, o, r)

Next ==
  \/ \E p \in Proc : Spin(p) \/ Step(p) \/ Call(p)
  \/ \E c \in Core : Yield(c) \/ Preempt(c)

Spec == Init /\ [][Next]_vars

\* A process in the ready lists comes to run (NoStarvation of module Sched),
\* and when it runs it goes on with its call; only a spinning process may
\* lose the race for the lock for ever.
Dispatch(p) == (Yield(CoreOf[p]) \/ Preempt(CoreOf[p])) /\ running'[CoreOf[p]] = p

FairSpec ==
  Spec /\ \A p \in Live : WF_vars(Spin(p)) /\ SF_vars(Step(p)) /\ SF_vars(Dispatch(p))

-----------------------------------------------------------------------------
(* Properties *)

Label == {"out", "acquire", "body", "collect", "reacquire", "release", "release ready",
          "release resched", "ready", "resched", "return"}

TypeOK ==
  /\ state \in [Proc -> {"PRFREE", "PRCURR", "PRREADY", "PRRECV", "PRSEND"}]
  /\ hasMessage \in [Proc -> BOOLEAN]
  /\ msgin \in [Proc -> Msg \cup {None}]
  /\ msgout \in [Proc -> Msg \cup {None}]
  /\ msgqueue \in [Proc -> Seq(Proc)]
  /\ holder \in [Proc -> Proc \cup {None}]
  /\ running \in [Core -> Proc \cup {None}]
  /\ readyset \in SUBSET Proc
  /\ pc \in [Proc -> Label]
  /\ op \in [Proc -> {"send", "sendnow", "recv", "recvnow", None}]
  /\ peer \in [Proc -> Proc \cup {None}]
  /\ msg \in [Proc -> Msg \cup {None}]
  /\ nsent \in [Proc -> 0 .. MaxSent]
  /\ Ops \in OpSets

\* Somebody is past the lock and about to ready p.
WakePending(p) ==
  \E q \in Proc : pc[q] \in {"release ready", "ready"} /\ peer[q] = p

\* No wake-up is lost and none comes twice.  When a receiver that has left
\* its core for want of a message has one, the process that deposited it is
\* about to ready it; and a process about to be readied waits in recv() or
\* send(), is in no ready list and is readied by one process only, so ready()
\* never enqueues it twice.
WakeupsExact ==
  /\ TypeOK
  /\ \A p \in Live : state[p] = "PRRECV" /\ hasMessage[p] => WakePending(p)
  /\ \A p, q \in Proc :
       pc[q] \in {"release ready", "ready"} /\ peer[q] = p =>
         /\ p \notin readyset
         /\ state[p] \in {"PRRECV", "PRSEND"}
         /\ \A s \in Proc : pc[s] \in {"release ready", "ready"} /\ peer[s] = p => s = q

\* A process that blocks in send() is in the queue of a receiver that has a
\* message, so that recv() will come to it, or is about to be readied.
SenderNotStranded ==
  \A p \in Live :
    state[p] = "PRSEND" =>
      \/ \E r \in Proc : hasMessage[r] /\ \E i \in 1 .. Len(msgqueue[r]) : msgqueue[r][i] = p
      \/ WakePending(p)

\* recv() does not wait while senders wait to give it a message: it has
\* "check[ed] for waiting send processes" (recv.c).
RecvServesSenders ==
  \A p \in Live : state[p] = "PRRECV" /\ ~hasMessage[p] => msgqueue[p] = <<>>

\* "if receiver waits, start it" (send.c, and sendnow.c): once a process has
\* called send() to one that waits in recv(), the receiver is started.
ReceiverStarted ==
  \A p, r \in Live :
    (state[r] = "PRRECV" /\ pc[p] = "acquire" /\ Sending(p) /\ peer[p] = r)
      ~> (state[r] # "PRRECV")

\* The messages accepted for r, in the order recv() will return them.
Box == [r \in Proc |->
          (IF hasMessage[r] THEN <<msgin[r]>> ELSE <<>>)
            \o [i \in 1 .. Len(msgqueue[r]) |-> msgout[msgqueue[r][i]]]]

Answer == [r \in Proc |-> IF Sending(r) THEN None ELSE msg[r]]

Mail == INSTANCE MailboxSpec
          WITH Message <- Msg, NoMessage <- None, box <- Box, answer <- Answer

\* The calls implement mailboxes: what send() and sendnow() have put into a
\* mailbox is received, each message once and in that order, whatever the
\* interleaving of senders and receivers.
ImplementsMailbox == Mail!Spec
=============================================================================
