----------------------------- MODULE QueueSpec ------------------------------
(***************************************************************************)
(* What the process queues of system/queue.c promise: FIFO lists of        *)
(* processes from which a process can also be removed at any place.        *)
(***************************************************************************)
EXTENDS Integers, Sequences

CONSTANTS Proc, Queue, Core, None, EMPTY

VARIABLES content,  \* content[q]: the processes in queue q, first to last
          answer    \* answer[c]: what the dequeue() of core c is returning

specvars == <<content, answer>>

Init ==
  /\ content = [q \in Queue |-> <<>>]
  /\ answer = [c \in Core |-> None]

In(p, q) == \E i \in 1 .. Len(content[q]) : content[q][i] = p

Queued(p) == \E q \in Queue : In(p, q)

Enqueue(p, q) ==
  /\ ~Queued(p)
  /\ content' = [content EXCEPT ![q] = Append(@, p)]
  /\ UNCHANGED answer

Dequeue(c, q) ==
  /\ answer[c] = None /\ content[q] # <<>>
  /\ answer' = [answer EXCEPT ![c] = Head(content[q])]
  /\ content' = [content EXCEPT ![q] = Tail(@)]

DequeueEmpty(c, q) ==
  /\ answer[c] = None /\ content[q] = <<>>
  /\ answer' = [answer EXCEPT ![c] = EMPTY]
  /\ UNCHANGED content

Return(c) ==
  /\ answer[c] # None
  /\ answer' = [answer EXCEPT ![c] = None]
  /\ UNCHANGED content

\* The sequence s with the entry p taken out of it
Without(s, p) ==
  LET k == CHOOSE i \in 1 .. Len(s) : s[i] = p
  IN  SubSeq(s, 1, k - 1) \o SubSeq(s, k + 1, Len(s))

Take(p, q) ==
  /\ In(p, q)
  /\ content' = [content EXCEPT ![q] = Without(@, p)]
  /\ UNCHANGED answer

Next ==
  \/ \E p \in Proc, q \in Queue : Enqueue(p, q) \/ Take(p, q)
  \/ \E c \in Core : Return(c) \/ \E q \in Queue : Dequeue(c, q) \/ DequeueEmpty(c, q)

Spec == Init /\ [][Next]_specvars
=============================================================================
