---------------------------- MODULE QueueProofs -----------------------------
(***************************************************************************)
(* What the linked queues of queue.c guarantee, for any number of cores,   *)
(* processes and queues.  The inductive invariant is QInv: the steps of    *)
(* the cores keep it (QStep), it implies the links both ways (QInvLinked), *)
(* and under it every step is one of the FIFO queues (FifoStep).           *)
(***************************************************************************)
EXTENDS Queue, FiniteSetTheorems, TLAPS

\* Node i of queue q when it holds the sequence s: the head, the processes,
\* the tail.
Node(s, q, i) ==
  IF i = 0 THEN queuehead(q) ELSE IF i = Len(s) + 1 THEN queuetail(q) ELSE s[i]

\* No process is at two places.
Apart(ct) ==
  \A q, r \in Queues : \A i \in 1 .. Len(ct[q]), j \in 1 .. Len(ct[r]) :
    ct[q][i] = ct[r][j] => q = r /\ i = j

\* The process p is at no place.
Absent(ct, p) == \A q \in Queues : \A i \in 1 .. Len(ct[q]) : ct[q][i] # p

\* The next links lead through all nodes of every queue, in every state.
NextOK(ct, nx) ==
  \A q \in Queues : \A i \in 0 .. Len(ct[q]) :
    nx[Node(ct[q], q, i)] = Node(ct[q], q, i + 1)

\* The first prev link of a head and the last next link of a tail.
EndsOK(nx, pv) ==
  \A q \in Queues : nx[queuetail(q)] = EMPTY /\ pv[queuehead(q)] = EMPTY

\* Labels at which a core is inside the lock of its queue.
Inside == {"elink", "efwd", "eback", "dfirst", "dfwd", "dback", "dself",
           "rfwd", "rback", "unlock", "unlockpid", "unlockempty"}

\* Labels of the calls that only the home core makes.
AtHome == {"dlock", "dfirst", "dfwd", "dback", "dself", "unlockpid", "unlockempty",
           "rlock", "rfwd", "rback"}

\* Labels at which the process of the call is in no queue.
Unqueued == {"elock", "elink", "efwd", "dback", "dself", "unlockpid", "rback"}

\* The holder of a lock is the one core inside it.
LockOK ==
  /\ \A q \in Queues : holder[q] # None => pc[holder[q]] \in Inside /\ que[holder[q]] = q
  /\ \A c \in Core : pc[c] \in Inside => holder[que[c]] = c

\* The process p was taken from between nodes i and i + 1 of queue q, and
\* still points to both.
Between(ct, nx, pv, p, q, i) ==
  nx[p] = Node(ct[q], q, i + 1) /\ pv[p] = Node(ct[q], q, i)

\* Core c is between its two writes and has still to correct the prev link
\* of node i + 1 of queue q.
Stale(c, q, i) ==
  /\ que[c] = q
  /\ \/ pc[c] = "eback" /\ i = Len(content[q])
     \/ pc[c] \in {"dback", "rback"} /\ Between(content, next, prev, pid[c], q, i)

\* Every other prev link is right.
PrevOK ==
  \A q \in Queues : \A i \in 0 .. Len(content[q]) :
    \/ prev[Node(content[q], q, i + 1)] = Node(content[q], q, i)
    \/ \E c \in Core : Stale(c, q, i)

\* The walk of remove() has come from place i of the process to node
\* i - steps of its queue.
Walking(c, q, i) ==
  /\ Home[q] = c /\ content[q][i] = pid[c]
  /\ steps[c] <= i /\ temp[c] = Node(content[q], q, i - steps[c])
  /\ pc[c] = "rwalk" => steps[c] < i
  /\ pc[c] = "rtest" => steps[c] > 0

\* Where core c is in its call.
CoreOK(c) ==
  /\ pc[c] # "rlost"
  /\ pc[c] \in Unqueued => Absent(content, pid[c])
  /\ pc[c] \in AtHome => Home[que[c]] = c
  /\ pc[c] = "efwd" => /\ next[pid[c]] = queuetail(que[c])
                       /\ prev[pid[c]] = prev[queuetail(que[c])]
  /\ pc[c] = "eback" => /\ Len(content[que[c]]) > 0
                        /\ content[que[c]][Len(content[que[c]])] = pid[c]
  /\ pc[c] = "unlock" => \A q \in Queues : \A i \in 1 .. Len(content[q]) :
                           content[q][i] = pid[c] => q = que[c]
  /\ sure[c] => pc[c] \in {"dlock", "dfirst", "dfwd", "dback", "dself", "unlockpid"}
  /\ sure[c] /\ pc[c] \in {"dlock", "dfirst"} => Len(content[que[c]]) > 0
  /\ pc[c] = "dfwd" => Len(content[que[c]]) > 0 /\ content[que[c]][1] = pid[c]
  /\ pc[c] \in {"dback", "rback"} => \E i \in 0 .. Len(content[que[c]]) :
                                       Between(content, next, prev, pid[c], que[c], i)
  /\ pc[c] \in {"rlock", "rfwd"} => \E i \in 1 .. Len(content[que[c]]) :
                                      content[que[c]][i] = pid[c]
  /\ pc[c] \in {"rwalk", "rtest"} => \E q \in Queues : \E i \in 1 .. Len(content[q]) :
                                       Walking(c, q, i)

\* Calls in progress are about different processes.
CallsApart ==
  \A c, d \in Core : Engaged(c) /\ Engaged(d) /\ pid[c] = pid[d] => c = d

\* The inductive invariant.
QInv ==
  /\ TypeOK /\ content \in [Queues -> Seq(Proc)]
  /\ Apart(content) /\ NextOK(content, next) /\ EndsOK(next, prev)
  /\ LockOK /\ PrevOK /\ CallsApart
  /\ \A c \in Core : CoreOK(c)

\* No queue is longer than the process table.
Bounded == \A q \in Queues : Len(content[q]) <= NPROC
-----------------------------------------------------------------------------
(* Nodes *)

\* The entries of queuetab: processes first, then a head and a tail for each
\* queue, all different.
LEMMA EntryFacts ==
  /\ NPROC \in Nat \ {0} /\ NQUEUE \in Nat \ {0} /\ NQENT \in Nat /\ NPROC < NQENT
  /\ \A p \in Proc : p \in Int /\ 0 <= p /\ p < NPROC /\ p \in Entry
  /\ \A q \in Queues :
       /\ q \in Int
       /\ queuehead(q) \in Entry /\ queuehead(q) >= NPROC
       /\ queuetail(q) \in Entry /\ queuetail(q) >= NPROC
       /\ \A r \in Queues : /\ queuehead(q) # queuetail(r)
                            /\ queuehead(q) = queuehead(r) => q = r
                            /\ queuetail(q) = queuetail(r) => q = r
BY QueueAssumption DEF Proc, Queues, Entry, NQENT, queuehead, queuetail

\* A node is an entry of the table; between head and tail, a process.
LEMMA NodeType ==
  ASSUME NEW s \in Seq(Proc), NEW q \in Queues
  PROVE  /\ Len(s) \in Nat
         /\ \A i \in 0 .. Len(s) + 1 : Node(s, q, i) \in Entry
         /\ \A i \in 1 .. Len(s) : s[i] \in Proc /\ Node(s, q, i) = s[i]
         /\ Node(s, q, 0) = queuehead(q) /\ Node(s, q, Len(s) + 1) = queuetail(q)
<1>1. Len(s) \in Nat /\ \A i \in 1 .. Len(s) : s[i] \in Proc
  OBVIOUS
<1> QED  BY <1>1, EntryFacts DEF Node

\* Different nodes are different entries.
LEMMA NodesApart ==
  ASSUME NEW ct \in [Queues -> Seq(Proc)], Apart(ct),
         NEW q \in Queues, NEW r \in Queues,
         NEW i \in 0 .. Len(ct[q]) + 1, NEW j \in 0 .. Len(ct[r]) + 1,
         Node(ct[q], q, i) = Node(ct[r], r, j)
  PROVE  q = r /\ i = j
<1>1. Len(ct[q]) \in Nat /\ Len(ct[r]) \in Nat
  OBVIOUS
<1>2. (i \in 1 .. Len(ct[q])) => ct[q][i] \in Proc /\ Node(ct[q], q, i) = ct[q][i]
  BY Zenon, NodeType
<1>3. (j \in 1 .. Len(ct[r])) => ct[r][j] \in Proc /\ Node(ct[r], r, j) = ct[r][j]
  BY Zenon, NodeType
<1>4. i = 0 \/ i = Len(ct[q]) + 1 \/ i \in 1 .. Len(ct[q])
  BY <1>1
<1>5. j = 0 \/ j = Len(ct[r]) + 1 \/ j \in 1 .. Len(ct[r])
  BY <1>1
<1>6. CASE i \in 1 .. Len(ct[q]) /\ j \in 1 .. Len(ct[r])
  BY <1>2, <1>3, <1>6 DEF Apart
<1>7. CASE i \notin 1 .. Len(ct[q]) \/ j \notin 1 .. Len(ct[r])
  <2>1. /\ i \notin 1 .. Len(ct[q]) => Node(ct[q], q, i) = IF i = 0 THEN queuehead(q) ELSE queuetail(q)
        /\ j \notin 1 .. Len(ct[r]) => Node(ct[r], r, j) = IF j = 0 THEN queuehead(r) ELSE queuetail(r)
    BY <1>1 DEF Node
  <2> QED  BY SMTT(30), <1>1, <1>2, <1>3, <1>7, <2>1, EntryFacts
<1> QED  BY Zenon, <1>6, <1>7

\* Only the last node of a queue is its tail.
LEMMA TailApart ==
  ASSUME NEW ct \in [Queues -> Seq(Proc)], Apart(ct), NEW q \in Queues, NEW r \in Queues,
         NEW i \in 0 .. Len(ct[q]) + 1, Node(ct[q], q, i) = queuetail(r)
  PROVE  q = r /\ i = Len(ct[r]) + 1
<1>1. PICK j \in 0 .. Len(ct[r]) + 1 : j = Len(ct[r]) + 1
  OBVIOUS
<1>2. Node(ct[r], r, j) = queuetail(r)
  BY Zenon, <1>1, NodeType
<1>3. Node(ct[q], q, i) = Node(ct[r], r, j)
  BY Zenon, <1>2
<1>4. q = r /\ i = j
  BY <1>3, NodesApart
<1> QED  BY Zenon, <1>1, <1>4

\* A process that is in no queue is no node.
LEMMA AbsentNode ==
  ASSUME NEW ct \in [Queues -> Seq(Proc)], NEW p \in Proc, Absent(ct, p),
         NEW q \in Queues, NEW i \in 0 .. Len(ct[q]) + 1
  PROVE  Node(ct[q], q, i) # p
<1>1. Len(ct[q]) \in Nat
  OBVIOUS
<1>2. CASE i \in 1 .. Len(ct[q])
  BY Zenon, <1>2, NodeType DEF Absent
<1>3. CASE i \notin 1 .. Len(ct[q])
  <2>1. Node(ct[q], q, i) = queuehead(q) \/ Node(ct[q], q, i) = queuetail(q)
    BY <1>1, <1>3 DEF Node
  <2> QED  BY <2>1, EntryFacts
<1> QED  BY Zenon, <1>2, <1>3

\* enqueue(): the new process comes after the others.
LEMMA AppendType ==
  ASSUME NEW s \in Seq(Proc), NEW p \in Proc,
         NEW t, t = Append(s, p)
  PROVE  /\ t \in Seq(Proc) /\ Len(t) = Len(s) + 1 /\ t[Len(t)] = p
         /\ \A i \in 1 .. Len(s) : t[i] = s[i]
<1>1. t \in Seq(Proc) /\ Len(t) = Len(s) + 1 /\ t[Len(t)] = p /\ Len(s) \in Nat
  OBVIOUS
<1>2. \A i \in 1 .. Len(s) : t[i] = s[i]
  OBVIOUS
<1> QED  BY Zenon, <1>1, <1>2

\* The type and the length of a concatenation.
LEMMA ConcatType ==
  ASSUME NEW S, NEW a \in Seq(S), NEW b \in Seq(S)
  PROVE  a \o b \in Seq(S) /\ Len(a \o b) = Len(a) + Len(b)
OBVIOUS

\* The first part of a concatenation.
LEMMA ConcatFirst ==
  ASSUME NEW S, NEW a \in Seq(S), NEW b \in Seq(S), NEW i \in 1 .. Len(a)
  PROVE  (a \o b)[i] = a[i]
OBVIOUS

\* The second part of a concatenation.
LEMMA ConcatSecond ==
  ASSUME NEW S, NEW a \in Seq(S), NEW b \in Seq(S), NEW i \in 1 .. Len(b)
  PROVE  (a \o b)[Len(a) + i] = b[i]
OBVIOUS

\* The places of a queue of n processes.
LEMMA Places ==
  ASSUME NEW n \in Nat, NEW i \in 0 .. n
  PROVE  i \in 0 .. n + 1 /\ i + 1 \in 0 .. n + 1
OBVIOUS

\* dequeue() and remove(): the nodes after the process move up by one.
LEMMA WithoutNode ==
  ASSUME NEW s \in Seq(Proc), NEW q \in Queues, NEW p \in Proc,
         NEW k \in 1 .. Len(s), s[k] = p, \A i \in 1 .. Len(s) : s[i] = p => i = k,
         NEW t, t = Without(s, p)
  PROVE  /\ t \in Seq(Proc) /\ Len(t) = Len(s) - 1
         /\ \A i \in 1 .. Len(t) : t[i] = (IF i < k THEN s[i] ELSE s[i + 1])
         /\ \A i \in 0 .. Len(t) + 1 :
              Node(t, q, i) = (IF i < k THEN Node(s, q, i) ELSE Node(s, q, i + 1))
         /\ k = 1 => t = Tail(s)
<1>1. (CHOOSE i \in 1 .. Len(s) : s[i] = p) = k
  OBVIOUS
<1>2. Len(s) \in Nat /\ k \in Int
  OBVIOUS
<1> DEFINE a == SubSeq(s, 1, k - 1)
           b == SubSeq(s, k + 1, Len(s))
<1>3. a \in Seq(Proc) /\ Len(a) = k - 1 /\ \A i \in 1 .. k - 1 : a[i] = s[i]
  BY <1>2
<1>4. b \in Seq(Proc) /\ Len(b) = Len(s) - k /\ \A i \in 1 .. Len(s) - k : b[i] = s[i + k]
  BY <1>2
<1>5. t = a \o b
  BY Zenon, <1>1 DEF Without
<1> HIDE DEF a, b
<1>6. t \in Seq(Proc) /\ Len(t) = Len(s) - 1
  <2>1. a \o b \in Seq(Proc) /\ Len(a \o b) = Len(a) + Len(b)
    BY Zenon, <1>3, <1>4, ConcatType
  <2> QED  BY <1>2, <1>3, <1>4, <1>5, <2>1
<1>c. /\ \A i \in 1 .. Len(a) : t[i] = a[i]
      /\ \A i \in 1 .. Len(b) : t[Len(a) + i] = b[i]
  <2>1. a \in Seq(Proc) /\ b \in Seq(Proc)
    BY Zenon, <1>3, <1>4
  <2>2. \A i \in 1 .. Len(a) : (a \o b)[i] = a[i]
    BY Zenon, <2>1, ConcatFirst
  <2>3. \A i \in 1 .. Len(b) : (a \o b)[Len(a) + i] = b[i]
    BY Zenon, <2>1, ConcatSecond
  <2> QED  BY Zenon, <1>5, <2>2, <2>3
<1>7. ASSUME NEW i \in 1 .. Len(t)
      PROVE  t[i] = (IF i < k THEN s[i] ELSE s[i + 1])
  <2>1. CASE i < k
    <3>1. i \in 1 .. Len(a) /\ i \in 1 .. k - 1
      BY <1>2, <1>3, <1>6, <2>1
    <3> QED  BY Zenon, <1>3, <1>c, <2>1, <3>1
  <2>2. CASE ~(i < k)
    <3>1. (i - k) + 1 \in 1 .. Len(s) - k /\ ((i - k) + 1) + k = i + 1
      BY <1>2, <1>6, <2>2
    <3>2. Len(a) + ((i - k) + 1) = i
      BY <1>2, <1>3, <1>6
    <3>3. t[i] = b[(i - k) + 1]
      BY Zenon, <1>4, <1>c, <3>1, <3>2
    <3> QED  BY Zenon, <1>4, <2>2, <3>1, <3>3
  <2> QED  BY Zenon, <2>1, <2>2
<1>8. \A i \in 0 .. Len(t) + 1 :
        Node(t, q, i) = (IF i < k THEN Node(s, q, i) ELSE Node(s, q, i + 1))
  <2> SUFFICES ASSUME NEW i \in 0 .. Len(t) + 1
               PROVE  Node(t, q, i) = (IF i < k THEN Node(s, q, i) ELSE Node(s, q, i + 1))
    OBVIOUS
  <2>1. CASE i = 0
    BY <1>2, <2>1 DEF Node
  <2>2. CASE i = Len(t) + 1
    BY <1>2, <1>6, <2>2 DEF Node
  <2>3. CASE i \in 1 .. Len(t)
    BY <1>2, <1>6, <1>7, <2>3 DEF Node
  <2> QED  BY <1>2, <1>6, <2>1, <2>2, <2>3
<1>9. k = 1 => t = Tail(s)
  BY <1>2, <1>6, <1>7
<1> QED  BY Zenon, <1>6, <1>7, <1>8, <1>9
-----------------------------------------------------------------------------
(* Steps that change no link *)

\* Only core c acts.
OthersKept(c) ==
  \A d \in Core : d # c =>
    /\ pc'[d] = pc[d] /\ pid'[d] = pid[d] /\ que'[d] = que[d]
    /\ temp'[d] = temp[d] /\ steps'[d] = steps[d] /\ sure'[d] = sure[d]

\* Two cores are not inside the lock of one queue.
LEMMA LockApart ==
  ASSUME LockOK, NEW c \in Core, NEW d \in Core,
         pc[c] \in Inside, pc[d] \in Inside, que[c] = que[d]
  PROVE  c = d
BY Zenon DEF LockOK

\* A core that is inside the lock and has corrected all links finds all
\* prev links right.
LEMMA PrevFull ==
  ASSUME QInv, NEW c \in Core, NEW q \in Queues, que[c] = q,
         pc[c] \in Inside, pc[c] \notin {"eback", "dback", "rback"},
         NEW i \in 0 .. Len(content[q])
  PROVE  prev[Node(content[q], q, i + 1)] = Node(content[q], q, i)
<1>1. ASSUME NEW d \in Core, Stale(d, q, i)
      PROVE  FALSE
  <2>1. que[d] = q /\ pc[d] \in {"eback", "dback", "rback"}
    BY Zenon, <1>1 DEF Stale
  <2>2. pc[d] \in Inside
    BY Zenon, <2>1 DEF Inside
  <2> QED  BY Zenon, <2>1, <2>2, LockApart DEF QInv
<1> QED  BY Zenon, <1>1 DEF QInv, PrevOK

\* What is said of a core does not change when neither its variables nor the
\* queues do.
LEMMA CoreStays ==
  ASSUME NEW d \in Core, CoreOK(d), UNCHANGED <<next, prev, content>>,
         pc'[d] = pc[d], pid'[d] = pid[d], que'[d] = que[d],
         temp'[d] = temp[d], steps'[d] = steps[d], sure'[d] = sure[d]
  PROVE  CoreOK(d)'
BY DEF CoreOK, Walking

\* A step that writes no link and changes no queue keeps the invariant when it
\* keeps what is said of the locks, of the calls and of its own core.
LEMMA QuietStep ==
  ASSUME QInv, NEW c \in Core, UNCHANGED <<next, prev, content>>, OthersKept(c),
         pc[c] \notin {"eback", "dback", "rback"},
         TypeOK', LockOK', CallsApart', CoreOK(c)'
  PROVE  QInv'
<1>1. \A d \in Core : CoreOK(d)'
  <2> SUFFICES ASSUME NEW d \in Core, d # c
               PROVE  CoreOK(d)'
    OBVIOUS
  <2> QED  BY Zenon, CoreStays DEF QInv, OthersKept
<1>2. PrevOK'
  <2> SUFFICES ASSUME NEW q \in Queues, NEW i \in 0 .. Len(content[q]),
                      prev[Node(content[q], q, i + 1)] # Node(content[q], q, i)
               PROVE  \E d \in Core : Stale(d, q, i)'
    BY Zenon DEF PrevOK
  <2>1. PICK d \in Core : Stale(d, q, i)
    BY Zenon DEF QInv, PrevOK
  <2>2. d # c
    BY Zenon, <2>1 DEF Stale
  <2>3. Stale(d, q, i)'
    BY Zenon, <2>1, <2>2 DEF Stale, OthersKept
  <2> QED  BY Zenon, <2>3
<1>3. Apart(content') /\ NextOK(content', next') /\ EndsOK(next', prev')
      /\ content' \in [Queues -> Seq(Proc)]
  BY Zenon DEF QInv
<1> QED  BY Zenon, <1>1, <1>2, <1>3 DEF QInv

\* The calls remain about different processes.
LEMMA CallsStay ==
  ASSUME QInv, NEW c \in Core, OthersKept(c),
         \/ ~Engaged(c)'
         \/ Engaged(c) /\ pid'[c] = pid[c]
         \/ \A d \in Core : d # c /\ Engaged(d) => pid[d] # pid'[c]
  PROVE  CallsApart'
<1>1. \A d \in Core : d # c => (Engaged(d)' <=> Engaged(d))
  BY Zenon DEF OthersKept, Engaged
<1>2. \A d, e \in Core : Engaged(d) /\ Engaged(e) /\ pid[d] = pid[e] => d = e
  BY Zenon DEF QInv, CallsApart
<1> SUFFICES ASSUME NEW d \in Core, NEW e \in Core, Engaged(d)', Engaged(e)', pid'[d] = pid'[e], d # e
             PROVE  FALSE
  BY Zenon DEF CallsApart
<1>3. CASE d # c /\ e # c
  BY Zenon, <1>1, <1>2, <1>3 DEF OthersKept
<1>4. CASE d = c
  BY Zenon, <1>1, <1>2, <1>4 DEF OthersKept
<1>5. CASE e = c
  BY Zenon, <1>1, <1>2, <1>5 DEF OthersKept
<1> QED  BY Zenon, <1>3, <1>4, <1>5

\* The locks stay as they are when core c comes no nearer to them.
LEMMA LocksStay ==
  ASSUME QInv, NEW c \in Core, OthersKept(c), UNCHANGED holder,
         \/ pc[c] \notin Inside /\ pc'[c] \notin Inside
         \/ pc[c] \in Inside /\ pc'[c] \in Inside /\ que'[c] = que[c]
  PROVE  LockOK'
<1>1. LockOK /\ holder \in [Queues -> Core \cup {None}] /\ que \in [Core -> Queues]
  BY Zenon DEF QInv, TypeOK
<1>2. ASSUME NEW q \in Queues, holder[q] # None
      PROVE  pc'[holder[q]] \in Inside /\ que'[holder[q]] = q
  <2>1. holder[q] \in Core /\ pc[holder[q]] \in Inside /\ que[holder[q]] = q
    BY <1>1, <1>2 DEF LockOK
  <2>2. CASE holder[q] = c
    BY Zenon, <2>1, <2>2
  <2>3. CASE holder[q] # c
    BY Zenon, <2>1, <2>3 DEF OthersKept
  <2> QED  BY Zenon, <2>2, <2>3
<1>3. ASSUME NEW d \in Core, pc'[d] \in Inside
      PROVE  holder[que'[d]] = d
  BY <1>1, <1>3 DEF LockOK, OthersKept
<1> QED  BY Zenon, <1>2, <1>3 DEF LockOK

\* enqueue() is called: for a process in no queue.
LEMMA EnqueueCall ==
  ASSUME QInv, NEW c \in Core, NEW p \in Proc, NEW q \in Queues, enqueue(c, p, q)
  PROVE  QInv'
<1>1. TypeOK /\ CoreOK(c) /\ pc[c] = "out"
  BY Zenon DEF QInv, enqueue
<1>2. /\ pc'[c] = "elock" /\ pid'[c] = p /\ que'[c] = q /\ ~sure'[c]
      /\ OthersKept(c) /\ TypeOK' /\ UNCHANGED <<next, prev, holder, content>>
  BY Zenon, <1>1 DEF enqueue, Goto, OthersKept, TypeOK, Label, CoreOK
<1>3. Absent(content, p) /\ \A d \in Core : d # c /\ Engaged(d) => pid[d] # p
  BY Zenon DEF enqueue, InQueue, Busy, Absent
<1>4. CallsApart'
  BY Zenon, <1>2, <1>3, CallsStay
<1>5. LockOK'
  BY Zenon, <1>1, <1>2, LocksStay DEF Inside
<1>6. CoreOK(c)'
  BY Zenon, <1>2, <1>3 DEF CoreOK, Unqueued, AtHome
<1> QED  BY Zenon, <1>1, <1>2, <1>4, <1>5, <1>6, QuietStep

\* dequeue() is called, on the home core: after a true nonempty() there is a
\* process in the queue.
LEMMA DequeueCall ==
  ASSUME QInv, NEW c \in Core, NEW q \in Queues, NEW tested \in BOOLEAN,
         dequeue(c, q, tested)
  PROVE  QInv'
<1>1. TypeOK /\ CoreOK(c) /\ pc[c] = "out" /\ content \in [Queues -> Seq(Proc)]
  BY Zenon DEF QInv, dequeue
<1>2. /\ pc'[c] = "dlock" /\ que'[c] = q /\ sure'[c] = tested
      /\ OthersKept(c) /\ TypeOK' /\ UNCHANGED <<next, prev, holder, content>>
  BY Zenon, <1>1 DEF dequeue, Goto, OthersKept, TypeOK, Label
<1>3. Home[q] = c /\ (tested => Len(content[q]) > 0)
  <2>1. Home[q] = c /\ (tested => next[queuehead(q)] < NPROC)
    BY Zenon DEF dequeue, nonempty
  <2>2. next[Node(content[q], q, 0)] = Node(content[q], q, 1)
    BY <1>1 DEF QInv, NextOK
  <2>3. Len(content[q]) = 0 => next[queuehead(q)] = queuetail(q)
    BY <2>2 DEF Node
  <2>4. ~(queuetail(q) < NPROC)
    BY EntryFacts DEF Entry
  <2>5. Len(content[q]) \in Nat
    BY <1>1
  <2>6. ~tested \/ Len(content[q]) # 0
    BY Zenon, <2>1, <2>3, <2>4
  <2> QED  BY <2>1, <2>5, <2>6
<1>4. CallsApart'
  BY Zenon, <1>2, CallsStay DEF Engaged
<1>5. LockOK'
  BY Zenon, <1>1, <1>2, LocksStay DEF Inside
<1>6. CoreOK(c)'
  BY Zenon, <1>2, <1>3 DEF CoreOK, Unqueued, AtHome
<1> QED  BY Zenon, <1>1, <1>2, <1>4, <1>5, <1>6, QuietStep

\* remove() is called, on the home core of the queue the process is in.
LEMMA RemoveCall ==
  ASSUME QInv, NEW c \in Core, NEW p \in Proc, remove(c, p)
  PROVE  QInv'
<1>1. TypeOK /\ CoreOK(c) /\ pc[c] = "out" /\ content \in [Queues -> Seq(Proc)]
  BY Zenon DEF QInv, remove
<1>2. /\ pc'[c] = "rwalk" /\ pid'[c] = p /\ temp'[c] = p /\ steps'[c] = 0 /\ ~sure'[c]
      /\ OthersKept(c) /\ TypeOK' /\ UNCHANGED <<next, prev, holder, content>>
  BY <1>1, EntryFacts DEF remove, Goto, OthersKept, TypeOK, Label, CoreOK
<1>0. PICK q \in Queues : Home[q] = c /\ InQueue(p, q)
  BY Zenon DEF remove
<1>3. PICK i \in 1 .. Len(content[q]) : Home[q] = c /\ content[q][i] = p
  BY Zenon, <1>0 DEF InQueue
<1>4. \A d \in Core : d # c /\ Engaged(d) => pid[d] # p
  BY Zenon DEF remove, Busy
<1>5. CallsApart'
  BY Zenon, <1>2, <1>4, CallsStay
<1>6. LockOK'
  BY Zenon, <1>1, <1>2, LocksStay DEF Inside
<1>7. Walking(c, q, i)'
  <2>1. Node(content[q], q, i) = p /\ i \in Nat /\ i > 0
    BY <1>1, <1>3, NodeType
  <2> QED  BY <1>2, <1>3, <2>1 DEF Walking
<1>8. CoreOK(c)'
  BY Zenon, <1>2, <1>3, <1>7 DEF CoreOK, Unqueued, AtHome
<1> QED  BY Zenon, <1>1, <1>2, <1>5, <1>6, <1>8, QuietStep

\* A lock is acquired.
LEMMA LockStep ==
  ASSUME QInv, NEW c \in Core, EnqueueLock(c) \/ DequeueLock(c) \/ RemoveLock(c)
  PROVE  QInv'
<1>1. /\ TypeOK /\ CoreOK(c) /\ LockOK
      /\ que[c] \in Queues /\ holder[que[c]] = None
      /\ pc[c] \in {"elock", "dlock", "rlock"}
  BY Zenon DEF QInv, TypeOK, EnqueueLock, DequeueLock, RemoveLock, LockQueue
<1>2. /\ \/ pc[c] = "elock" /\ pc'[c] = "elink"
         \/ pc[c] = "dlock" /\ pc'[c] = "dfirst"
         \/ pc[c] = "rlock" /\ pc'[c] = "rfwd"
      /\ holder' = [holder EXCEPT ![que[c]] = c]
      /\ UNCHANGED <<next, prev, content, pid, que, temp, steps, sure>>
      /\ OthersKept(c) /\ TypeOK'
  BY <1>1 DEF EnqueueLock, DequeueLock, RemoveLock, LockQueue, Goto, OthersKept, TypeOK, Label
<1>3. CallsApart'
  BY Zenon, <1>2, CallsStay DEF Engaged
<1>4. LockOK'
  <2>1. ASSUME NEW q \in Queues, holder'[q] # None
        PROVE  pc'[holder'[q]] \in Inside /\ que'[holder'[q]] = q
    <3>1. CASE q = que[c]
      BY Zenon, <1>1, <1>2, <3>1 DEF TypeOK, Inside
    <3>2. CASE q # que[c]
      <4>1. holder'[q] = holder[q] /\ holder[q] \in Core
            /\ pc[holder[q]] \in Inside /\ que[holder[q]] = q
        BY <1>1, <1>2, <2>1, <3>2 DEF LockOK, TypeOK
      <4>2. holder[q] # c
        BY Zenon, <1>1, <4>1 DEF Inside
      <4> QED  BY Zenon, <1>2, <4>1, <4>2 DEF OthersKept
    <3> QED  BY Zenon, <3>1, <3>2
  <2>2. ASSUME NEW d \in Core, pc'[d] \in Inside
        PROVE  holder'[que'[d]] = d
    <3>1. CASE d = c
      BY Zenon, <1>1, <1>2, <3>1 DEF TypeOK
    <3>2. CASE d # c
      <4>1. pc[d] \in Inside /\ que'[d] = que[d] /\ que[d] \in Queues /\ holder[que[d]] = d
        BY ZenonT(60), <1>1, <1>2, <2>2, <3>2 DEF LockOK, OthersKept, TypeOK
      <4>2. que[d] # que[c]
        BY Zenon, <1>1, <4>1, QueueAssumption
      <4> QED  BY Zenon, <1>1, <1>2, <4>1, <4>2 DEF TypeOK
    <3> QED  BY Zenon, <3>1, <3>2
  <2> QED  BY Zenon, <2>1, <2>2 DEF LockOK
<1>5. CoreOK(c)'
  BY Zenon, <1>1, <1>2 DEF CoreOK, Unqueued, AtHome, Walking
<1> QED  BY Zenon, <1>1, <1>2, <1>3, <1>4, <1>5, QuietStep

\* A process in a queue whose home core is inside the lock is not the
\* subject of a call on another core.
LEMMA QueuedAlone ==
  ASSUME QInv, NEW c \in Core, NEW q \in Queues, pc[c] \in Inside, que[c] = q, Home[q] = c,
         NEW i \in 1 .. Len(content[q]), NEW d \in Core, d # c, Engaged(d)
  PROVE  pid[d] # content[q][i]
<1> SUFFICES ASSUME pid[d] = content[q][i]
             PROVE  FALSE
  OBVIOUS
<1>1. /\ CoreOK(d) /\ LockOK /\ Apart(content) /\ content \in [Queues -> Seq(Proc)]
      /\ que[d] \in Queues /\ pc[d] \in Label
  BY Zenon DEF QInv, TypeOK
<1>2. ~Absent(content, pid[d])
  BY Zenon DEF Absent
<1>3. pc[d] \notin Inside \/ que[d] # q
  BY Zenon, <1>1, LockApart
<1>4. \A j \in 1 .. Len(content[que[d]]) : content[que[d]][j] = pid[d] => que[d] = q
  BY <1>1 DEF Apart
<1>5. CASE pc[d] = "eback"
  <2>1. Len(content[que[d]]) \in 1 .. Len(content[que[d]])
        /\ content[que[d]][Len(content[que[d]])] = pid[d]
    BY <1>1, <1>5 DEF CoreOK
  <2> QED  BY Zenon, <1>3, <1>4, <1>5, <2>1 DEF Inside
<1>6. CASE pc[d] = "dfwd"
  <2>1. 1 \in 1 .. Len(content[que[d]]) /\ content[que[d]][1] = pid[d]
    BY <1>1, <1>6 DEF CoreOK
  <2> QED  BY Zenon, <1>3, <1>4, <1>6, <2>1 DEF Inside
<1>7. CASE pc[d] = "unlock"
  <2>1. q = que[d]
    BY Zenon, <1>1, <1>7 DEF CoreOK
  <2> QED  BY Zenon, <1>3, <1>7, <2>1 DEF Inside
<1>8. CASE pc[d] \in {"rlock", "rfwd"}
  <2>1. Home[que[d]] = d /\ \E j \in 1 .. Len(content[que[d]]) : content[que[d]][j] = pid[d]
    BY Zenon, <1>1, <1>8 DEF CoreOK, AtHome
  <2> QED  BY Zenon, <1>4, <2>1
<1>9. CASE pc[d] \in {"rwalk", "rtest"}
  <2>1. PICK r \in Queues : \E j \in 1 .. Len(content[r]) : Walking(d, r, j)
    BY Zenon, <1>1, <1>9 DEF CoreOK
  <2>2. PICK j \in 1 .. Len(content[r]) : Walking(d, r, j)
    BY Zenon, <2>1
  <2>3. Home[r] = d /\ content[r][j] = pid[d]
    BY Zenon, <2>2 DEF Walking
  <2> QED  BY <1>1, <2>3 DEF Apart
<1>10. CASE pc[d] \in Unqueued
  BY Zenon, <1>1, <1>2, <1>10 DEF CoreOK
<1> QED  BY Zenon, <1>1, <1>5, <1>6, <1>7, <1>8, <1>9, <1>10 DEF Label, Engaged, Unqueued, CoreOK

\* dequeue() reads the head: the first process, if there is one; there is
\* one if nonempty() said so.
LEMMA FirstStep ==
  ASSUME QInv, NEW c \in Core, DequeueFirst(c)
  PROVE  QInv'
<1>1. /\ TypeOK /\ CoreOK(c) /\ content \in [Queues -> Seq(Proc)]
      /\ pc[c] = "dfirst" /\ pc[c] \in Inside /\ que[c] \in Queues
  BY Zenon DEF QInv, DequeueFirst, TypeOK, Inside
<1> DEFINE q == que[c]
           first == next[queuehead(q)]
<1>2. Home[q] = c /\ Len(content[q]) \in Nat
  BY <1>1 DEF CoreOK, AtHome
<1>3. next[queuehead(q)] = Node(content[q], q, 1)
  <2>1. next[Node(content[q], q, 0)] = Node(content[q], q, 1)
    BY <1>1, <1>2 DEF QInv, NextOK
  <2> QED  BY Zenon, <2>1 DEF Node
<1>4. OthersKept(c) /\ UNCHANGED <<next, prev, holder, content, que, temp, steps, sure>>
  BY Zenon, <1>1 DEF DequeueFirst, Goto, OthersKept, TypeOK
<1>5. CASE Len(content[q]) > 0
  <2>1. /\ 1 \in 1 .. Len(content[q]) /\ first = content[q][1] /\ first \in Proc
        /\ first < NPROC
    BY <1>1, <1>2, <1>3, <1>5, NodeType, EntryFacts
  <2>2. pid' = [pid EXCEPT ![c] = first] /\ pc' = [pc EXCEPT ![c] = "dfwd"]
    BY Zenon, <2>1 DEF DequeueFirst, Goto
  <2>3. pc'[c] = "dfwd" /\ pid'[c] = content[q][1] /\ TypeOK'
    BY Zenon, <1>1, <1>4, <2>1, <2>2 DEF TypeOK, Label
  <2>4. \A d \in Core : d # c /\ Engaged(d) => pid[d] # pid'[c]
    BY Zenon, <1>1, <1>2, <2>1, <2>3, QueuedAlone
  <2>5. CallsApart' /\ LockOK'
    BY Zenon, <1>1, <1>4, <2>3, <2>4, CallsStay, LocksStay DEF Inside
  <2>6. CoreOK(c)'
    BY Zenon, <1>1, <1>2, <1>4, <1>5, <2>3 DEF CoreOK, Unqueued, AtHome
  <2> QED  BY Zenon, <1>1, <1>4, <2>3, <2>5, <2>6, QuietStep
<1>6. CASE Len(content[q]) = 0
  <2>1. ~(first < NPROC)
    BY <1>1, <1>3, <1>6, EntryFacts DEF Node, Entry
  <2>2. UNCHANGED pid /\ pc' = [pc EXCEPT ![c] = "unlockempty"]
    BY Zenon, <2>1 DEF DequeueFirst, Goto
  <2>3. pc'[c] = "unlockempty" /\ TypeOK'
    BY Zenon, <1>1, <1>4, <2>2 DEF TypeOK, Label
  <2>4. CallsApart' /\ LockOK'
    BY Zenon, <1>1, <1>4, <2>3, CallsStay, LocksStay DEF Inside, Engaged
  <2>5. CoreOK(c)'
    BY <1>1, <1>2, <1>4, <1>6, <2>3 DEF CoreOK, Unqueued, AtHome
  <2> QED  BY Zenon, <1>1, <1>4, <2>3, <2>4, <2>5, QuietStep
<1> QED  BY <1>2, <1>5, <1>6

\* The walk of remove() finds the prev link of its node right, whatever the
\* other cores enqueue: they write behind the process.
LEMMA WalkPrev ==
  ASSUME QInv, NEW c \in Core, pc[c] \in {"rwalk", "rtest"},
         NEW q \in Queues, NEW i \in 1 .. Len(content[q]), Home[q] = c,
         NEW j \in 0 .. i - 1
  PROVE  prev[Node(content[q], q, j + 1)] = Node(content[q], q, j)
<1>1. Len(content[q]) \in Nat /\ j \in 0 .. Len(content[q]) /\ j < Len(content[q])
  BY DEF QInv
<1>2. ASSUME NEW d \in Core, Stale(d, q, j)
      PROVE  FALSE
  <2>1. que[d] = q /\ pc[d] \in {"dback", "rback"}
    BY <1>1, <1>2 DEF Stale
  <2>2. Home[que[d]] = d
    BY Zenon, <2>1 DEF QInv, CoreOK, AtHome
  <2> QED  BY Zenon, <2>1, <2>2
<1> QED  BY Zenon, <1>1, <1>2 DEF QInv, PrevOK

\* remove(): the walk goes back one entry.
LEMMA WalkStep ==
  ASSUME QInv, Bounded, NEW c \in Core, RemoveWalk(c)
  PROVE  QInv'
<1>1. /\ TypeOK /\ CoreOK(c) /\ content \in [Queues -> Seq(Proc)] /\ pc[c] = "rwalk"
      /\ Apart(content)
  BY Zenon DEF QInv, RemoveWalk
<1>2. PICK q \in Queues : \E i \in 1 .. Len(content[q]) : Walking(c, q, i)
  BY Zenon, <1>1 DEF CoreOK
<1>3. PICK i \in 1 .. Len(content[q]) : Walking(c, q, i)
  BY Zenon, <1>2
<1> DEFINE j == (i - steps[c]) - 1
<1>4. /\ Home[q] = c /\ content[q][i] = pid[c] /\ steps[c] \in Nat /\ steps[c] < i
      /\ temp[c] = Node(content[q], q, i - steps[c])
  BY <1>1, <1>3 DEF Walking, TypeOK
<1>5. /\ Len(content[q]) \in Nat /\ Len(content[q]) <= NPROC /\ NPROC \in Nat /\ NQENT \in Nat
      /\ NPROC < NQENT
  BY <1>1, EntryFacts DEF Bounded
<1>6. j \in 0 .. i - 1 /\ j + 1 = i - steps[c] /\ j = i - (steps[c] + 1) /\ j \in 0 .. Len(content[q]) + 1
  <2>1. steps[c] \in Nat /\ steps[c] < i /\ Len(content[q]) \in Nat
    BY Zenon, <1>4, <1>5
  <2> QED  BY <2>1
<1> HIDE DEF j
<1>7. prev[temp[c]] = Node(content[q], q, j) /\ Node(content[q], q, j) \in Entry
  <2>1. prev[Node(content[q], q, j + 1)] = Node(content[q], q, j)
    BY Zenon, <1>1, <1>4, <1>6, WalkPrev
  <2> QED  BY Zenon, <1>1, <1>4, <1>6, <2>1, NodeType
<1>8. /\ pc'[c] = "rtest" /\ temp'[c] = Node(content[q], q, j) /\ steps'[c] = steps[c] + 1
      /\ OthersKept(c) /\ UNCHANGED <<next, prev, holder, pid, que, sure, content>>
  BY Zenon, <1>1, <1>7 DEF RemoveWalk, Goto, OthersKept, TypeOK
<1>9. TypeOK'
  <2>1. steps[c] + 1 \in 0 .. NQENT
    BY <1>4, <1>5
  <2> QED  BY Zenon, <1>1, <1>7, <1>8, <2>1 DEF RemoveWalk, Goto, TypeOK, Label
<1>10. CallsApart' /\ LockOK'
  BY Zenon, <1>1, <1>8, CallsStay, LocksStay DEF Inside, Engaged
<1>11. Walking(c, q, i)'
  BY <1>4, <1>6, <1>8 DEF Walking
<1>12. CoreOK(c)'
  BY Zenon, <1>1, <1>8, <1>11 DEF CoreOK, Unqueued, AtHome
<1> QED  BY Zenon, <1>1, <1>8, <1>9, <1>10, <1>12, QuietStep

\* remove(): the walk ends at the head, of the queue the process is in.
LEMMA TestStep ==
  ASSUME QInv, Bounded, NEW c \in Core, RemoveTest(c)
  PROVE  QInv'
<1>1. /\ TypeOK /\ CoreOK(c) /\ content \in [Queues -> Seq(Proc)] /\ pc[c] = "rtest"
      /\ Apart(content) /\ EndsOK(next, prev)
  BY Zenon DEF QInv, RemoveTest
<1>2. PICK q \in Queues : \E i \in 1 .. Len(content[q]) : Walking(c, q, i)
  BY Zenon, <1>1 DEF CoreOK
<1>3. PICK i \in 1 .. Len(content[q]) : Walking(c, q, i)
  BY Zenon, <1>2
<1>4. /\ Home[q] = c /\ content[q][i] = pid[c] /\ steps[c] \in Nat /\ steps[c] <= i
      /\ temp[c] = Node(content[q], q, i - steps[c]) /\ i \in Nat
  BY <1>1, <1>3 DEF Walking, TypeOK
<1>5. /\ Len(content[q]) \in Nat /\ Len(content[q]) <= NPROC /\ NPROC \in Nat /\ NQENT \in Nat
      /\ NPROC < NQENT
  BY <1>1, EntryFacts DEF Bounded
<1>6. steps[c] < NQENT
  BY <1>4, <1>5
<1>7. /\ OthersKept(c) /\ UNCHANGED <<next, prev, holder, pid, temp, steps, sure, content>>
  BY Zenon, <1>1 DEF RemoveTest, Goto, OthersKept, TypeOK
<1>8. CASE steps[c] = i
  <2>1. temp[c] = queuehead(q) /\ prev[temp[c]] = EMPTY
    BY <1>1, <1>4, <1>8 DEF Node, EndsOK
  <2>2. QueueOfHead(temp[c]) = q
    <3>1. q \in Int /\ NPROC \in Int
      BY EntryFacts
    <3> QED  BY <2>1, <3>1 DEF QueueOfHead, queuehead
  <2>3. /\ pc' = [pc EXCEPT ![c] = "rlock"] /\ que' = [que EXCEPT ![c] = q]
    BY Zenon, <1>6, <2>1, <2>2 DEF RemoveTest, Goto
  <2>4. pc'[c] = "rlock" /\ que'[c] = q /\ TypeOK'
    BY Zenon, <1>1, <1>7, <2>3 DEF TypeOK, Label
  <2>5. CallsApart' /\ LockOK'
    BY Zenon, <1>1, <1>7, <2>4, CallsStay, LocksStay DEF Inside, Engaged
  <2>6. CoreOK(c)'
    BY Zenon, <1>1, <1>4, <1>7, <2>4 DEF CoreOK, Unqueued, AtHome
  <2> QED  BY Zenon, <1>1, <1>7, <2>4, <2>5, <2>6, QuietStep
<1>9. CASE steps[c] < i
  <2> DEFINE j == (i - steps[c]) - 1
  <2>1. j \in 0 .. i - 1 /\ j + 1 = i - steps[c] /\ j \in 0 .. Len(content[q]) + 1
    BY <1>4, <1>5, <1>9
  <2> HIDE DEF j
  <2>2. prev[temp[c]] = Node(content[q], q, j)
    <3>1. prev[Node(content[q], q, j + 1)] = Node(content[q], q, j)
      BY Zenon, <1>1, <1>4, <2>1, WalkPrev
    <3> QED  BY Zenon, <1>4, <2>1, <3>1
  <2>3. Node(content[q], q, j) \in Entry
    BY Zenon, <1>1, <2>1, NodeType
  <2>4. prev[temp[c]] # EMPTY
    BY <2>2, <2>3 DEF Entry, EMPTY
  <2>5. pc' = [pc EXCEPT ![c] = "rwalk"] /\ que' = que
    <3>1. ~(steps[c] >= NQENT)
      BY <1>4, <1>5, <1>6
    <3>2. pc' = [pc EXCEPT ![c] = "rwalk"]
      BY Zenon, <2>4, <3>1 DEF RemoveTest, Goto
    <3>3. que' = [que EXCEPT ![c] = que[c]]
      BY Zenon, <2>4 DEF RemoveTest
    <3> QED  BY Zenon, <1>1, <3>2, <3>3 DEF TypeOK
  <2>6. pc'[c] = "rwalk" /\ TypeOK'
    BY Zenon, <1>1, <1>7, <2>5 DEF TypeOK, Label
  <2>7. CallsApart' /\ LockOK'
    BY Zenon, <1>1, <1>7, <2>6, CallsStay, LocksStay DEF Inside, Engaged
  <2>8. Walking(c, q, i)'
    BY Zenon, <1>4, <1>7, <1>9, <2>6 DEF Walking
  <2>9. CoreOK(c)'
    BY Zenon, <1>1, <1>7, <2>6, <2>8 DEF CoreOK, Unqueued, AtHome
  <2> QED  BY Zenon, <1>1, <1>7, <2>6, <2>7, <2>9, QuietStep
<1> QED  BY <1>4, <1>8, <1>9

\* A lock is released and the call returns.
LEMMA UnlockStep ==
  ASSUME QInv, NEW c \in Core, Unlock(c)
  PROVE  QInv'
<1>1. /\ TypeOK /\ CoreOK(c) /\ LockOK /\ que[c] \in Queues /\ holder[que[c]] = c
      /\ pc[c] \in {"unlock", "unlockpid", "unlockempty"} /\ pc[c] \in Inside
  BY ZenonT(60) DEF QInv, Unlock, TypeOK, LockOK, Inside
<1>2. /\ pc'[c] = "out" /\ ~sure'[c] /\ OthersKept(c)
      /\ holder' = [holder EXCEPT ![que[c]] = None]
      /\ UNCHANGED <<next, prev, content>>
  BY Zenon, <1>1 DEF Unlock, Return, Goto, OthersKept, TypeOK
<1>3. TypeOK'
  <2>1. 0 \in Proc /\ 0 \in Queues /\ 0 \in Entry /\ 0 \in 0 .. NQENT
    BY EntryFacts DEF Proc, Queues, Entry
  <2>2. "out" \in Label
    BY Zenon DEF Label
  <2> QED  BY Zenon, <1>1, <2>1, <2>2 DEF Unlock, Return, Goto, TypeOK
<1>4. CallsApart'
  BY Zenon, <1>2, CallsStay DEF Engaged
<1>5. LockOK'
  <2>1. ASSUME NEW q \in Queues, holder'[q] # None
        PROVE  pc'[holder'[q]] \in Inside /\ que'[holder'[q]] = q
    <3>1. q # que[c] /\ holder'[q] = holder[q] /\ holder[q] \in Core
          /\ pc[holder[q]] \in Inside /\ que[holder[q]] = q
      BY <1>1, <1>2, <2>1 DEF TypeOK, LockOK
    <3> QED  BY Zenon, <1>2, <3>1 DEF OthersKept
  <2>2. ASSUME NEW d \in Core, pc'[d] \in Inside
        PROVE  holder'[que'[d]] = d
    <3>1. d # c
      BY Zenon, <1>2, <2>2 DEF Inside
    <3>2. pc[d] \in Inside /\ que'[d] = que[d] /\ que[d] \in Queues /\ holder[que[d]] = d
      BY Zenon, <1>1, <1>2, <2>2, <3>1 DEF LockOK, OthersKept, TypeOK
    <3> QED  BY Zenon, <1>1, <1>2, <3>1, <3>2 DEF TypeOK
  <2> QED  BY Zenon, <2>1, <2>2 DEF LockOK
<1>6. CoreOK(c)'
  BY Zenon, <1>2 DEF CoreOK, Unqueued, AtHome
<1> QED  BY Zenon, <1>1, <1>2, <1>3, <1>4, <1>5, <1>6, QuietStep
-----------------------------------------------------------------------------
(* Steps that change links *)

Linking == {"elink", "efwd", "eback", "dfwd", "dback", "dself", "rfwd", "rback"}

\* Only the links of process p and of the nodes of queue q change.
OnlyLinks(q, p) ==
  \A e \in Entry : e # p /\ (\A i \in 0 .. Len(content[q]) + 1 : e # Node(content[q], q, i)) =>
    next'[e] = next[e] /\ prev'[e] = prev[e]

\* The processes of queue q keep their places.
Kept(q) ==
  /\ Len(content[q]) <= Len(content'[q])
  /\ \A i \in 1 .. Len(content[q]) : content'[q][i] = content[q][i]

\* Only queue q changes: it gets no process but p, and loses none unless
\* core c is its home.
OnlyQueue(c, q, p) ==
  /\ \A r \in Queues : r # q => content'[r] = content[r]
  /\ \A i \in 1 .. Len(content'[q]) :
       content'[q][i] = p \/ \E j \in 1 .. Len(content[q]) : content'[q][i] = content[q][j]
  /\ Home[q] = c \/ Kept(q)

\* Core c, inside the lock of queue q, writes links for process p.
Links(c, q, p) ==
  /\ pc[c] \in Linking /\ que[c] = q /\ pid[c] = p
  /\ OthersKept(c) /\ content' \in [Queues -> Seq(Proc)]
  /\ OnlyLinks(q, p) /\ OnlyQueue(c, q, p)

\* Links are written inside the lock.
LEMMA LinkLabels ==
  \A l \in Linking : l \in Inside /\ l \notin {"out", "dlock", "dfirst", "unlockempty"}
BY Zenon DEF Linking, Inside

\* The process of the call is in no other queue.
LEMMA OnlyHere ==
  ASSUME QInv, NEW c \in Core, NEW q \in Queues, NEW p \in Proc, Links(c, q, p),
         NEW r \in Queues, r # q, NEW i \in 1 .. Len(content[r])
  PROVE  content[r][i] # p
<1>1. /\ CoreOK(c) /\ Apart(content) /\ content \in [Queues -> Seq(Proc)]
      /\ pc[c] \in Linking /\ que[c] = q /\ pid[c] = p
  BY Zenon DEF QInv, Links
<1>2. CASE pc[c] \in Unqueued
  BY Zenon, <1>1, <1>2 DEF CoreOK, Absent
<1>3. CASE pc[c] \in {"eback", "dfwd", "rfwd"}
  <2>1. \E j \in 1 .. Len(content[q]) : content[q][j] = p
    BY <1>1, <1>3 DEF CoreOK
  <2> QED  BY <1>1, <2>1 DEF Apart
<1> QED  BY Zenon, <1>1, <1>2, <1>3 DEF Linking, Unqueued

\* Links of the processes that other calls are about, and the ends of other
\* queues, do not change.
LEMMA OtherEntries ==
  ASSUME QInv, NEW c \in Core, NEW q \in Queues, NEW p \in Proc, Links(c, q, p)
  PROVE  /\ \A x \in Proc : x # p /\ Absent(content, x) =>
              next'[x] = next[x] /\ prev'[x] = prev[x] /\ Absent(content', x)
         /\ \A r \in Queues : r # q => \A i \in 0 .. Len(content[r]) + 1 :
              /\ next'[Node(content[r], r, i)] = next[Node(content[r], r, i)]
              /\ prev'[Node(content[r], r, i)] = prev[Node(content[r], r, i)]
<1>1. content \in [Queues -> Seq(Proc)] /\ Apart(content) /\ OnlyLinks(q, p) /\ OnlyQueue(c, q, p)
  BY Zenon DEF QInv, Links
<1>2. ASSUME NEW x \in Proc, x # p, Absent(content, x)
      PROVE  next'[x] = next[x] /\ prev'[x] = prev[x] /\ Absent(content', x)
  <2>1. x \in Entry /\ \A i \in 0 .. Len(content[q]) + 1 : x # Node(content[q], q, i)
    BY Zenon, <1>1, <1>2, AbsentNode, EntryFacts
  <2>2. Absent(content', x)
    BY ZenonT(60), <1>1, <1>2 DEF Absent, OnlyQueue
  <2> QED  BY Zenon, <1>1, <1>2, <2>1, <2>2 DEF OnlyLinks
<1>3. ASSUME NEW r \in Queues, r # q, NEW i \in 0 .. Len(content[r]) + 1
      PROVE  /\ next'[Node(content[r], r, i)] = next[Node(content[r], r, i)]
             /\ prev'[Node(content[r], r, i)] = prev[Node(content[r], r, i)]
  <2> DEFINE e == Node(content[r], r, i)
  <2>1. e \in Entry
    BY Zenon, <1>1, NodeType
  <2>2. \A j \in 0 .. Len(content[q]) + 1 : e # Node(content[q], q, j)
    BY Zenon, <1>1, <1>3, NodesApart
  <2>3. e # p
    <3>1. CASE i \in 1 .. Len(content[r])
      BY <1>1, <1>3, <3>1, NodeType, OnlyHere
    <3>2. CASE i \notin 1 .. Len(content[r])
      <4>1. e = queuehead(r) \/ e = queuetail(r)
        BY <1>1, <3>2 DEF Node
      <4> QED  BY <4>1, EntryFacts
    <3> QED  BY Zenon, <3>1, <3>2
  <2> QED  BY Zenon, <1>1, <2>1, <2>2, <2>3 DEF OnlyLinks
<1> QED  BY Zenon, <1>2, <1>3

\* What is said of the other cores stays true.
LEMMA OtherCore ==
  ASSUME QInv, NEW c \in Core, NEW q \in Queues, NEW p \in Proc, Links(c, q, p),
         NEW d \in Core, d # c
  PROVE  CoreOK(d)'
<1>1. /\ CoreOK(d) /\ content \in [Queues -> Seq(Proc)] /\ content' \in [Queues -> Seq(Proc)]
      /\ pid[d] \in Proc /\ que[d] \in Queues /\ OnlyQueue(c, q, p)
      /\ pc'[d] = pc[d] /\ pid'[d] = pid[d] /\ que'[d] = que[d]
      /\ temp'[d] = temp[d] /\ steps'[d] = steps[d] /\ sure'[d] = sure[d]
  BY Zenon DEF QInv, TypeOK, Links, OthersKept
<1>2. pc[d] \in Inside => que[d] # q /\ content'[que[d]] = content[que[d]]
  <2>1. pc[c] \in Inside /\ que[c] = q /\ LockOK
    BY Zenon, LinkLabels DEF Links, QInv
  <2> QED  BY Zenon, <1>1, <2>1, LockApart DEF OnlyQueue
<1>3. Engaged(d) => pid[d] # p
  BY Zenon, LinkLabels DEF QInv, CallsApart, Links, Engaged
<1>4. Engaged(d) /\ Absent(content, pid[d]) =>
        next'[pid[d]] = next[pid[d]] /\ prev'[pid[d]] = prev[pid[d]] /\ Absent(content', pid[d])
  BY Zenon, <1>1, <1>3, OtherEntries
<1>a. ASSUME NEW r \in Queues, Home[r] = d
      PROVE  /\ Len(content[r]) \in Nat /\ Len(content'[r]) \in Nat
             /\ Len(content[r]) <= Len(content'[r])
             /\ \A i \in 1 .. Len(content[r]) : content'[r][i] = content[r][i]
  <2>1. Len(content[r]) \in Nat /\ Len(content'[r]) \in Nat
    BY <1>1
  <2>2. CASE r = q
    BY Zenon, <1>1, <1>a, <2>1, <2>2 DEF OnlyQueue, Kept
  <2>3. CASE r # q
    <3>1. content'[r] = content[r]
      BY Zenon, <1>1, <2>3 DEF OnlyQueue
    <3> QED  BY <2>1, <3>1
  <2> QED  BY Zenon, <2>2, <2>3
<1>5. pc[d] \in Unqueued => Absent(content', pid[d])
  BY Zenon, <1>1, <1>4 DEF CoreOK, Unqueued, Engaged
<1>6. pc[d] = "efwd" => /\ next'[pid[d]] = queuetail(que[d])
                        /\ prev'[pid[d]] = prev'[queuetail(que[d])]
  <2> SUFFICES ASSUME pc[d] = "efwd"
               PROVE  /\ next'[pid[d]] = queuetail(que[d])
                      /\ prev'[pid[d]] = prev'[queuetail(que[d])]
    OBVIOUS
  <2>1. que[d] # q /\ Absent(content, pid[d]) /\ Engaged(d)
    BY Zenon, <1>1, <1>2 DEF CoreOK, Inside, Unqueued, Engaged
  <2>2. Len(content[que[d]]) + 1 \in 0 .. Len(content[que[d]]) + 1
        /\ Node(content[que[d]], que[d], Len(content[que[d]]) + 1) = queuetail(que[d])
    BY <1>1, NodeType
  <2>3. prev'[queuetail(que[d])] = prev[queuetail(que[d])]
    BY ZenonT(60), <1>1, <2>1, <2>2, OtherEntries
  <2> QED  BY Zenon, <1>1, <1>4, <2>1, <2>3 DEF CoreOK
<1>7. pc[d] = "eback" => /\ Len(content'[que[d]]) > 0
                         /\ content'[que[d]][Len(content'[que[d]])] = pid[d]
  BY Zenon, <1>1, <1>2 DEF CoreOK, Inside
<1>8. pc[d] = "unlock" => \A r \in Queues : \A i \in 1 .. Len(content'[r]) :
                            content'[r][i] = pid[d] => r = que[d]
  <2> SUFFICES ASSUME pc[d] = "unlock", NEW r \in Queues, NEW i \in 1 .. Len(content'[r]),
                      content'[r][i] = pid[d]
               PROVE  r = que[d]
    OBVIOUS
  <2>1. \A j \in 1 .. Len(content[r]) : content[r][j] = pid[d] => r = que[d]
    BY Zenon, <1>1 DEF CoreOK
  <2>2. pid[d] # p
    BY Zenon, <1>3 DEF Engaged
  <2>3. \E j \in 1 .. Len(content[r]) : content[r][j] = pid[d]
    <3>1. CASE r = q
      BY Zenon, <1>1, <2>2, <3>1 DEF OnlyQueue
    <3>2. CASE r # q
      BY Zenon, <1>1, <3>2 DEF OnlyQueue
    <3> QED  BY Zenon, <3>1, <3>2
  <2> QED  BY Zenon, <2>1, <2>3
<1>9. sure[d] /\ pc[d] \in {"dlock", "dfirst"} => Len(content'[que[d]]) > 0
  <2> SUFFICES ASSUME sure[d], pc[d] \in {"dlock", "dfirst"}
               PROVE  Len(content'[que[d]]) > 0
    OBVIOUS
  <2>1. Home[que[d]] = d /\ Len(content[que[d]]) > 0
    BY Zenon, <1>1 DEF CoreOK, AtHome
  <2> QED  BY <1>1, <1>a, <2>1
<1>10. pc[d] = "dfwd" => Len(content'[que[d]]) > 0 /\ content'[que[d]][1] = pid[d]
  BY Zenon, <1>1, <1>2 DEF CoreOK, Inside
<1>11. pc[d] \in {"dback", "rback"} =>
         \E i \in 0 .. Len(content'[que[d]]) : Between(content', next', prev', pid[d], que[d], i)
  <2> SUFFICES ASSUME pc[d] \in {"dback", "rback"}
               PROVE  \E i \in 0 .. Len(content'[que[d]]) :
                        Between(content', next', prev', pid[d], que[d], i)
    OBVIOUS
  <2>1. content'[que[d]] = content[que[d]] /\ Absent(content, pid[d]) /\ Engaged(d)
    BY Zenon, <1>1, <1>2 DEF CoreOK, Inside, Unqueued, Engaged
  <2>2. PICK i \in 0 .. Len(content[que[d]]) : Between(content, next, prev, pid[d], que[d], i)
    BY Zenon, <1>1 DEF CoreOK
  <2>3. Between(content', next', prev', pid[d], que[d], i)
    BY Zenon, <1>4, <2>1, <2>2 DEF Between
  <2> QED  BY Zenon, <2>1, <2>3
<1>12. pc[d] \in {"rlock", "rfwd"} =>
         \E i \in 1 .. Len(content'[que[d]]) : content'[que[d]][i] = pid[d]
  <2> SUFFICES ASSUME pc[d] \in {"rlock", "rfwd"}
               PROVE  \E i \in 1 .. Len(content'[que[d]]) : content'[que[d]][i] = pid[d]
    OBVIOUS
  <2>1. Home[que[d]] = d
    BY Zenon, <1>1 DEF CoreOK, AtHome
  <2>2. PICK i \in 1 .. Len(content[que[d]]) : content[que[d]][i] = pid[d]
    BY Zenon, <1>1 DEF CoreOK
  <2>3. i \in 1 .. Len(content'[que[d]]) /\ content'[que[d]][i] = pid[d]
    BY <1>1, <1>a, <2>1, <2>2
  <2> QED  BY Zenon, <2>3
<1>13. pc[d] \in {"rwalk", "rtest"} =>
         \E r \in Queues : \E i \in 1 .. Len(content'[r]) : Walking(d, r, i)'
  <2> SUFFICES ASSUME pc[d] \in {"rwalk", "rtest"}
               PROVE  \E r \in Queues : \E i \in 1 .. Len(content'[r]) : Walking(d, r, i)'
    OBVIOUS
  <2>1. PICK r \in Queues : \E i \in 1 .. Len(content[r]) : Walking(d, r, i)
    BY Zenon, <1>1 DEF CoreOK
  <2>2. PICK i \in 1 .. Len(content[r]) : Walking(d, r, i)
    BY Zenon, <2>1
  <2>3. /\ Len(content[r]) \in Nat /\ Len(content'[r]) \in Nat /\ Home[r] = d
        /\ steps[d] \in Nat /\ steps[d] <= i /\ i \in Nat /\ i <= Len(content[r])
    BY SMTT(30), <1>1, <2>2 DEF Walking, QInv, TypeOK
  <2>4. /\ Len(content[r]) <= Len(content'[r])
        /\ \A j \in 1 .. Len(content[r]) : content'[r][j] = content[r][j]
    BY Zenon, <1>a, <2>3
  <2>5. Node(content'[r], r, i - steps[d]) = Node(content[r], r, i - steps[d])
    <3> DEFINE j == i - steps[d]
    <3>1. j \in 0 .. Len(content[r]) /\ (j = 0 \/ j \in 1 .. Len(content[r]))
      BY <2>3
    <3>2. j # Len(content[r]) + 1 /\ j # Len(content'[r]) + 1
      BY <2>3, <2>4, <3>1
    <3> QED  BY Zenon, <2>4, <3>1, <3>2 DEF Node
  <2>6. Walking(d, r, i)'
    BY Zenon, <1>1, <2>2, <2>4, <2>5 DEF Walking
  <2>7. i \in 1 .. Len(content'[r])
    BY <2>3, <2>4
  <2> QED  BY Zenon, <2>6, <2>7
<1> QED  BY ZenonT(60), <1>1, <1>5, <1>6, <1>7, <1>8, <1>9, <1>10, <1>11, <1>12, <1>13 DEF CoreOK

\* So the invariant is left to be shown of the queue, the process and the
\* core of the call.
LEMMA LinkStep ==
  ASSUME QInv, NEW c \in Core, NEW q \in Queues, NEW p \in Proc, Links(c, q, p),
         UNCHANGED <<holder, pid, que>>, TypeOK', pc'[c] \in Inside, Engaged(c)',
         Apart(content'), EndsOK(next', prev'), CoreOK(c)',
         \A i \in 0 .. Len(content'[q]) :
           next'[Node(content'[q], q, i)] = Node(content'[q], q, i + 1),
         \A i \in 0 .. Len(content'[q]) :
           prev'[Node(content'[q], q, i + 1)] = Node(content'[q], q, i) \/ Stale(c, q, i)'
  PROVE  QInv'
<1>1. /\ pc[c] \in Inside /\ Engaged(c) /\ OthersKept(c) /\ que[c] = q /\ pid[c] = p
      /\ content' \in [Queues -> Seq(Proc)] /\ content \in [Queues -> Seq(Proc)]
      /\ \A r \in Queues : r # q => content'[r] = content[r]
  BY Zenon, LinkLabels DEF Links, Engaged, OnlyQueue, QInv
<1>2. \A d \in Core : CoreOK(d)'
  BY Zenon, OtherCore
<1>3. CallsApart' /\ LockOK'
  BY Zenon, <1>1, CallsStay, LocksStay
<1>4. NextOK(content', next')
  <2> SUFFICES ASSUME NEW r \in Queues, NEW i \in 0 .. Len(content'[r])
               PROVE  next'[Node(content'[r], r, i)] = Node(content'[r], r, i + 1)
    BY Zenon DEF NextOK
  <2>1. CASE r # q
    <3>1. i \in 0 .. Len(content[r]) /\ i \in 0 .. Len(content[r]) + 1
      BY <1>1, <2>1
    <3>2. next[Node(content[r], r, i)] = Node(content[r], r, i + 1)
      BY Zenon, <3>1 DEF QInv, NextOK
    <3>3. next'[Node(content[r], r, i)] = next[Node(content[r], r, i)]
      BY Zenon, <2>1, <3>1, OtherEntries
    <3> QED  BY Zenon, <1>1, <2>1, <3>2, <3>3
  <2> QED  BY Zenon, <2>1
<1>5. PrevOK'
  <2> SUFFICES ASSUME NEW r \in Queues, NEW i \in 0 .. Len(content'[r])
               PROVE  \/ prev'[Node(content'[r], r, i + 1)] = Node(content'[r], r, i)
                      \/ \E d \in Core : Stale(d, r, i)'
    BY Zenon DEF PrevOK
  <2>1. CASE r # q
    <3>1. i \in 0 .. Len(content[r]) /\ i + 1 \in 0 .. Len(content[r]) + 1
          /\ content'[r] = content[r]
      BY <1>1, <2>1
    <3>2. prev'[Node(content[r], r, i + 1)] = prev[Node(content[r], r, i + 1)]
      BY Zenon, <2>1, <3>1, OtherEntries
    <3>3. CASE \E d \in Core : Stale(d, r, i)
      <4>1. PICK d \in Core : Stale(d, r, i)
        BY Zenon, <3>3
      <4>2. que[d] = r /\ d # c /\ pc[d] \in {"eback", "dback", "rback"}
        BY Zenon, <1>1, <2>1, <4>1 DEF Stale
      <4>3. CASE pc[d] = "eback"
        <5>1. Stale(d, r, i)'
          BY Zenon, <1>1, <3>1, <4>1, <4>2, <4>3 DEF Stale, OthersKept
        <5> QED  BY Zenon, <5>1
      <4>4. CASE pc[d] \in {"dback", "rback"}
        <5>1. Absent(content, pid[d]) /\ pid[d] \in Proc /\ Engaged(d)
          BY Zenon, <4>4 DEF QInv, TypeOK, CoreOK, Unqueued, Engaged
        <5>2. pid[d] # p
          BY Zenon, <1>1, <4>2, <5>1 DEF QInv, CallsApart
        <5>3. next'[pid[d]] = next[pid[d]] /\ prev'[pid[d]] = prev[pid[d]]
          BY Zenon, <5>1, <5>2, OtherEntries
        <5>4. Stale(d, r, i)'
          BY Zenon, <1>1, <3>1, <4>1, <4>2, <4>4, <5>3 DEF Stale, Between, OthersKept
        <5> QED  BY Zenon, <5>4
      <4> QED  BY Zenon, <4>2, <4>3, <4>4
    <3> QED  BY Zenon, <3>1, <3>2, <3>3 DEF QInv, PrevOK
  <2>2. CASE r = q
    BY Zenon, <2>2
  <2> QED  BY Zenon, <2>1, <2>2
<1> QED  BY Zenon, <1>1, <1>2, <1>3, <1>4, <1>5 DEF QInv

\* A process that is in no queue can be appended to one.
LEMMA ApartAppend ==
  ASSUME NEW ct \in [Queues -> Seq(Proc)], Apart(ct), NEW p \in Proc, Absent(ct, p),
         NEW q \in Queues, NEW new, new = [ct EXCEPT ![q] = Append(@, p)]
  PROVE  new \in [Queues -> Seq(Proc)] /\ Apart(new)
<1>1. /\ new \in [Queues -> Seq(Proc)] /\ Len(ct[q]) \in Nat
      /\ Len(new[q]) = Len(ct[q]) + 1 /\ new[q][Len(ct[q]) + 1] = p
      /\ \A i \in 1 .. Len(ct[q]) : new[q][i] = ct[q][i]
      /\ \A r \in Queues : r # q => new[r] = ct[r]
  <2>1. new[q] = Append(ct[q], p) /\ new[q] \in Seq(Proc)
    OBVIOUS
  <2> QED  BY <2>1, AppendType
<1>2. ASSUME NEW r \in Queues, NEW i \in 1 .. Len(new[r])
      PROVE  \/ new[r][i] = p /\ r = q /\ i = Len(ct[q]) + 1
             \/ new[r][i] # p /\ i \in 1 .. Len(ct[r]) /\ new[r][i] = ct[r][i]
  <2>1. CASE r # q
    BY Zenon, <1>1, <2>1 DEF Absent
  <2>2. CASE r = q
    <3>1. i = Len(ct[q]) + 1 \/ i \in 1 .. Len(ct[q])
      BY <1>1, <2>2
    <3> QED  BY ZenonT(60), <1>1, <2>2, <3>1 DEF Absent
  <2> QED  BY Zenon, <2>1, <2>2
<1>3. Apart(new)
  BY <1>2 DEF Apart
<1> QED  BY Zenon, <1>1, <1>3

\* Every entry of t is one of s.
From(t, s) == \A i \in 1 .. Len(t) : \E j \in 1 .. Len(s) : t[i] = s[j]

\* A process that is taken out of its queue is in none.
LEMMA ApartWithout ==
  ASSUME NEW ct \in [Queues -> Seq(Proc)], Apart(ct), NEW p \in Proc,
         NEW q \in Queues, NEW k \in 1 .. Len(ct[q]), ct[q][k] = p,
         NEW new, new = [ct EXCEPT ![q] = Without(@, p)]
  PROVE  /\ new \in [Queues -> Seq(Proc)] /\ Apart(new) /\ Absent(new, p)
         /\ From(new[q], ct[q])
<1>1. new[q] = Without(ct[q], p) /\ \A r \in Queues : r # q => new[r] = ct[r]
  OBVIOUS
<1>2. \A i \in 1 .. Len(ct[q]) : ct[q][i] = p => i = k
  BY Zenon DEF Apart
<1>3. /\ new[q] \in Seq(Proc) /\ Len(new[q]) = Len(ct[q]) - 1 /\ Len(ct[q]) \in Nat
      /\ \A i \in 1 .. Len(new[q]) : new[q][i] = (IF i < k THEN ct[q][i] ELSE ct[q][i + 1])
  BY <1>1, <1>2, WithoutNode
<1>4. new \in [Queues -> Seq(Proc)]
  BY Zenon, <1>3
<1> DEFINE was(r, i) == IF r = q /\ i >= k THEN i + 1 ELSE i
<1>5. ASSUME NEW r \in Queues, NEW i \in 1 .. Len(new[r])
      PROVE  /\ was(r, i) \in 1 .. Len(ct[r]) /\ new[r][i] = ct[r][was(r, i)]
             /\ (r # q \/ was(r, i) # k)
  BY <1>1, <1>3
<1>6. \A r \in Queues : \A i, j \in 1 .. Len(new[r]) : was(r, i) = was(r, j) => i = j
  BY <1>1, <1>3
<1> HIDE DEF was
<1>7. Absent(new, p)
  BY <1>5 DEF Absent, Apart
<1>8. Apart(new)
  <2> SUFFICES ASSUME NEW r \in Queues, NEW t \in Queues, NEW i \in 1 .. Len(new[r]),
                      NEW j \in 1 .. Len(new[t]), new[r][i] = new[t][j]
               PROVE  r = t /\ i = j
    BY Zenon DEF Apart
  <2>1. r = t /\ was(r, i) = was(t, j)
    <3>1. was(r, i) \in 1 .. Len(ct[r]) /\ new[r][i] = ct[r][was(r, i)]
      BY Zenon, <1>5
    <3>2. was(t, j) \in 1 .. Len(ct[t]) /\ new[t][j] = ct[t][was(t, j)]
      BY Zenon, <1>5
    <3> QED  BY <3>1, <3>2 DEF Apart
  <2> QED  BY Zenon, <1>6, <2>1
<1>9. From(new[q], ct[q])
  BY Zenon, <1>5 DEF From
<1> QED  BY Zenon, <1>4, <1>7, <1>8, <1>9

\* Links of a process in no queue may be written at will.
LEMMA OwnLinks ==
  ASSUME QInv, NEW c \in Core, NEW q \in Queues, NEW p \in Proc,
         pc[c] \in {"elink", "dself"}, que[c] = q, pid[c] = p,
         OthersKept(c), UNCHANGED <<content, holder, pid, que>>,
         NEW a, NEW b, next' = [next EXCEPT ![p] = a], prev' = [prev EXCEPT ![p] = b],
         TypeOK', pc'[c] \in Inside, Engaged(c)', CoreOK(c)'
  PROVE  QInv'
<1>1. /\ TypeOK /\ content \in [Queues -> Seq(Proc)] /\ Apart(content) /\ Absent(content, p)
      /\ EndsOK(next, prev) /\ NextOK(content, next) /\ Len(content[q]) \in Nat
  BY Zenon, NodeType DEF QInv, CoreOK, Unqueued
<1>2. /\ p \in Entry
      /\ \A e \in Entry : e # p => next'[e] = next[e] /\ prev'[e] = prev[e]
  BY Zenon, <1>1, EntryFacts DEF TypeOK
<1>3. Links(c, q, p)
  BY <1>1, <1>2 DEF Links, Linking, OnlyLinks, OnlyQueue, Kept
<1>4. EndsOK(next', prev')
  <2>1. \A r \in Queues : /\ queuehead(r) \in Entry /\ queuehead(r) # p
                          /\ queuetail(r) \in Entry /\ queuetail(r) # p
    BY EntryFacts
  <2> QED  BY Zenon, <1>1, <1>2, <2>1 DEF EndsOK
<1>5. ASSUME NEW i \in 0 .. Len(content[q]) + 1
      PROVE  Node(content[q], q, i) \in Entry /\ Node(content[q], q, i) # p
  <2>1. content[q] \in Seq(Proc)
    BY Zenon, <1>1
  <2>2. Node(content[q], q, i) \in Entry
    BY Zenon, <2>1, NodeType
  <2>3. Node(content[q], q, i) # p
    BY Zenon, <1>1, AbsentNode
  <2> QED  BY Zenon, <2>2, <2>3
<1>6. ASSUME NEW i \in 0 .. Len(content[q])
      PROVE  /\ next'[Node(content[q], q, i)] = Node(content[q], q, i + 1)
             /\ prev'[Node(content[q], q, i + 1)] = Node(content[q], q, i)
  <2>1. i \in 0 .. Len(content[q]) + 1 /\ i + 1 \in 0 .. Len(content[q]) + 1
    BY Zenon, <1>1, Places
  <2>2. next[Node(content[q], q, i)] = Node(content[q], q, i + 1)
    BY Zenon, <1>1 DEF NextOK
  <2>3. prev[Node(content[q], q, i + 1)] = Node(content[q], q, i)
    BY Zenon, PrevFull DEF Inside
  <2> QED  BY Zenon, <1>2, <1>5, <2>1, <2>2, <2>3
<1> QED  BY Zenon, <1>1, <1>3, <1>4, <1>6, LinkStep

\* Links are entries or EMPTY.
LEMMA LinkType ==
  ASSUME TypeOK, NEW c \in Core, NEW l \in Label, Goto(c, l),
         UNCHANGED <<holder, pid, que, temp, steps, sure>>,
         next' \in [Entry -> Entry \cup {EMPTY}], prev' \in [Entry -> Entry \cup {EMPTY}]
  PROVE  TypeOK' /\ pc'[c] = l /\ OthersKept(c)
BY Zenon DEF TypeOK, Goto, OthersKept

\* enqueue(): the process gets its two links.
LEMMA EnqueueLinkStep ==
  ASSUME QInv, NEW c \in Core, EnqueueLink(c)
  PROVE  QInv'
<1>0. PICK q \in Queues, p \in Proc : que[c] = q /\ pid[c] = p
  BY Zenon DEF QInv, TypeOK
<1>1. /\ TypeOK /\ CoreOK(c) /\ pc[c] = "elink" /\ Absent(content, p)
  BY Zenon, <1>0 DEF QInv, EnqueueLink, CoreOK, Unqueued
<1>2. /\ next' = [next EXCEPT ![p] = queuetail(q)]
      /\ prev' = [prev EXCEPT ![p] = prev[queuetail(q)]]
      /\ Goto(c, "efwd") /\ UNCHANGED <<holder, pid, que, temp, steps, sure, content>>
  BY Zenon, <1>0, <1>1 DEF EnqueueLink
<1>3. p \in Entry /\ queuetail(q) \in Entry /\ queuetail(q) # p
  BY EntryFacts
<1>4. TypeOK' /\ pc'[c] = "efwd" /\ OthersKept(c)
  <2>1. next' \in [Entry -> Entry \cup {EMPTY}] /\ prev' \in [Entry -> Entry \cup {EMPTY}]
    BY Zenon, <1>1, <1>2, <1>3 DEF TypeOK
  <2> QED  BY Zenon, <1>1, <1>2, <2>1, LinkType DEF Label
<1>5. CoreOK(c)'
  BY Zenon, <1>0, <1>1, <1>2, <1>3, <1>4 DEF CoreOK, Unqueued, AtHome, TypeOK
<1> QED  BY Zenon, <1>0, <1>1, <1>2, <1>4, <1>5, OwnLinks DEF Inside, Engaged

\* dequeue(): the process that was taken points to itself.
LEMMA SelfStep ==
  ASSUME QInv, NEW c \in Core, DequeueSelf(c)
  PROVE  QInv'
<1>0. PICK q \in Queues, p \in Proc : que[c] = q /\ pid[c] = p
  BY Zenon DEF QInv, TypeOK
<1>1. /\ TypeOK /\ CoreOK(c) /\ pc[c] = "dself" /\ Absent(content, p) /\ Home[q] = c
  BY Zenon, <1>0 DEF QInv, DequeueSelf, CoreOK, Unqueued, AtHome
<1>2. /\ next' = [next EXCEPT ![p] = p] /\ prev' = [prev EXCEPT ![p] = p]
      /\ Goto(c, "unlockpid") /\ UNCHANGED <<holder, pid, que, temp, steps, sure, content>>
  BY Zenon, <1>0, <1>1 DEF DequeueSelf
<1>3. p \in Entry
  BY Zenon, EntryFacts
<1>4. TypeOK' /\ pc'[c] = "unlockpid" /\ OthersKept(c)
  <2>1. next' \in [Entry -> Entry \cup {EMPTY}] /\ prev' \in [Entry -> Entry \cup {EMPTY}]
    BY Zenon, <1>1, <1>2, <1>3 DEF TypeOK
  <2> QED  BY Zenon, <1>1, <1>2, <2>1, LinkType DEF Label
<1>5. CoreOK(c)'
  BY Zenon, <1>0, <1>1, <1>2, <1>3, <1>4 DEF CoreOK, Unqueued, AtHome, TypeOK
<1> QED  BY Zenon, <1>0, <1>1, <1>2, <1>4, <1>5, OwnLinks DEF Inside, Engaged

\* enqueue(): the last node points to the process, which is in the queue now.
LEMMA EnqueueForwardStep ==
  ASSUME QInv, NEW c \in Core, EnqueueForward(c)
  PROVE  QInv'
<1>0. PICK q \in Queues, p \in Proc, s \in Seq(Proc), n \in Nat :
        que[c] = q /\ pid[c] = p /\ content[q] = s /\ Len(s) = n
  BY DEF QInv, TypeOK
<1>1. /\ TypeOK /\ CoreOK(c) /\ pc[c] = "efwd" /\ Absent(content, p)
      /\ content \in [Queues -> Seq(Proc)] /\ Apart(content) /\ NextOK(content, next)
      /\ next[p] = queuetail(q) /\ prev[p] = prev[queuetail(q)]
  BY Zenon, <1>0 DEF QInv, EnqueueForward, CoreOK, Unqueued
<1> DEFINE t == content'[q]
           last == Node(s, q, n)
<1>2. /\ next' = [next EXCEPT ![prev[queuetail(q)]] = p]
      /\ content' = [content EXCEPT ![q] = Append(@, p)]
      /\ Goto(c, "eback") /\ UNCHANGED <<prev, holder, pid, que, temp, steps, sure>>
  BY Zenon, <1>0, <1>1 DEF EnqueueForward
<1>3. /\ \A i \in 0 .. n + 1 : Node(s, q, i) \in Entry /\ Node(s, q, i) # p
      /\ Node(s, q, n + 1) = queuetail(q)
      /\ last \in Entry /\ p \in Entry /\ last # p
  <2>1. \A i \in 0 .. n + 1 : Node(s, q, i) \in Entry /\ Node(s, q, i) # p
    <3>1. \A i \in 0 .. Len(s) + 1 : Node(s, q, i) \in Entry
      BY Zenon, NodeType
    <3>2. \A i \in 0 .. Len(content[q]) + 1 : Node(content[q], q, i) # p
      BY Zenon, <1>1, AbsentNode
    <3> QED  BY Zenon, <1>0, <3>1, <3>2
  <2> QED  BY <1>0, <2>1, NodeType, EntryFacts
<1>4. \A i \in 0 .. n : prev[Node(s, q, i + 1)] = Node(s, q, i)
  BY Zenon, <1>0, <1>1, PrevFull DEF Inside
<1>5. prev[queuetail(q)] = last /\ next' = [next EXCEPT ![last] = p]
  <2>1. prev[Node(s, q, n + 1)] = last
    BY <1>4
  <2> QED  BY Zenon, <1>2, <1>3, <2>1
<1>6. /\ next'[last] = p /\ \A e \in Entry : e # last => next'[e] = next[e]
  BY Zenon, <1>1, <1>3, <1>5 DEF TypeOK
<1>7. /\ t \in Seq(Proc) /\ Len(t) = n + 1 /\ t[n + 1] = p
      /\ \A i \in 1 .. n : t[i] = s[i]
      /\ \A i \in 0 .. n : Node(t, q, i) = Node(s, q, i)
      /\ Node(t, q, n + 1) = p /\ Node(t, q, n + 2) = queuetail(q)
  <2>1. PICK u : u = Append(s, p) /\ t = u
    BY Zenon, <1>0, <1>1, <1>2
  <2>2. (n + 1) + 1 = n + 2
    OBVIOUS
  <2> HIDE DEF t, last
  <2>3. u \in Seq(Proc) /\ Len(u) = Len(s) + 1 /\ u[Len(u)] = p
    BY <2>1, AppendType
  <2>4. \A i \in 1 .. Len(s) : u[i] = s[i]
    BY <2>1, AppendType
  <2>5. \A i \in 0 .. Len(s) : Node(u, q, i) = Node(s, q, i)
    BY <1>0, <2>3, <2>4 DEF Node
  <2>6. Node(u, q, Len(u)) = p /\ Node(u, q, Len(u) + 1) = queuetail(q)
    BY <1>0, <2>3, <2>4 DEF Node
  <2> QED  BY ZenonT(60), <1>0, <2>1, <2>2, <2>3, <2>4, <2>5, <2>6
<1>8. content' \in [Queues -> Seq(Proc)] /\ Apart(content')
  BY Zenon, <1>1, <1>2, ApartAppend
<1>9. TypeOK' /\ pc'[c] = "eback" /\ OthersKept(c)
  <2>1. next' \in [Entry -> Entry \cup {EMPTY}] /\ prev' \in [Entry -> Entry \cup {EMPTY}]
    BY <1>1, <1>2, <1>3, <1>5 DEF TypeOK
  <2> QED  BY Zenon, <1>1, <1>2, <2>1, LinkType DEF Label
<1> HIDE DEF t, last
<1>10. Links(c, q, p)
  <2>1. OnlyLinks(q, p)
    BY <1>0, <1>2, <1>3, <1>6 DEF OnlyLinks, last
  <2>2. \A r \in Queues : r # q => content'[r] = content[r]
    BY Zenon, <1>1, <1>2
  <2>3. ASSUME NEW i \in 1 .. Len(t)
        PROVE  t[i] = p \/ \E j \in 1 .. Len(s) : t[i] = s[j]
    <3>1. i = n + 1 \/ i \in 1 .. n
      BY <1>3, <1>7
    <3> QED  BY Zenon, <1>0, <1>7, <3>1
  <2>4. Kept(q)
    BY <1>0, <1>7 DEF Kept, t
  <2> QED  BY ZenonT(60), <1>0, <1>1, <1>8, <1>9, <2>1, <2>2, <2>3, <2>4 DEF Links, Linking, OnlyQueue, t
<1>11. EndsOK(next', prev')
  <2>1. ASSUME NEW r \in Queues
        PROVE  queuetail(r) \in Entry /\ queuetail(r) # last
    <3>1. Len(content[r]) + 1 \in 0 .. Len(content[r]) + 1 /\ n \in 0 .. Len(content[q]) + 1
          /\ queuetail(r) = Node(content[r], r, Len(content[r]) + 1)
      BY <1>0, <1>1, NodeType
    <3>2. queuetail(r) = last => q = r /\ n = Len(content[r]) + 1
      BY <1>0, <1>1, <3>1, NodesApart DEF last
    <3>3. q = r => n # Len(content[r]) + 1
      BY <1>0
    <3> QED  BY Zenon, <3>2, <3>3, EntryFacts
  <2> QED  BY Zenon, <1>2, <1>6, <2>1 DEF QInv, EndsOK
<1>12. ASSUME NEW i \in 0 .. Len(t)
       PROVE  /\ next'[Node(t, q, i)] = Node(t, q, i + 1)
              /\ prev'[Node(t, q, i + 1)] = Node(t, q, i) \/ i = n + 1
  <2>1. CASE i < n
    <3>1. /\ i \in 0 .. n /\ i + 1 \in 0 .. n /\ i \in 0 .. n + 1 /\ n \in 0 .. n + 1
          /\ i \in 0 .. Len(s) /\ i # n
      BY <1>0, <2>1
    <3>2. Node(s, q, i) # last
      BY <1>0, <1>1, <3>1, NodesApart DEF last
    <3>3. next[Node(s, q, i)] = Node(s, q, i + 1)
      BY Zenon, <1>0, <1>1, <3>1 DEF NextOK
    <3> QED  BY ZenonT(60), <1>2, <1>3, <1>4, <1>6, <1>7, <3>1, <3>2, <3>3
  <2>2. CASE i = n
    <3>1. n \in 0 .. n
      BY <1>3
    <3> QED  BY Zenon, <1>1, <1>2, <1>5, <1>6, <1>7, <2>2, <3>1 DEF last
  <2>3. CASE i = n + 1
    <3>1. next'[p] = queuetail(q) /\ i + 1 = n + 2
      BY <1>1, <1>3, <1>6, <2>3
    <3> QED  BY ZenonT(60), <1>7, <2>3, <3>1
  <2> QED  BY <1>3, <1>7, <2>1, <2>2, <2>3
<1>13. Stale(c, q, n + 1)'
  BY Zenon, <1>0, <1>2, <1>7, <1>9 DEF Stale, t
<1>14. CoreOK(c)'
  <2>1. n + 1 > 0 /\ que'[c] = q /\ pid'[c] = p /\ sure'[c] = sure[c]
    BY <1>0, <1>2
  <2> QED  BY Zenon, <1>0, <1>1, <1>7, <1>9, <2>1 DEF CoreOK, Unqueued, AtHome, t
<1>15. pc'[c] \in Inside /\ Engaged(c)'
  BY Zenon, <1>9 DEF Inside, Engaged
<1>16. ASSUME NEW i \in 0 .. Len(content'[q])
       PROVE  /\ next'[Node(content'[q], q, i)] = Node(content'[q], q, i + 1)
              /\ prev'[Node(content'[q], q, i + 1)] = Node(content'[q], q, i) \/ Stale(c, q, i)'
  BY Zenon, <1>12, <1>13 DEF t
<1> QED  BY Zenon, <1>2, <1>8, <1>9, <1>10, <1>11, <1>14, <1>15, <1>16, LinkStep

\* A core that is between its two writes knows the one prev link that is
\* not right yet.
LEMMA PrevButOne ==
  ASSUME QInv, NEW c \in Core, NEW q \in Queues, que[c] = q, pc[c] \in Inside,
         NEW i \in 0 .. Len(content[q])
  PROVE  prev[Node(content[q], q, i + 1)] = Node(content[q], q, i) \/ Stale(c, q, i)
<1>1. ASSUME NEW d \in Core, Stale(d, q, i)
      PROVE  d = c
  <2>1. que[d] = q /\ pc[d] \in Inside
    BY Zenon, <1>1 DEF Stale, Inside
  <2> QED  BY Zenon, <2>1, LockApart DEF QInv
<1> QED  BY Zenon, <1>1 DEF QInv, PrevOK

\* enqueue(): the tail points back to the process.
LEMMA EnqueueBackStep ==
  ASSUME QInv, NEW c \in Core, EnqueueBack(c)
  PROVE  QInv'
<1>0. PICK q \in Queues, p \in Proc, s \in Seq(Proc), n \in Nat :
        que[c] = q /\ pid[c] = p /\ content[q] = s /\ Len(s) = n
  BY DEF QInv, TypeOK
<1>1. /\ TypeOK /\ CoreOK(c) /\ pc[c] = "eback" /\ n > 0 /\ s[n] = p
      /\ content \in [Queues -> Seq(Proc)] /\ Apart(content) /\ NextOK(content, next)
  BY Zenon, <1>0 DEF QInv, EnqueueBack, CoreOK
<1>2. /\ prev' = [prev EXCEPT ![queuetail(q)] = p]
      /\ Goto(c, "unlock") /\ UNCHANGED <<next, content, holder, pid, que, temp, steps, sure>>
  BY Zenon, <1>0, <1>1 DEF EnqueueBack
<1>3. /\ queuetail(q) \in Entry /\ p \in Entry /\ Node(s, q, n) = p
      /\ Node(s, q, n + 1) = queuetail(q) /\ \A i \in 0 .. n + 1 : Node(s, q, i) \in Entry
  <2>1. n \in 1 .. Len(s)
    BY <1>0, <1>1
  <2>2. Node(s, q, n) = s[n] /\ Node(s, q, Len(s) + 1) = queuetail(q)
    BY Zenon, <2>1, NodeType
  <2>3. \A i \in 0 .. Len(s) + 1 : Node(s, q, i) \in Entry
    BY Zenon, NodeType
  <2> QED  BY Zenon, <1>0, <1>1, <2>2, <2>3, EntryFacts
<1>4. /\ prev'[queuetail(q)] = p
      /\ \A e \in Entry : e # queuetail(q) => prev'[e] = prev[e]
  BY Zenon, <1>1, <1>2, <1>3 DEF TypeOK
<1>5. TypeOK' /\ pc'[c] = "unlock" /\ OthersKept(c)
  <2>1. next' \in [Entry -> Entry \cup {EMPTY}] /\ prev' \in [Entry -> Entry \cup {EMPTY}]
    BY Zenon, <1>1, <1>2, <1>3 DEF TypeOK
  <2> QED  BY Zenon, <1>1, <1>2, <2>1, LinkType DEF Label
<1>6. Links(c, q, p)
  <2>1. OnlyLinks(q, p)
    BY <1>0, <1>2, <1>3, <1>4 DEF OnlyLinks
  <2>2. n <= n
    OBVIOUS
  <2> QED  BY Zenon, <1>0, <1>1, <1>2, <1>5, <2>1, <2>2 DEF Links, Linking, OnlyQueue, Kept
<1>7. EndsOK(next', prev')
  <2>1. \A r \in Queues : queuehead(r) \in Entry /\ queuehead(r) # queuetail(q)
    BY Zenon, EntryFacts
  <2> QED  BY Zenon, <1>2, <1>4, <2>1 DEF QInv, EndsOK
<1>8. ASSUME NEW i \in 0 .. n
      PROVE  /\ next'[Node(s, q, i)] = Node(s, q, i + 1)
             /\ prev'[Node(s, q, i + 1)] = Node(s, q, i)
  <2>1. next'[Node(s, q, i)] = Node(s, q, i + 1)
    BY Zenon, <1>0, <1>1, <1>2 DEF NextOK
  <2>2. CASE i = n
    BY Zenon, <1>3, <1>4, <2>1, <2>2
  <2>3. CASE i # n
    <3>1. i \in 0 .. Len(content[q]) /\ i + 1 \in 0 .. n + 1 /\ n + 1 \in 0 .. n + 1 /\ i + 1 # n + 1
      <4>1. Len(content[q]) = n
        BY Zenon, <1>0
      <4> QED  BY <2>3, <4>1
    <3>2. Node(s, q, i + 1) # queuetail(q)
      <4>1. i + 1 \in 0 .. Len(content[q]) + 1 /\ n + 1 \in 0 .. Len(content[q]) + 1
        BY Zenon, <1>0, <3>1
      <4>2. Node(content[q], q, i + 1) # Node(content[q], q, n + 1)
        BY Zenon, <1>1, <3>1, <4>1, NodesApart
      <4> QED  BY Zenon, <1>0, <1>3, <4>2
    <3>3. ~Stale(c, q, i)
      BY Zenon, <1>0, <1>1, <2>3 DEF Stale
    <3>4. prev[Node(s, q, i + 1)] = Node(s, q, i)
      BY Zenon, <1>0, <1>1, <3>1, <3>3, PrevButOne DEF Inside
    <3> QED  BY Zenon, <1>3, <1>4, <2>1, <3>1, <3>2, <3>4
  <2> QED  BY Zenon, <2>2, <2>3
<1>9. CoreOK(c)'
  <2>1. ASSUME NEW r \in Queues, NEW i \in 1 .. Len(content[r]), content[r][i] = p
        PROVE  r = q
    <3>1. n \in 1 .. Len(content[q]) /\ content[q][n] = p
      <4>1. n \in 1 .. n
        BY <1>1
      <4> QED  BY Zenon, <1>0, <1>1, <4>1
    <3> QED  BY ZenonT(60), <1>1, <2>1, <3>1 DEF Apart
  <2> QED  BY Zenon, <1>0, <1>1, <1>2, <1>5, <2>1 DEF CoreOK, Unqueued, AtHome
<1>10. pc'[c] \in Inside /\ Engaged(c)'
  BY Zenon, <1>5 DEF Inside, Engaged
<1>11. ASSUME NEW i \in 0 .. Len(content'[q])
       PROVE  /\ next'[Node(content'[q], q, i)] = Node(content'[q], q, i + 1)
              /\ prev'[Node(content'[q], q, i + 1)] = Node(content'[q], q, i) \/ Stale(c, q, i)'
  BY Zenon, <1>0, <1>2, <1>8
<1> QED  BY Zenon, <1>1, <1>2, <1>5, <1>6, <1>7, <1>9, <1>10, <1>11, LinkStep

\* dequeue() and remove(): the node before the process points to the node
\* after it, and the process is in no queue now.
LEMMA UnlinkForwardStep ==
  ASSUME QInv, NEW c \in Core, NEW from, NEW to, UnlinkForward(c, from, to),
         (from = "dfwd" /\ to = "dback") \/ (from = "rfwd" /\ to = "rback")
  PROVE  QInv'
<1>0. PICK q \in Queues, p \in Proc, s \in Seq(Proc), n \in Nat :
        que[c] = q /\ pid[c] = p /\ content[q] = s /\ Len(s) = n
  BY DEF QInv, TypeOK
<1>1. /\ TypeOK /\ CoreOK(c) /\ pc[c] = from /\ Home[q] = c
      /\ content \in [Queues -> Seq(Proc)] /\ Apart(content) /\ NextOK(content, next)
  BY ZenonT(60), <1>0 DEF QInv, UnlinkForward, CoreOK, AtHome
<1>2. PICK k \in 1 .. n : s[k] = p
  BY <1>0, <1>1 DEF CoreOK
<1>3. /\ next' = [next EXCEPT ![prev[p]] = next[p]]
      /\ content' = [content EXCEPT ![q] = Without(@, p)]
      /\ Goto(c, to) /\ UNCHANGED <<prev, holder, pid, que, temp, steps, sure>>
  BY Zenon, <1>0, <1>1 DEF UnlinkForward
<1>4. PICK a, b : a = Node(s, q, k - 1) /\ b = Node(s, q, k + 1)
  OBVIOUS
<1>5. /\ k \in 0 .. n + 1 /\ k - 1 \in 0 .. n + 1 /\ k + 1 \in 0 .. n + 1
      /\ k \in 0 .. n /\ k - 1 \in 0 .. n /\ (k - 1) + 1 = k /\ k # k - 1
  OBVIOUS
<1>6. \A i \in 0 .. n : /\ prev[Node(s, q, i + 1)] = Node(s, q, i)
                        /\ next[Node(s, q, i)] = Node(s, q, i + 1)
  BY Zenon, <1>0, <1>1, PrevFull DEF Inside, NextOK
<1>7. /\ \A i \in 0 .. n + 1 : Node(s, q, i) \in Entry
      /\ Node(s, q, k) = p
  BY Zenon, <1>0, <1>2, NodeType
<1>8. /\ a \in Entry /\ b \in Entry /\ p \in Entry /\ p # a
      /\ prev[p] = a /\ next[p] = b
  <2>1. p # a
    BY <1>0, <1>1, <1>4, <1>5, <1>7, NodesApart
  <2> QED  BY Zenon, <1>4, <1>5, <1>6, <1>7, <2>1
<1>9. /\ next'[a] = b /\ \A e \in Entry : e # a => next'[e] = next[e]
  BY Zenon, <1>1, <1>3, <1>8 DEF TypeOK
<1>10. \A i \in 0 .. n + 1 : i # k - 1 => Node(s, q, i) # a
  BY <1>0, <1>1, <1>4, <1>5, NodesApart
<1>11. PICK t : t = content'[q]
  OBVIOUS
<1>12. /\ t \in Seq(Proc) /\ Len(t) = n - 1
       /\ \A i \in 0 .. n : Node(t, q, i) = (IF i < k THEN Node(s, q, i) ELSE Node(s, q, i + 1))
  <2>1. t = Without(s, p)
    BY Zenon, <1>0, <1>1, <1>3, <1>11
  <2>2. k \in 1 .. Len(s) /\ \A i \in 1 .. Len(s) : s[i] = p => i = k
    BY <1>0, <1>1, <1>2 DEF Apart
  <2>3. t \in Seq(Proc) /\ Len(t) = Len(s) - 1
    BY Zenon, <1>2, <2>1, <2>2, WithoutNode
  <2>4. \A i \in 0 .. Len(t) + 1 : Node(t, q, i) = (IF i < k THEN Node(s, q, i) ELSE Node(s, q, i + 1))
    BY <1>2, <2>1, <2>2, WithoutNode
  <2> QED  BY SMTT(30), <1>0, <2>3, <2>4
<1>13. /\ content' \in [Queues -> Seq(Proc)] /\ Apart(content') /\ Absent(content', p)
       /\ \A i \in 1 .. Len(content'[q]) : \E j \in 1 .. Len(content[q]) : content'[q][i] = content[q][j]
  <2>1. k \in 1 .. Len(content[q]) /\ content[q][k] = p
    BY Zenon, <1>0, <1>2
  <2>2. content' \in [Queues -> Seq(Proc)] /\ Apart(content') /\ Absent(content', p)
    BY Zenon, <1>1, <1>3, <2>1, ApartWithout
  <2>3. From(content'[q], content[q])
    BY Zenon, <1>1, <1>3, <2>1, ApartWithout
  <2> QED  BY Zenon, <2>2, <2>3 DEF From
<1>14. TypeOK' /\ pc'[c] = to /\ OthersKept(c)
  <2>1. next' \in [Entry -> Entry \cup {EMPTY}] /\ prev' \in [Entry -> Entry \cup {EMPTY}]
    BY Zenon, <1>1, <1>3, <1>8 DEF TypeOK
  <2>2. to \in Label
    BY Zenon DEF Label
  <2> QED  BY Zenon, <1>1, <1>3, <2>1, <2>2, LinkType
<1>15. Links(c, q, p)
  <2>1. OnlyLinks(q, p)
    BY Zenon, <1>0, <1>3, <1>4, <1>5, <1>9 DEF OnlyLinks
  <2>2. \A r \in Queues : r # q => content'[r] = content[r]
    BY Zenon, <1>1, <1>3
  <2> QED  BY Zenon, <1>0, <1>1, <1>13, <1>14, <2>1, <2>2 DEF Links, Linking, OnlyQueue
<1>16. EndsOK(next', prev')
  <2>1. ASSUME NEW r \in Queues
        PROVE  queuetail(r) \in Entry /\ queuetail(r) # a
    <3>1. Len(content[r]) + 1 \in 0 .. Len(content[r]) + 1
          /\ queuetail(r) = Node(content[r], r, Len(content[r]) + 1)
      BY SMTT(30), <1>1, NodeType
    <3>2. ASSUME queuetail(r) = a
          PROVE  q = r /\ k - 1 = Len(content[r]) + 1
      <4>1. k - 1 \in 0 .. Len(content[q]) + 1 /\ Node(content[q], q, k - 1) = queuetail(r)
        BY Zenon, <1>0, <1>4, <1>5, <3>2
      <4>2. content \in [Queues -> Seq(Proc)] /\ Apart(content)
        BY Zenon, <1>1
      <4> QED  BY Zenon, <4>1, <4>2, TailApart
    <3>3. q = r => k - 1 # Len(content[r]) + 1
      BY <1>0
    <3> QED  BY Zenon, <3>2, <3>3, EntryFacts
  <2> QED  BY Zenon, <1>3, <1>9, <2>1 DEF QInv, EndsOK
<1>17. ASSUME NEW i \in 0 .. n - 1
       PROVE  /\ next'[Node(t, q, i)] = Node(t, q, i + 1)
              /\ prev'[Node(t, q, i + 1)] = Node(t, q, i) \/ i = k - 1
  <2>1. CASE i < k - 1
    <3>1. /\ i \in 0 .. n /\ i + 1 \in 0 .. n /\ i < k /\ i + 1 < k
          /\ i \in 0 .. n + 1 /\ i + 1 \in 0 .. n + 1 /\ i # k - 1
      BY <2>1
    <3>2. Node(t, q, i) = Node(s, q, i) /\ Node(t, q, i + 1) = Node(s, q, i + 1)
      BY Zenon, <1>12, <3>1
    <3> QED  BY Zenon, <1>3, <1>6, <1>7, <1>9, <1>10, <3>1, <3>2
  <2>2. CASE i = k - 1
    <3>1. Node(t, q, i) = Node(s, q, k - 1) /\ Node(t, q, i + 1) = Node(s, q, k + 1)
      BY <1>5, <1>12, <2>2
    <3> QED  BY Zenon, <1>4, <1>9, <2>2, <3>1
  <2>3. CASE i > k - 1
    <3>1. /\ i \in 0 .. n /\ i + 1 \in 0 .. n /\ ~(i < k) /\ ~(i + 1 < k)
          /\ i + 1 \in 0 .. n + 1 /\ (i + 1) + 1 \in 0 .. n + 1 /\ i + 1 # k - 1
      BY <2>3
    <3>2. Node(t, q, i) = Node(s, q, i + 1) /\ Node(t, q, i + 1) = Node(s, q, (i + 1) + 1)
      BY Zenon, <1>12, <3>1
    <3> QED  BY Zenon, <1>3, <1>6, <1>7, <1>9, <1>10, <3>1, <3>2
  <2> QED  BY <2>1, <2>2, <2>3
<1>18. Between(content', next', prev', p, q, k - 1)
  <2>1. Node(t, q, k - 1) = a /\ Node(t, q, k) = b
    BY <1>4, <1>5, <1>12
  <2> QED  BY Zenon, <1>3, <1>5, <1>8, <1>9, <1>11, <2>1 DEF Between
<1>19. Stale(c, q, k - 1)'
  BY Zenon, <1>0, <1>3, <1>14, <1>18 DEF Stale
<1>20. CoreOK(c)'
  <2>1. k - 1 \in 0 .. Len(content'[q])
    BY <1>11, <1>12
  <2>2. \E i \in 0 .. Len(content'[q]) : Between(content', next', prev', p, q, i)
    BY Zenon, <1>18, <2>1
  <2>3. sure[c] => from = "dfwd"
    BY Zenon, <1>1 DEF CoreOK
  <2> QED  BY Zenon, <1>0, <1>1, <1>3, <1>13, <1>14, <2>2, <2>3 DEF CoreOK, Unqueued, AtHome
<1>21. pc'[c] \in Inside /\ Engaged(c)'
  BY Zenon, <1>14 DEF Inside, Engaged
<1>22. ASSUME NEW i \in 0 .. Len(content'[q])
       PROVE  /\ next'[Node(content'[q], q, i)] = Node(content'[q], q, i + 1)
              /\ prev'[Node(content'[q], q, i + 1)] = Node(content'[q], q, i) \/ Stale(c, q, i)'
  BY Zenon, <1>11, <1>12, <1>17, <1>19
<1> QED  BY Zenon, <1>3, <1>13, <1>14, <1>15, <1>16, <1>20, <1>21, <1>22, LinkStep

\* dequeue() and remove(): the node after the process points back to the
\* node before it.
LEMMA UnlinkBackStep ==
  ASSUME QInv, NEW c \in Core, NEW from, NEW to, UnlinkBack(c, from, to),
         (from = "dback" /\ to = "dself") \/ (from = "rback" /\ to = "unlock")
  PROVE  QInv'
<1>0. PICK q \in Queues, p \in Proc, s \in Seq(Proc), n \in Nat :
        que[c] = q /\ pid[c] = p /\ content[q] = s /\ Len(s) = n
  BY DEF QInv, TypeOK
<1>1. /\ TypeOK /\ CoreOK(c) /\ pc[c] = from /\ Home[q] = c /\ Absent(content, p)
      /\ content \in [Queues -> Seq(Proc)] /\ Apart(content) /\ NextOK(content, next)
  BY Zenon, <1>0 DEF QInv, UnlinkBack, CoreOK, AtHome, Unqueued
<1>2. PICK k \in 0 .. n : next[p] = Node(s, q, k + 1) /\ prev[p] = Node(s, q, k)
  BY Zenon, <1>0, <1>1 DEF CoreOK, Between
<1>3. PICK a, b : a = Node(s, q, k) /\ b = Node(s, q, k + 1)
  OBVIOUS
<1>4. /\ prev' = [prev EXCEPT ![b] = a]
      /\ Goto(c, to) /\ UNCHANGED <<next, content, holder, pid, que, temp, steps, sure>>
  BY Zenon, <1>0, <1>1, <1>2, <1>3 DEF UnlinkBack
<1>5. /\ k \in 0 .. n + 1 /\ k + 1 \in 0 .. n + 1
      /\ \A i \in 0 .. n + 1 : Node(s, q, i) \in Entry
  BY <1>0, NodeType
<1>6. /\ a \in Entry /\ b \in Entry /\ prev'[b] = a
      /\ \A e \in Entry : e # b => prev'[e] = prev[e]
  BY Zenon, <1>1, <1>3, <1>4, <1>5 DEF TypeOK
<1>7. TypeOK' /\ pc'[c] = to /\ OthersKept(c)
  <2>1. next' \in [Entry -> Entry \cup {EMPTY}] /\ prev' \in [Entry -> Entry \cup {EMPTY}]
    BY Zenon, <1>1, <1>4, <1>6 DEF TypeOK
  <2>2. to \in Label
    BY Zenon DEF Label
  <2> QED  BY Zenon, <1>1, <1>4, <2>1, <2>2, LinkType
<1>8. Links(c, q, p)
  <2>1. OnlyLinks(q, p)
    BY Zenon, <1>0, <1>3, <1>4, <1>5, <1>6 DEF OnlyLinks
  <2> QED  BY Zenon, <1>0, <1>1, <1>4, <1>7, <2>1 DEF Links, Linking, OnlyQueue
<1>9. EndsOK(next', prev')
  <2>1. ASSUME NEW r \in Queues
        PROVE  queuehead(r) \in Entry /\ queuehead(r) # b
    <3>1. 0 \in 0 .. Len(content[r]) + 1 /\ queuehead(r) = Node(content[r], r, 0) /\ k + 1 # 0
      BY SMTT(30), <1>1, NodeType
    <3>2. queuehead(r) # b
      BY <1>0, <1>1, <1>3, <1>5, <3>1, NodesApart
    <3> QED  BY Zenon, <3>2, EntryFacts
  <2> QED  BY Zenon, <1>4, <1>6, <2>1 DEF QInv, EndsOK
<1>10. ASSUME NEW i \in 0 .. n
       PROVE  /\ next'[Node(s, q, i)] = Node(s, q, i + 1)
              /\ prev'[Node(s, q, i + 1)] = Node(s, q, i)
  <2>1. next'[Node(s, q, i)] = Node(s, q, i + 1)
    BY Zenon, <1>0, <1>1, <1>4 DEF NextOK
  <2>2. CASE i = k
    BY Zenon, <1>3, <1>6, <2>1, <2>2
  <2>3. CASE i # k
    <3>1. /\ i \in 0 .. Len(content[q]) /\ i + 1 \in 0 .. n + 1 /\ i + 1 # k + 1
          /\ i \in 0 .. n + 1
      <4>1. Len(content[q]) = n
        BY Zenon, <1>0
      <4> QED  BY <2>3, <4>1
    <3>2. Node(s, q, i + 1) # b /\ Node(s, q, i) # a
      BY <1>0, <1>1, <1>3, <1>5, <2>3, <3>1, NodesApart
    <3>3. ~Stale(c, q, i)
      BY Zenon, <1>0, <1>1, <1>2, <1>3, <3>2 DEF Stale, Between
    <3>4. prev[Node(s, q, i + 1)] = Node(s, q, i)
      BY Zenon, <1>0, <1>1, <3>1, <3>3, PrevButOne DEF Inside
    <3> QED  BY Zenon, <1>5, <1>6, <2>1, <3>1, <3>2, <3>4
  <2> QED  BY Zenon, <2>2, <2>3
<1>11. CoreOK(c)'
  <2>1. sure[c] => from = "dback"
    BY Zenon, <1>1 DEF CoreOK
  <2> QED  BY Zenon, <1>0, <1>1, <1>4, <1>7, <2>1 DEF CoreOK, Unqueued, AtHome, Absent
<1>12. pc'[c] \in Inside /\ Engaged(c)'
  BY Zenon, <1>7 DEF Inside, Engaged
<1>13. ASSUME NEW i \in 0 .. Len(content'[q])
       PROVE  /\ next'[Node(content'[q], q, i)] = Node(content'[q], q, i + 1)
              /\ prev'[Node(content'[q], q, i + 1)] = Node(content'[q], q, i) \/ Stale(c, q, i)'
  BY Zenon, <1>0, <1>4, <1>10
<1> QED  BY Zenon, <1>1, <1>4, <1>7, <1>8, <1>9, <1>11, <1>12, <1>13, LinkStep
-----------------------------------------------------------------------------
(* The invariant *)

\* newqueue() makes empty queues.
LEMMA QInit ==
  ASSUME Init
  PROVE  QInv
<1>1. /\ content = [q \in Queues |-> <<>>] /\ \A q \in Queues : Len(content[q]) = 0
      /\ content \in [Queues -> Seq(Proc)]
      /\ \A c \in Core : pc[c] = "out" /\ ~sure[c]
  BY DEF Init
<1>2. /\ 0 \in Proc /\ 0 \in Queues /\ 0 \in Entry
      /\ \A q \in Queues :
           /\ next[queuehead(q)] = queuetail(q) /\ prev[queuehead(q)] = EMPTY
           /\ prev[queuetail(q)] = queuehead(q) /\ next[queuetail(q)] = EMPTY
  <2>1. 0 \in Proc /\ 0 \in Queues /\ 0 \in Entry
    BY QueueAssumption DEF Proc, Queues, Entry, NQENT
  <2>2. ASSUME NEW q \in Queues
        PROVE  /\ next[queuehead(q)] = queuetail(q) /\ prev[queuehead(q)] = EMPTY
               /\ prev[queuetail(q)] = queuehead(q) /\ next[queuetail(q)] = EMPTY
    <3>1. /\ queuehead(q) \in 0 .. NQENT - 1 /\ ~(queuehead(q) < NPROC)
          /\ queuetail(q) \in 0 .. NQENT - 1 /\ ~(queuetail(q) < NPROC)
      BY EntryFacts DEF Entry
    <3>2. /\ (queuehead(q) - NPROC) % 2 = 0 /\ (queuetail(q) - NPROC) % 2 = 1
          /\ queuetail(q) = queuehead(q) + 1 /\ queuetail(q) - 1 = queuehead(q)
      BY EntryFacts DEF queuehead, queuetail
    <3> QED  BY <3>1, <3>2 DEF Init
  <2> QED  BY Zenon, <2>1, <2>2
<1>3. TypeOK
  <2>1. next \in [Entry -> Entry \cup {EMPTY}] /\ prev \in [Entry -> Entry \cup {EMPTY}]
    <3>1. ASSUME NEW e \in Entry, ~(e < NPROC)
          PROVE  /\ (e - NPROC) % 2 = 0 => e + 1 \in Entry
                 /\ (e - NPROC) % 2 # 0 => e - 1 \in Entry
      BY <3>1, QueueAssumption DEF Entry, NQENT
    <3> QED  BY Zenon, <1>2, <3>1 DEF Init, Entry
  <2>2. "out" \in Label /\ 0 \in 0 .. NQENT
    BY EntryFacts DEF Label
  <2> QED  BY Zenon, <1>2, <2>1, <2>2 DEF Init, TypeOK
<1>4. Apart(content)
  BY <1>1 DEF Apart
<1>5. \A q \in Queues : /\ Node(content[q], q, 0) = queuehead(q)
                        /\ Node(content[q], q, 1) = queuetail(q) /\ 0 + 1 = 1
  BY <1>1 DEF Node
<1>6. NextOK(content, next) /\ PrevOK
  BY <1>1, <1>2, <1>5 DEF NextOK, PrevOK
<1>7. EndsOK(next, prev)
  BY Zenon, <1>2 DEF EndsOK
<1>8. LockOK
  BY Zenon, <1>1 DEF LockOK, Init, Inside
<1>9. CallsApart
  BY Zenon, <1>1 DEF CallsApart, Engaged
<1>10. \A c \in Core : CoreOK(c)
  BY Zenon, <1>1 DEF CoreOK, Unqueued, AtHome
<1> QED  BY Zenon, <1>1, <1>3, <1>4, <1>6, <1>7, <1>8, <1>9, <1>10 DEF QInv

\* Every step of every core keeps the invariant.
LEMMA QStep ==
  ASSUME QInv, Bounded, [Next]_vars
  PROVE  QInv'
<1>1. CASE UNCHANGED vars
  <2>1. UNCHANGED <<next, prev, content, holder, pc, pid, que, temp, steps, sure>>
    BY Zenon, <1>1 DEF vars
  <2>2. TypeOK' /\ content' \in [Queues -> Seq(Proc)] /\ Apart(content')
    BY Zenon, <1>1, <2>1 DEF vars, QInv, TypeOK
  <2>3. NextOK(content', next') /\ EndsOK(next', prev') /\ LockOK' /\ CallsApart'
    BY Zenon, <2>1 DEF QInv, LockOK, CallsApart, Engaged
  <2>4. PrevOK'
    <3>1. ASSUME NEW q \in Queues, NEW i \in 0 .. Len(content[q])
          PROVE  /\ \A c \in Core : Stale(c, q, i)' = Stale(c, q, i)
      BY Zenon, <2>1 DEF Stale, Between
    <3> QED  BY Zenon, <2>1, <3>1 DEF QInv, PrevOK
  <2>5. ASSUME NEW c \in Core
        PROVE  CoreOK(c)'
    <3>1. \A q, i : Walking(c, q, i)' <=> Walking(c, q, i)
      BY Zenon, <2>1 DEF Walking
    <3> QED  BY ZenonT(60), <2>1, <3>1 DEF QInv, CoreOK
  <2> QED  BY Zenon, <2>2, <2>3, <2>4, <2>5 DEF QInv
<1>2. ASSUME NEW c \in Core, EnqueueStep(c)
      PROVE  QInv'
  BY Zenon, <1>2, LockStep, EnqueueLinkStep, EnqueueForwardStep, EnqueueBackStep DEF EnqueueStep
<1>3. ASSUME NEW c \in Core, DequeueStep(c)
      PROVE  QInv'
  <2>1. CASE DequeueForward(c)
    BY Zenon, <2>1, UnlinkForwardStep DEF DequeueForward
  <2>2. CASE DequeueBack(c)
    BY Zenon, <2>2, UnlinkBackStep DEF DequeueBack
  <2> QED  BY Zenon, <1>3, <2>1, <2>2, LockStep, FirstStep, SelfStep DEF DequeueStep
<1>4. ASSUME NEW c \in Core, RemoveStep(c)
      PROVE  QInv'
  <2>1. CASE RemoveForward(c)
    BY Zenon, <2>1, UnlinkForwardStep DEF RemoveForward
  <2>2. CASE RemoveBack(c)
    BY Zenon, <2>2, UnlinkBackStep DEF RemoveBack
  <2> QED  BY Zenon, <1>4, <2>1, <2>2, LockStep, WalkStep, TestStep DEF RemoveStep
<1>5. ASSUME NEW c \in Core, Call(c)
      PROVE  QInv'
  BY Zenon, <1>5, EnqueueCall, DequeueCall, RemoveCall DEF Call
<1> QED  BY Zenon, <1>1, <1>2, <1>3, <1>4, <1>5, UnlockStep DEF Next, Step

\* The nodes are the chain of the queue.
LEMMA ChainNode ==
  ASSUME NEW q \in Queues, content[q] \in Seq(Proc)
  PROVE  /\ Len(content[q]) \in Nat
         /\ \A i \in 0 .. Len(content[q]) + 1 : Chain(q)[i + 1] = Node(content[q], q, i)
<1> DEFINE s == content[q]
           h == <<queuehead(q)>>
           e == <<queuetail(q)>>
           a == h \o s
<1>1. s \in Seq(Entry) /\ Len(s) \in Nat /\ queuehead(q) \in Entry /\ queuetail(q) \in Entry
  <2>1. Proc \subseteq Entry
    BY Zenon, EntryFacts
  <2> QED  BY <2>1, EntryFacts
<1>2. h \in Seq(Entry) /\ Len(h) = 1 /\ h[1] = queuehead(q)
  BY <1>1
<1>3. e \in Seq(Entry) /\ Len(e) = 1 /\ e[1] = queuetail(q)
  BY <1>1
<1> HIDE DEF s, h, e
<1>4. /\ a \in Seq(Entry) /\ Len(a) = Len(s) + 1 /\ a[1] = queuehead(q)
      /\ \A i \in 1 .. Len(s) : a[i + 1] = s[i]
  <2>1. 1 \in 1 .. 1 /\ 1 + Len(s) = Len(s) + 1 /\ \A i \in 1 .. Len(s) : 1 + i = i + 1
    BY <1>1
  <2>2. a \in Seq(Entry) /\ Len(a) = Len(h) + Len(s)
    BY Zenon, <1>1, <1>2, ConcatType
  <2>3. \A i \in 1 .. Len(h) : a[i] = h[i]
    BY Zenon, <1>1, <1>2, ConcatFirst
  <2>4. \A i \in 1 .. Len(s) : a[Len(h) + i] = s[i]
    <3>1. h \in Seq(Entry) /\ s \in Seq(Entry)
      BY Zenon, <1>1, <1>2
    <3> QED  BY Zenon, <3>1, ConcatSecond
  <2> QED  BY Zenon, <1>2, <2>1, <2>2, <2>3, <2>4
<1> HIDE DEF a
<1>5. /\ \A i \in 1 .. Len(s) + 1 : Chain(q)[i] = a[i]
      /\ Chain(q)[(Len(s) + 1) + 1] = queuetail(q)
  <2>1. Chain(q) = a \o e
    BY Zenon DEF Chain, a, h, e, s
  <2>2. 1 \in 1 .. 1
    OBVIOUS
  <2>3. \A i \in 1 .. Len(a) : (a \o e)[i] = a[i]
    BY Zenon, <1>3, <1>4, ConcatFirst
  <2>4. \A i \in 1 .. Len(e) : (a \o e)[Len(a) + i] = e[i]
    <3>1. a \in Seq(Entry) /\ e \in Seq(Entry)
      BY Zenon, <1>3, <1>4
    <3> QED  BY Zenon, <3>1, ConcatSecond
  <2> QED  BY Zenon, <1>3, <1>4, <2>1, <2>2, <2>3, <2>4
<1>6. ASSUME NEW i \in 0 .. Len(s) + 1
      PROVE  Chain(q)[i + 1] = Node(s, q, i)
  <2>1. CASE i = 0
    BY <1>1, <1>4, <1>5, <2>1 DEF Node
  <2>2. CASE i = Len(s) + 1
    BY <1>1, <1>5, <2>2 DEF Node
  <2>3. CASE i \in 1 .. Len(s)
    <3>1. i + 1 \in 1 .. Len(s) + 1 /\ i # 0 /\ i # Len(s) + 1
      BY <1>1, <2>3
    <3> QED  BY Zenon, <1>4, <1>5, <2>3, <3>1 DEF Node
  <2> QED  BY <1>1, <2>1, <2>2, <2>3
<1> QED  BY Zenon, <1>1, <1>6 DEF s

\* The invariant gives the links of every queue.
LEMMA QInvLinked ==
  ASSUME QInv
  PROVE  DoublyLinked
<1> SUFFICES ASSUME NEW q \in Queues, NEW i \in 1 .. Len(content[q]) + 1
             PROVE  /\ next[Chain(q)[i]] = Chain(q)[i + 1]
                    /\ holder[q] = None => prev[Chain(q)[i + 1]] = Chain(q)[i]
  BY Zenon DEF QInv, DoublyLinked
<1>1. content[q] \in Seq(Proc)
  BY Zenon DEF QInv
<1>2. /\ i - 1 \in 0 .. Len(content[q]) /\ (i - 1) + 1 = i
      /\ i - 1 \in 0 .. Len(content[q]) + 1 /\ i \in 0 .. Len(content[q]) + 1
  BY <1>1, ChainNode
<1>3. Chain(q)[i] = Node(content[q], q, i - 1) /\ Chain(q)[i + 1] = Node(content[q], q, i)
  BY Zenon, <1>1, <1>2, ChainNode
<1>4. next[Node(content[q], q, i - 1)] = Node(content[q], q, i)
  BY Zenon, <1>2 DEF QInv, NextOK
<1>5. holder[q] = None => prev[Node(content[q], q, i)] = Node(content[q], q, i - 1)
  <2>1. \A c \in Core : Stale(c, q, i - 1) => holder[q] = c
    BY Zenon DEF QInv, LockOK, Stale, Inside
  <2>2. \A c \in Core : c # None
    BY Zenon, QueueAssumption
  <2> QED  BY Zenon, <1>2, <2>1, <2>2 DEF QInv, PrevOK
<1> QED  BY Zenon, <1>3, <1>4, <1>5
-----------------------------------------------------------------------------
(* The linked queues implement FIFO queues *)

\* A step of core c changes at most its own answer.
LEMMA AnswerStep ==
  ASSUME NEW c \in Core, OthersKept(c)
  PROVE  /\ Answer' = [Answer EXCEPT ![c] = Answer'[c]]
         /\ Answer'[c] = Answer[c] => UNCHANGED Answer
<1>1. \A d \in Core : d # c => Answer'[d] = Answer[d]
  BY Zenon DEF Answer, OthersKept
<1>2. Answer = [d \in Core |-> Answer[d]] /\ Answer' = [d \in Core |-> Answer'[d]]
  BY Zenon DEF Answer
<1> HIDE DEF Answer
<1> QED  BY Zenon, <1>1, <1>2

\* What a core answers depends on where it is in its call.
LEMMA AnswerAt ==
  ASSUME NEW c \in Core
  PROVE  /\ pc[c] \in {"dback", "dself", "unlockpid"} => Answer[c] = pid[c]
         /\ pc[c] = "unlockempty" => Answer[c] = EMPTY
         /\ pc[c] \notin {"dback", "dself", "unlockpid", "unlockempty"} => Answer[c] = None
BY Zenon DEF Answer

\* A step that changes neither a queue nor an answer.
LEMMA Quiet ==
  ASSUME NEW c \in Core, OthersKept(c), UNCHANGED content, Answer'[c] = Answer[c]
  PROVE  UNCHANGED Fifo!specvars
BY Zenon, AnswerStep DEF Fifo!specvars

\* The write of next by which a process comes into a queue is the Enqueue.
LEMMA FifoEnqueue ==
  ASSUME QInv, NEW c \in Core, EnqueueForward(c)
  PROVE  Fifo!Next
<1>0. PICK q \in Queues, p \in Proc : que[c] = q /\ pid[c] = p
  BY Zenon DEF QInv, TypeOK
<1>1. pc[c] = "efwd" /\ TypeOK /\ Absent(content, p)
  BY Zenon, <1>0 DEF EnqueueForward, QInv, CoreOK, Unqueued
<1>2. pc'[c] = "eback" /\ OthersKept(c) /\ content' = [content EXCEPT ![q] = Append(@, p)]
  BY Zenon, <1>0, <1>1 DEF EnqueueForward, Goto, OthersKept, TypeOK
<1>3. Answer[c] = None /\ Answer'[c] = None
  BY Zenon, <1>1, <1>2 DEF Answer
<1>4. ~Fifo!Queued(p)
  BY Zenon, <1>1 DEF Fifo!Queued, Fifo!In, Absent
<1>5. Fifo!Enqueue(p, q)
  BY Zenon, <1>2, <1>3, <1>4, AnswerStep DEF Fifo!Enqueue
<1> QED  BY Zenon, <1>5 DEF Fifo!Next

\* The two definitions of taking an entry out of a sequence agree.
LEMMA SameWithout == \A s, p : Fifo!Without(s, p) = Without(s, p)
BY Zenon DEF Fifo!Without, Without

\* remove(): the write of next is the Take.
LEMMA FifoTake ==
  ASSUME QInv, NEW c \in Core, RemoveForward(c)
  PROVE  Fifo!Next
<1>0. PICK q \in Queues, p \in Proc : que[c] = q /\ pid[c] = p
  BY Zenon DEF QInv, TypeOK
<1>1. pc[c] = "rfwd" /\ TypeOK /\ \E i \in 1 .. Len(content[q]) : content[q][i] = p
  BY Zenon, <1>0 DEF RemoveForward, UnlinkForward, QInv, CoreOK
<1>2. pc'[c] = "rback" /\ OthersKept(c) /\ content' = [content EXCEPT ![q] = Without(@, p)]
  BY Zenon, <1>0, <1>1 DEF RemoveForward, UnlinkForward, Goto, OthersKept, TypeOK
<1>3. Answer[c] = None /\ Answer'[c] = None
  BY Zenon, <1>1, <1>2 DEF Answer
<1>4. Fifo!In(p, q)
  BY Zenon, <1>1 DEF Fifo!In
<1>5. Fifo!Take(p, q)
  BY Zenon, <1>2, <1>3, <1>4, AnswerStep, SameWithout DEF Fifo!Take
<1> QED  BY Zenon, <1>5 DEF Fifo!Next

\* dequeue(): the write of next is the Dequeue, of the first process.
LEMMA FifoDequeue ==
  ASSUME QInv, NEW c \in Core, DequeueForward(c)
  PROVE  Fifo!Next
<1>0. PICK q \in Queues, p \in Proc, s \in Seq(Proc) :
        que[c] = q /\ pid[c] = p /\ content[q] = s
  BY Zenon DEF QInv, TypeOK
<1>1. /\ pc[c] = "dfwd" /\ TypeOK /\ Len(s) > 0 /\ s[1] = p
      /\ Apart(content) /\ content \in [Queues -> Seq(Proc)]
  BY Zenon, <1>0 DEF DequeueForward, UnlinkForward, QInv, CoreOK
<1>2. /\ pc'[c] = "dback" /\ pid'[c] = p /\ OthersKept(c)
      /\ content' = [content EXCEPT ![q] = Without(@, p)]
  BY Zenon, <1>0, <1>1 DEF DequeueForward, UnlinkForward, Goto, OthersKept, TypeOK
<1>3. Answer[c] = None /\ Answer'[c] = p
  BY Zenon, <1>1, <1>2 DEF Answer
<1>4. Without(s, p) = Tail(s)
  <2>1. 1 \in 1 .. Len(s) /\ \A i \in 1 .. Len(s) : s[i] = p => i = 1
    BY <1>0, <1>1 DEF Apart
  <2> QED  BY <1>1, <2>1, WithoutNode
<1>5. Head(s) = p /\ s # <<>>
  BY <1>1
<1>6. Fifo!Dequeue(c, q)
  BY Zenon, <1>0, <1>2, <1>3, <1>4, <1>5, AnswerStep DEF Fifo!Dequeue
<1> QED  BY Zenon, <1>6 DEF Fifo!Next

\* dequeue() of an empty queue answers EMPTY.
LEMMA FifoFirst ==
  ASSUME QInv, NEW c \in Core, DequeueFirst(c)
  PROVE  Fifo!Next \/ UNCHANGED Fifo!specvars
<1>0. PICK q \in Queues, s \in Seq(Proc) : que[c] = q /\ content[q] = s
  BY Zenon DEF QInv, TypeOK
<1>1. pc[c] = "dfirst" /\ TypeOK /\ NextOK(content, next) /\ content \in [Queues -> Seq(Proc)]
  BY Zenon DEF DequeueFirst, QInv
<1>2. OthersKept(c) /\ UNCHANGED content /\ pc'[c] \in {"dfwd", "unlockempty"}
  BY Zenon, <1>1 DEF DequeueFirst, Goto, OthersKept, TypeOK
<1>3. Answer[c] = None
  BY Zenon, <1>1, AnswerAt
<1>4. CASE pc'[c] = "dfwd"
  <2>1. Answer'[c] = None
    BY Zenon, <1>4 DEF Answer
  <2> QED  BY Zenon, <1>2, <1>3, <2>1, Quiet
<1>5. CASE pc'[c] = "unlockempty"
  <2>1. ~(next[queuehead(q)] < NPROC)
    BY Zenon, <1>0, <1>1, <1>5 DEF DequeueFirst, Goto, TypeOK
  <2>2. next[queuehead(q)] = Node(s, q, 1)
    <3>1. 0 \in 0 .. Len(s) /\ 0 + 1 = 1 /\ Node(s, q, 0) = queuehead(q)
      BY DEF Node
    <3> QED  BY Zenon, <1>0, <1>1, <3>1 DEF NextOK
  <2>3. Len(s) = 0
    <3> SUFFICES ASSUME Len(s) # 0
                 PROVE  FALSE
      OBVIOUS
    <3>1. 1 \in 1 .. Len(s)
      OBVIOUS
    <3>2. next[queuehead(q)] \in Proc
      BY Zenon, <2>2, <3>1, NodeType
    <3> QED  BY Zenon, <2>1, <3>2, EntryFacts
  <2>4. s = <<>>
    BY <2>3
  <2>5. Answer'[c] = EMPTY
    BY Zenon, <1>5 DEF Answer
  <2>6. Fifo!DequeueEmpty(c, q)
    BY Zenon, <1>0, <1>2, <1>3, <2>4, <2>5, AnswerStep DEF Fifo!DequeueEmpty
  <2> QED  BY Zenon, <2>6 DEF Fifo!Next
<1> QED  BY Zenon, <1>2, <1>4, <1>5

\* The release of the lock returns the answer of dequeue(), if there is one.
LEMMA FifoUnlock ==
  ASSUME QInv, NEW c \in Core, Unlock(c)
  PROVE  Fifo!Next \/ UNCHANGED Fifo!specvars
<1>1. pc[c] \in {"unlock", "unlockpid", "unlockempty"} /\ TypeOK
  BY Zenon DEF Unlock, QInv
<1>2. OthersKept(c) /\ UNCHANGED content /\ pc'[c] = "out"
  BY Zenon, <1>1 DEF Unlock, Return, Goto, OthersKept, TypeOK
<1>3. Answer'[c] = None
  BY Zenon, <1>2 DEF Answer
<1>4. CASE pc[c] = "unlock"
  <2>1. Answer[c] = None
    BY Zenon, <1>4, AnswerAt
  <2> QED  BY Zenon, <1>2, <1>3, <2>1, Quiet
<1>5. CASE pc[c] # "unlock"
  <2>1. Answer[c] \in Int
    <3>1. pid[c] \in Int /\ EMPTY \in Int
      BY <1>1, EntryFacts DEF TypeOK, EMPTY
    <3> QED  BY Zenon, <1>1, <1>5, <3>1, AnswerAt
  <2>2. Answer[c] # None
    BY Zenon, <2>1, QueueAssumption
  <2>3. Fifo!Return(c)
    BY Zenon, <1>2, <1>3, <2>2, AnswerStep DEF Fifo!Return
  <2> QED  BY Zenon, <2>3 DEF Fifo!Next
<1> QED  BY Zenon, <1>4, <1>5

\* All other steps change neither a queue nor an answer.
LEMMA FifoOther ==
  ASSUME QInv, NEW c \in Core,
         \/ EnqueueLock(c) \/ EnqueueLink(c) \/ EnqueueBack(c)
         \/ DequeueLock(c) \/ DequeueBack(c) \/ DequeueSelf(c)
         \/ RemoveWalk(c) \/ RemoveTest(c) \/ RemoveLock(c) \/ RemoveBack(c)
         \/ Call(c)
  PROVE  UNCHANGED Fifo!specvars
<1>1. TypeOK
  BY Zenon DEF QInv
<1>2. CASE DequeueBack(c) \/ DequeueSelf(c)
  <2>1. /\ OthersKept(c) /\ UNCHANGED content /\ pid'[c] = pid[c]
        /\ pc[c] \in {"dback", "dself"} /\ pc'[c] \in {"dself", "unlockpid"}
    BY Zenon, <1>1, <1>2 DEF DequeueBack, UnlinkBack, DequeueSelf, Goto, OthersKept, TypeOK
  <2>2. Answer'[c] = Answer[c]
    BY Zenon, <2>1 DEF Answer
  <2> QED  BY Zenon, <2>1, <2>2, Quiet
<1> DEFINE Silent == {"out", "elock", "elink", "efwd", "eback", "dlock", "dfirst", "rwalk",
                      "rtest", "rlock", "rfwd", "rback", "rlost", "unlock"}
<1>3. ASSUME OthersKept(c), UNCHANGED content, pc[c] \in Silent, pc'[c] \in Silent
      PROVE  UNCHANGED Fifo!specvars
  <2>1. Answer[c] = None /\ Answer'[c] = None
    BY Zenon, <1>3 DEF Answer
  <2> QED  BY Zenon, <1>3, <2>1, Quiet
<1>4. CASE EnqueueLock(c) \/ DequeueLock(c) \/ RemoveLock(c)
  BY Zenon, <1>1, <1>3, <1>4 DEF EnqueueLock, DequeueLock, RemoveLock, LockQueue, Goto, OthersKept, TypeOK
<1>5. CASE EnqueueLink(c) \/ EnqueueBack(c)
  BY Zenon, <1>1, <1>3, <1>5 DEF EnqueueLink, EnqueueBack, Goto, OthersKept, TypeOK
<1>6. CASE RemoveWalk(c) \/ RemoveTest(c)
  BY Zenon, <1>1, <1>3, <1>6 DEF RemoveWalk, RemoveTest, Goto, OthersKept, TypeOK
<1>7. CASE RemoveBack(c)
  BY Zenon, <1>1, <1>3, <1>7 DEF RemoveBack, UnlinkBack, Goto, OthersKept, TypeOK
<1>8. CASE Call(c)
  BY ZenonT(60), <1>1, <1>3, <1>8 DEF Call, enqueue, dequeue, remove, Goto, OthersKept, TypeOK
<1> QED  BY Zenon, <1>2, <1>4, <1>5, <1>6, <1>7, <1>8

\* Every step is a step of the FIFO queues or changes nothing of them.
LEMMA FifoStep ==
  ASSUME QInv, [Next]_vars
  PROVE  Fifo!Next \/ UNCHANGED Fifo!specvars
<1>1. CASE UNCHANGED vars
  BY Zenon, <1>1 DEF vars, Fifo!specvars, Answer
<1>2. ASSUME NEW c \in Core, Step(c) \/ Call(c)
      PROVE  Fifo!Next \/ UNCHANGED Fifo!specvars
  BY Zenon, <1>2, FifoEnqueue, FifoTake, FifoDequeue, FifoFirst, FifoUnlock, FifoOther
     DEF Step, EnqueueStep, DequeueStep, RemoveStep
<1> QED  BY Zenon, <1>1, <1>2 DEF Next

\* The queues are empty at first.
LEMMA FifoInit ==
  ASSUME Init
  PROVE  Fifo!Init
BY Zenon DEF Init, Fifo!Init, Answer

\* A queue is never longer than the process table, since no process is in it
\* twice: the walk of remove() does not reach its bound of NQENT steps.
LEMMA QueueBounded == QInv => Bounded
<1> SUFFICES ASSUME QInv, NEW q \in Queues
             PROVE  Len(content[q]) <= NPROC
  BY DEF Bounded
<1>1. content \in [Queues -> Seq(Proc)] /\ Apart(content)
  BY DEF QInv
<1>2. content[q] \in Seq(Proc) /\ Len(content[q]) \in Nat /\ NPROC \in Nat \ {0}
  BY <1>1, EntryFacts
<1> SUFFICES ASSUME Len(content[q]) > NPROC
             PROVE  FALSE
  BY <1>2
<1>3. IsFiniteSet(1 .. Len(content[q])) /\ Cardinality(1 .. Len(content[q])) = Len(content[q])
  <2>1. \A n \in Nat : IsFiniteSet(1 .. n) /\ Cardinality(1 .. n) = n
    BY FS_Interval
  <2> QED  BY <1>2, <2>1
<1>4. IsFiniteSet(Proc) /\ Cardinality(Proc) = NPROC
  BY <1>2, FS_Interval DEF Proc
<1>5. content[q] \in [1 .. Len(content[q]) -> Proc]
  BY <1>2
<1>6. PICK i, j \in 1 .. Len(content[q]) : i # j /\ content[q][i] = content[q][j]
  BY <1>3, <1>4, <1>5, FS_PigeonHole
<1> QED  BY <1>1, <1>6 DEF Apart

\* QInv is an invariant.
LEMMA QInvariant == Spec => []QInv
<1>1. Init => QInv
  BY QInit
<1>2. QInv /\ [Next]_vars => QInv'
  BY QStep, QueueBounded
<1> QED  BY <1>1, <1>2, PTL DEF Spec

\* In every state the next pointers of queue.c lead from the head of each
\* queue through exactly its processes, in order, to the tail; and the prev
\* pointers lead back whenever no core is inside the queue's lock.  For any
\* number of cores, processes and queues.
THEOREM DoublyLinkedHolds == Spec => []DoublyLinked
<1>1. QInv => DoublyLinked
  BY Zenon, QInvLinked
<1> QED  BY <1>1, QInvariant, PTL

\* A dequeue() after a nonempty() that was true finds a process, although
\* nonempty() is read outside the lock.
THEOREM NonemptyIsReliableHolds == Spec => []NonemptyIsReliable
<1>1. QInv => NonemptyIsReliable
  BY Zenon DEF QInv, CoreOK, NonemptyIsReliable
<1> QED  BY <1>1, QInvariant, PTL

\* The unlocked walk of remove() ends at the head of the queue the process
\* is in, whatever other cores enqueue meanwhile.
THEOREM RemoveFindsQueueHolds == Spec => []RemoveFindsQueue
<1>1. QInv => RemoveFindsQueue
  BY Zenon DEF QInv, CoreOK, RemoveFindsQueue, InQueue
<1> QED  BY <1>1, QInvariant, PTL

\* The linked queues of queue.c implement FIFO sequences of processes, with
\* the write of a next pointer as the step of each operation: no process is
\* lost, duplicated, reordered or found in two queues.
THEOREM ImplementsFifoHolds == Spec => ImplementsFifo
<1>1. Init => Fifo!Init
  BY Zenon, FifoInit
<1>2. QInv /\ [Next]_vars => [Fifo!Next]_(Fifo!specvars)
  BY Zenon, FifoStep
<1> QED  BY <1>1, <1>2, QInvariant, PTL DEF Spec, ImplementsFifo, Fifo!Spec
=============================================================================
