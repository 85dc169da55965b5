---------------------------- MODULE SchedProofs -----------------------------
(***************************************************************************)
(* The ready lists and the process table are exact, for any number of      *)
(* cores and processes and any priorities.                                 *)
(*                                                                         *)
(* The argument goes by core.  ListOK says that the three lists of a core  *)
(* hold each process of a set R once; enqueue adds a process to R, dequeue *)
(* and remove take one out of it, and the promotions of aging leave R      *)
(* alone.  The invariant says that R is the set of processes that are      *)
(* PRREADY and bound to the core.                                          *)
(***************************************************************************)
EXTENDS Sched, FiniteSetTheorems, TLAPS

Lists == [Prio -> Seq(Proc)]
Places(lists) == {x \in Prio \X Nat : x[2] \in 1 .. Len(lists[x[1]])}
Entry(lists, x) == lists[x[1]][x[2]]

ListOK(lists, R, prio) ==
  /\ lists \in Lists
  /\ \A p \in R : \E x \in Places(lists) : Entry(lists, x) = p
  /\ \A x \in Places(lists) : Entry(lists, x) \in R /\ prio[Entry(lists, x)] <= x[1]
  /\ \A x, y \in Places(lists) : Entry(lists, x) = Entry(lists, y) => x = y

dequeue(lists, j) == [lists EXCEPT ![j] = Tail(@)]

\* The processes that the ready lists of core c should hold.
ReadyOn(c, st, bound) == {p \in Proc : st[p] = "PRREADY" /\ bound[p] = c}

ListsMatch(rl, st, bound) ==
  /\ rl \in [Core -> Lists]
  /\ \A c \in Core : ListOK(rl[c], ReadyOn(c, st, bound), priority)

\* The states st and the bindings to cores, whatever the current processes:
\* processes in use after ready() are bound, null processes can always run.
TableOK(st, bound) ==
  /\ st \in [Proc -> State] /\ bound \in [Proc -> Core \cup {NoCore}]
  /\ \A p \in Proc : st[p] \in {"PRREADY", "PRCURR", "PRRECV"} => bound[p] \in Core
  /\ \A c \in Core : st[c] \in {"PRREADY", "PRCURR"} /\ bound[c] = c

\* A current process of another core than k has its state PRCURR, and so has
\* no other process.  What core k runs may be in any state.
CurrentBut(k, st, bound, cur) ==
  /\ cur \in [Core -> Proc]
  /\ \A c \in Core : bound[cur[c]] = c /\ (c # k => st[cur[c]] = "PRCURR")
  /\ \A p \in Proc : st[p] = "PRCURR" => cur[bound[p]] = p

InUse(st) == {p \in Proc : st[p] # "PRFREE"}

SInv ==
  /\ TypeOK
  /\ ListsMatch(readylist, state, core_affinity)
  /\ TableOK(state, core_affinity)
  /\ CurrentBut(NoCore, state, core_affinity, currpid)
  /\ numproc = Cardinality(InUse(state))
-----------------------------------------------------------------------------
\* enqueue() adds a process that is in none of the lists.
LEMMA EnqueueOK ==
  ASSUME NEW lists, NEW R, NEW prio \in [Proc -> Prio],
         NEW j \in Prio, NEW p \in Proc,
         ListOK(lists, R, prio), p \notin R, prio[p] <= j
  PROVE  ListOK(enqueue(lists, j, p), R \cup {p}, prio)
<1> DEFINE new == enqueue(lists, j, p)
           n == Len(lists[j])
           e == <<j, n + 1>>
<1>1. lists \in Lists
  BY DEF ListOK
<1>2. /\ new \in Lists /\ n \in Nat /\ Len(new[j]) = n + 1 /\ new[j][n + 1] = p
      /\ \A i \in 1 .. n : new[j][i] = lists[j][i]
      /\ \A l \in Prio \ {j} : new[l] = lists[l]
  BY <1>1 DEF enqueue, Lists
<1> HIDE DEF new
<1>3. Places(new) = Places(lists) \cup {e} /\ Entry(new, e) = p /\ e[1] = j
  <2>1. e \in Places(new) /\ Entry(new, e) = p /\ e[1] = j
    BY <1>2 DEF Places, Entry
  <2>2. ASSUME NEW x \in Prio \X Nat, x # e
        PROVE  x \in Places(new) <=> x \in Places(lists)
    <3>1. CASE x[1] = j
      BY <1>2, <2>2, <3>1 DEF Places
    <3>2. CASE x[1] # j
      BY <1>2, <3>2 DEF Places
    <3> QED  BY <3>1, <3>2
  <2>3. Places(new) \subseteq Prio \X Nat /\ Places(lists) \subseteq Prio \X Nat
    BY DEF Places
  <2> QED  BY <2>1, <2>2, <2>3
<1>4. \A x \in Places(lists) : Entry(new, x) = Entry(lists, x)
  BY <1>1, <1>2 DEF Places, Entry, Lists
<1> HIDE DEF e, n
<1> QED  BY <1>2, <1>3, <1>4 DEF ListOK, new

\* Taking one entry out of the lists, the others moving up.
LEMMA TakenOut ==
  ASSUME NEW lists, NEW R, NEW prio, ListOK(lists, R, prio),
         NEW e \in Places(lists), NEW new \in Lists,
         NEW was \in [Places(new) -> Places(lists) \ {e}],
         \A x \in Places(new) : was[x][1] = x[1] /\ Entry(new, x) = Entry(lists, was[x]),
         \A x, y \in Places(new) : was[x] = was[y] => x = y,
         \A y \in Places(lists) \ {e} : \E x \in Places(new) : was[x] = y
  PROVE  ListOK(new, R \ {Entry(lists, e)}, prio)
  BY DEF ListOK

\* dequeue() takes out the process at the head of a list.
LEMMA DequeueOK ==
  ASSUME NEW lists, NEW R, NEW prio, NEW j \in Prio,
         ListOK(lists, R, prio), lists[j] # <<>>
  PROVE  /\ Head(lists[j]) \in R /\ prio[Head(lists[j])] <= j
         /\ ListOK(dequeue(lists, j), R \ {Head(lists[j])}, prio)
<1> DEFINE new == dequeue(lists, j)
           n == Len(lists[j])
           e == <<j, 1>>
           was == [x \in Places(new) |-> IF x[1] = j THEN <<j, x[2] + 1>> ELSE x]
<1>1. lists \in Lists
  BY DEF ListOK
<1>2. /\ new \in Lists /\ n \in Nat \ {0} /\ Len(new[j]) = n - 1
      /\ \A i \in 1 .. n - 1 : new[j][i] = lists[j][i + 1]
      /\ \A l \in Prio \ {j} : new[l] = lists[l]
  BY <1>1 DEF dequeue, Lists
<1>3. e \in Places(lists) /\ Entry(lists, e) = Head(lists[j]) /\ e[1] = j
  BY <1>1, <1>2 DEF Places, Entry, Lists
<1> HIDE DEF new
<1>4. ASSUME NEW x \in Places(new)
      PROVE  /\ was[x] \in Places(lists) \ {e} /\ was[x][1] = x[1]
             /\ Entry(new, x) = Entry(lists, was[x])
  <2>1. CASE x[1] = j
    BY <1>1, <1>2, <2>1 DEF Places, Entry, Lists
  <2>2. CASE x[1] # j
    BY <1>1, <1>2, <2>2 DEF Places, Entry, Lists
  <2> QED  BY <2>1, <2>2
<1>5. \A x, y \in Places(new) : was[x] = was[y] => x = y
  BY DEF Places
<1>6. ASSUME NEW y \in Places(lists) \ {e}
      PROVE  \E x \in Places(new) : was[x] = y
  <2>1. CASE y[1] = j
    <3>1. <<j, y[2] - 1>> \in Places(new) /\ was[<<j, y[2] - 1>>] = y
      BY <1>1, <1>2, <2>1 DEF Places, Lists
    <3> QED  BY <3>1
  <2>2. CASE y[1] # j
    BY <1>1, <1>2, <2>2 DEF Places, Lists
  <2> QED  BY <2>1, <2>2
<1>7. was \in [Places(new) -> Places(lists) \ {e}]
  BY <1>4
<1> HIDE DEF was, e, n
<1>8. ListOK(new, R \ {Entry(lists, e)}, prio)
  BY <1>2, <1>3, <1>4, <1>5, <1>6, <1>7, TakenOut
<1> QED  BY <1>3, <1>8 DEF ListOK, new

\* remove() takes the process out wherever it is.
LEMMA RemoveOK ==
  ASSUME NEW lists, NEW R, NEW prio, ListOK(lists, R, prio), NEW p \in R
  PROVE  ListOK([j \in Prio |-> remove(lists[j], p)], R \ {p}, prio)
<1> DEFINE new == [l \in Prio |-> remove(lists[l], p)]
<1>1. lists \in Lists
  BY DEF ListOK
<1>2. PICK e \in Places(lists) : Entry(lists, e) = p
  BY DEF ListOK
<1>3. PICK j \in Prio, i \in Nat : e = <<j, i>>
  BY DEF Places
<1> DEFINE n == Len(lists[j])
           was == [x \in Places(new) |->
                     IF x[1] = j /\ x[2] >= i THEN <<j, x[2] + 1>> ELSE x]
<1>4. n \in Nat /\ i \in 1 .. n /\ lists[j][i] = p
  BY <1>1, <1>2, <1>3 DEF Places, Entry, Lists
<1>5. \A l \in Prio : \A m \in 1 .. Len(lists[l]) : lists[l][m] = p => l = j /\ m = i
  <2> SUFFICES ASSUME NEW l \in Prio, NEW m \in 1 .. Len(lists[l]), lists[l][m] = p
               PROVE  <<l, m>> = e
    BY <1>3
  <2>1. <<l, m>> \in Places(lists) /\ Entry(lists, <<l, m>>) = p
    BY <1>1 DEF Places, Entry, Lists
  <2> QED  BY <1>2, <2>1 DEF ListOK
<1>6. \A l \in Prio \ {j} : new[l] = lists[l]
  BY <1>5 DEF remove
<1>7. new[j] = SubSeq(lists[j], 1, i - 1) \o SubSeq(lists[j], i + 1, n)
  <2>1. (CHOOSE m \in 1 .. Len(lists[j]) : lists[j][m] = p) = i
    BY <1>4, <1>5
  <2> QED  BY <1>4, <2>1 DEF remove
<1>8. /\ new[j] \in Seq(Proc) /\ Len(new[j]) = n - 1
      /\ \A m \in 1 .. n - 1 : new[j][m] = IF m < i THEN lists[j][m] ELSE lists[j][m + 1]
  <2>1. lists[j] \in Seq(Proc)
    BY <1>1 DEF Lists
  <2> DEFINE before == SubSeq(lists[j], 1, i - 1)
             after == SubSeq(lists[j], i + 1, n)
  <2>2. /\ before \in Seq(Proc) /\ Len(before) = i - 1
        /\ \A m \in 1 .. i - 1 : before[m] = lists[j][m]
    BY <1>4, <2>1
  <2>3. /\ after \in Seq(Proc) /\ Len(after) = n - i
        /\ \A m \in 1 .. n - i : after[m] = lists[j][m + i]
    BY <1>4, <2>1
  <2>4. new[j] = before \o after
    BY <1>7
  <2> HIDE DEF before, after, new, n
  <2>5. new[j] \in Seq(Proc) /\ Len(new[j]) = n - 1
    <3>1. /\ before \o after \in Seq(Proc)
          /\ Len(before \o after) = Len(before) + Len(after)
      BY <2>2, <2>3
    <3> QED  BY <1>4, <2>2, <2>3, <2>4, <3>1
  <2>6. ASSUME NEW m \in 1 .. n - 1
        PROVE  new[j][m] = IF m < i THEN lists[j][m] ELSE lists[j][m + 1]
    <3>1. CASE m < i
      BY <1>4, <2>2, <2>3, <2>4, <3>1
    <3>2. CASE ~(m < i)
      <4>1. (m - i) + 1 \in 1 .. n - i /\ ((m - i) + 1) + i = m + 1
        BY <1>4, <3>2
      <4>2. new[j][m] = after[(m - i) + 1]
        BY <1>4, <2>2, <2>3, <2>4, <3>2
      <4> QED  BY <2>3, <3>2, <4>1, <4>2
    <3> QED  BY <3>1, <3>2
  <2> QED  BY <2>5, <2>6
<1>9. new \in Lists
  <2>1. \A l \in Prio : new[l] \in Seq(Proc)
    BY <1>1, <1>6, <1>8 DEF Lists
  <2> QED  BY <2>1 DEF Lists
<1> HIDE DEF new
<1>10. ASSUME NEW x \in Places(new)
       PROVE  /\ was[x] \in Places(lists) \ {e} /\ was[x][1] = x[1]
              /\ Entry(new, x) = Entry(lists, was[x])
  <2>1. CASE x[1] = j
    BY <1>1, <1>3, <1>4, <1>8, <2>1 DEF Places, Entry, Lists
  <2>2. CASE x[1] # j
    BY <1>1, <1>3, <1>6, <2>2 DEF Places, Entry, Lists
  <2> QED  BY <2>1, <2>2
<1>11. \A x, y \in Places(new) : was[x] = was[y] => x = y
  BY <1>4 DEF Places
<1>12. ASSUME NEW y \in Places(lists) \ {e}
       PROVE  \E x \in Places(new) : was[x] = y
  <2>1. CASE y[1] = j /\ y[2] > i
    <3>1. <<j, y[2] - 1>> \in Places(new) /\ was[<<j, y[2] - 1>>] = y
      BY <1>1, <1>4, <1>8, <2>1 DEF Places, Lists
    <3> QED  BY <3>1
  <2>2. CASE y[1] = j /\ y[2] < i
    <3>1. y \in Places(new) /\ was[y] = y
      BY <1>1, <1>4, <1>8, <2>2 DEF Places, Lists
    <3> QED  BY <3>1
  <2>3. CASE y[1] # j
    <3>1. y \in Places(new) /\ was[y] = y
      BY <1>1, <1>6, <2>3 DEF Places, Lists
    <3> QED  BY <3>1
  <2>4. y[2] \in Nat /\ (y[1] = j => y[2] # i)
    BY <1>3 DEF Places
  <2> QED  BY <1>4, <2>1, <2>2, <2>3, <2>4
<1>13. was \in [Places(new) -> Places(lists) \ {e}]
  BY <1>10
<1> HIDE DEF was, n
<1>14. ListOK(new, R \ {Entry(lists, e)}, prio)
  BY <1>9, <1>10, <1>11, <1>12, <1>13, TakenOut
<1> QED  BY <1>2, <1>14 DEF new

\* A promotion moves the head of a list to the end of a higher one.
LEMMA MoveHeadOK ==
  ASSUME NEW lists, NEW R \in SUBSET Proc, NEW prio \in [Proc -> Prio],
         NEW from \in Prio, NEW to \in Prio, from < to, ListOK(lists, R, prio)
  PROVE  ListOK(MoveHead(lists, from, to), R, prio)
<1>1. CASE lists[from] = <<>>
  BY <1>1 DEF MoveHead
<1>2. CASE lists[from] # <<>>
  <2> DEFINE p == Head(lists[from])
             rest == dequeue(lists, from)
  <2>1. p \in R /\ prio[p] <= from /\ ListOK(rest, R \ {p}, prio)
    BY <1>2, DequeueOK
  <2>2. prio[p] <= to
    BY <2>1 DEF Prio, PRIORITY_LOW, PRIORITY_HIGH
  <2> HIDE DEF p, rest
  <2>3. ListOK(enqueue(rest, to, p), (R \ {p}) \cup {p}, prio)
    BY <2>1, <2>2, EnqueueOK
  <2>4. (R \ {p}) \cup {p} = R
    BY <2>1
  <2>5. MoveHead(lists, from, to) = enqueue(rest, to, p)
    <3>1. lists \in Lists /\ from # to
      BY DEF ListOK, Prio, PRIORITY_LOW, PRIORITY_HIGH
    <3>2. \A l \in Prio : MoveHead(lists, from, to)[l] = enqueue(rest, to, p)[l]
      BY <1>2, <3>1 DEF MoveHead, enqueue, dequeue, rest, p, Lists
    <3>3. /\ MoveHead(lists, from, to) = [l \in Prio |-> MoveHead(lists, from, to)[l]]
          /\ enqueue(rest, to, p) = [l \in Prio |-> enqueue(rest, to, p)[l]]
      BY <1>2, <3>1 DEF MoveHead, enqueue, dequeue, rest, p, Lists
    <3> QED  BY <3>2, <3>3
  <2> QED  BY <2>3, <2>4, <2>5
<1> QED  BY <1>1, <1>2

\* Aging changes the lists that processes are in, not which processes they hold.
LEMMA AgedOK ==
  ASSUME NEW lists, NEW R \in SUBSET Proc, priority \in [Proc -> Prio], NEW k,
         ListOK(lists, R, priority)
  PROVE  ListOK(Aged(k, lists), R, priority)
<1> DEFINE medium == IF MediumDue(k) THEN MoveHead(lists, PRIORITY_MED, PRIORITY_HIGH) ELSE lists
<1> USE DEF Prio, PRIORITY_LOW, PRIORITY_MED, PRIORITY_HIGH
<1>1. ListOK(medium, R, priority)
  BY MoveHeadOK
<1> HIDE DEF medium
<1>2. ListOK(MoveHead(medium, PRIORITY_LOW, PRIORITY_MED), R, priority)
  BY <1>1, MoveHeadOK
<1> QED  BY <1>1, <1>2 DEF Aged, medium

\* If there is a process in the lists, resched() finds one.
LEMMA HighestFound ==
  ASSUME NEW lists, NEW R, NEW prio, ListOK(lists, R, prio), R # {}
  PROVE  HighestPrio(lists) \in Prio /\ lists[HighestPrio(lists)] # <<>>
<1> USE DEF Prio, PRIORITY_LOW, PRIORITY_MED, PRIORITY_HIGH
<1>1. PICK x \in Places(lists) : TRUE
  BY DEF ListOK
<1>2. PICK j \in Prio : j = x[1] /\ lists[j] # <<>>
  BY <1>1 DEF Places, ListOK, Lists
<1>3. j \in {0, 1, 2}
  OBVIOUS
<1> QED  BY <1>2, <1>3 DEF HighestPrio

\* resched(): the old process goes back to a list if it may go on, the new
\* one leaves its list, and every core runs a process of its own.
LEMMA ReschedOK ==
  ASSUME TypeOK, NEW k \in Core, NEW st, NEW rl, NEW bound,
         ListsMatch(rl, st, bound), TableOK(st, bound), CurrentBut(k, st, bound, currpid),
         Resched(k, st, rl)
  PROVE  /\ ListsMatch(readylist', state', bound)
         /\ TableOK(state', bound)
         /\ CurrentBut(NoCore, state', bound, currpid')
         /\ \A p \in Proc : state'[p] = "PRFREE" <=> st[p] = "PRFREE"
         /\ preempt' \in [Core -> 1 .. QUANTUM]
         /\ promote_medium' \in [Core -> 1 .. QUANTUM]
         /\ promote_low' \in [Core -> 1 .. QUANTUM]
<1> DEFINE cur == currpid[k]
           R == ReadyOn(k, st, bound)
           runnable == IF st[cur] = "PRCURR" THEN R \cup {cur} ELSE R
           lists == Requeued(k, st, Aged(k, rl[k]))
           top == HighestPrio(lists)
           new == Head(lists[top])
<1>0. /\ priority \in [Proc -> Prio] /\ cur \in Proc /\ bound[cur] = k
      /\ st \in [Proc -> State] /\ NoCore \notin Core
  <2>1. NoCore \notin Core
    BY SchedAssumption DEF Core, NoCore
  <2> QED  BY <2>1 DEF TypeOK, CurrentBut, TableOK
<1>1. R \in SUBSET Proc /\ ListOK(Aged(k, rl[k]), R, priority)
  <2>1. R \in SUBSET Proc /\ ListOK(rl[k], R, priority)
    BY DEF ListsMatch, ReadyOn
  <2> HIDE DEF R
  <2> QED  BY <1>0, <2>1, AgedOK
<1>2. ListOK(lists, runnable, priority)
  <2>1. CASE st[cur] = "PRCURR"
    <3>1. cur \notin R /\ priority[cur] \in Prio /\ priority[cur] <= priority[cur]
      BY <1>0, <2>1 DEF ReadyOn, Prio, PRIORITY_LOW, PRIORITY_HIGH
    <3> HIDE DEF R
    <3>2. ListOK(enqueue(Aged(k, rl[k]), priority[cur], cur), R \cup {cur}, priority)
      BY <1>0, <1>1, <3>1, EnqueueOK
    <3> QED  BY <2>1, <3>2 DEF Requeued
  <2>2. CASE st[cur] # "PRCURR"
    BY <1>1, <2>2 DEF Requeued
  <2> QED  BY <2>1, <2>2
<1>3. k \in runnable
  BY <1>0, SchedAssumption DEF ReadyOn, TableOK, CurrentBut, Core, Proc
<1>4. runnable \in SUBSET Proc /\ \A p \in runnable : bound[p] = k
  BY <1>0, <1>1 DEF ReadyOn
<1> HIDE DEF runnable, lists
<1>5. top \in Prio /\ lists[top] # <<>>
  BY <1>2, <1>3, HighestFound
<1> HIDE DEF top
<1>6. new \in runnable /\ ListOK(dequeue(lists, top), runnable \ {new}, priority)
  BY <1>2, <1>5, DequeueOK
<1>7. /\ readylist' = [rl EXCEPT ![k] = dequeue(lists, top)]
      /\ currpid' = [currpid EXCEPT ![k] = new]
      /\ state' = [p \in Proc |-> IF p = new THEN "PRCURR"
                                  ELSE IF p = cur /\ st[p] = "PRCURR" THEN "PRREADY"
                                  ELSE st[p]]
  <2>1. lists \in Lists
    BY <1>2 DEF ListOK
  <2>2. [lists EXCEPT ![top] = IF @ = <<>> THEN @ ELSE Tail(@)] = dequeue(lists, top)
    BY <1>5, <2>1 DEF dequeue, Lists
  <2> QED  BY <1>5, <2>2 DEF Resched, lists, top
<1> HIDE DEF new
<1>8. /\ st[new] \in {"PRREADY", "PRCURR"} /\ bound[new] = k /\ new \in Proc
  BY <1>4, <1>6 DEF runnable, ReadyOn
<1>9. ListsMatch(readylist', state', bound)
  <2>1. ReadyOn(k, state', bound) = runnable \ {new}
    BY <1>0, <1>7, <1>8 DEF ReadyOn, runnable
  <2>2. \A c \in Core \ {k} : ReadyOn(c, state', bound) = ReadyOn(c, st, bound)
    BY <1>0, <1>7, <1>8 DEF ReadyOn
  <2>3. dequeue(lists, top) \in Lists
    BY <1>6 DEF ListOK
  <2> HIDE DEF R, cur
  <2> QED  BY <1>6, <1>7, <2>1, <2>2, <2>3 DEF ListsMatch
<1>10. TableOK(state', bound)
  <2>1. state' \in [Proc -> State]
    BY <1>0, <1>7 DEF State
  <2> QED  BY <1>0, <1>7, <1>8, <2>1, SchedAssumption DEF TableOK, Core, Proc
<1>11. CurrentBut(NoCore, state', bound, currpid')
  BY <1>0, <1>7, <1>8 DEF CurrentBut, TableOK
<1>12. \A p \in Proc : state'[p] = "PRFREE" <=> st[p] = "PRFREE"
  BY <1>7, <1>8
<1>13. /\ preempt' \in [Core -> 1 .. QUANTUM] /\ promote_medium' \in [Core -> 1 .. QUANTUM]
       /\ promote_low' \in [Core -> 1 .. QUANTUM]
  <2>1. PromoteMedium(k) \in 1 .. QUANTUM /\ PromoteLow(k) \in 1 .. QUANTUM
    BY SchedAssumption DEF TypeOK, PromoteMedium, PromoteLow, MediumDue, LowDue
  <2> QED  BY <2>1, SchedAssumption DEF TypeOK, Resched
<1> QED  BY <1>9, <1>10, <1>11, <1>12, <1>13

-----------------------------------------------------------------------------
\* numproc is changed together with the number of slots in use.
LEMMA CountOK ==
  ASSUME NEW st \in [Proc -> State], NEW p \in Proc, NEW s
  PROVE  LET st2 == [st EXCEPT ![p] = s]
             n == Cardinality(InUse(st))
         IN  /\ n \in Nat
             /\ st[p] = "PRFREE" /\ s # "PRFREE" => Cardinality(InUse(st2)) = n + 1
             /\ st[p] # "PRFREE" /\ s = "PRFREE" => Cardinality(InUse(st2)) = n - 1 /\ n > 0
             /\ st[p] # "PRFREE" /\ s # "PRFREE" => Cardinality(InUse(st2)) = n
<1> DEFINE S == InUse(st)
           T == InUse([st EXCEPT ![p] = s])
<1>1. IsFiniteSet(Proc)
  BY FS_Interval, SchedAssumption DEF Proc
<1>2. IsFiniteSet(S) /\ Cardinality(S) \in Nat
  BY <1>1, FS_Subset, FS_CardinalityType DEF InUse
<1>3. /\ st[p] = "PRFREE" /\ s # "PRFREE" => T = S \cup {p} /\ p \notin S
      /\ st[p] # "PRFREE" /\ s = "PRFREE" => T = S \ {p} /\ p \in S
      /\ st[p] # "PRFREE" /\ s # "PRFREE" => T = S
  BY DEF InUse
<1> HIDE DEF S, T
<1>4. IsFiniteSet(S \ {p}) /\ Cardinality(S \ {p}) \in Nat
  BY <1>2, FS_RemoveElement, FS_CardinalityType
<1>5. p \in S => Cardinality(S \ {p}) = Cardinality(S) - 1
  BY <1>2, FS_RemoveElement
<1>6. p \notin S => Cardinality(S \cup {p}) = Cardinality(S) + 1
  BY <1>2, FS_AddElement
<1>7. p \in S => Cardinality(S) > 0
  BY <1>2, <1>4, <1>5
<1> QED  BY <1>2, <1>3, <1>5, <1>6, <1>7 DEF S, T

\* Changing the state of a process that is in no list, to another one that
\* is in no list, leaves the lists right.
LEMMA ListsStay ==
  ASSUME TypeOK, NEW rl, NEW st \in [Proc -> State], NEW bound, NEW p \in Proc, NEW s,
         NEW bound2, \A q \in Proc \ {p} : bound2[q] = bound[q],
         s # "PRREADY", st[p] # "PRREADY",
         ListsMatch(rl, st, bound)
  PROVE  ListsMatch(rl, [st EXCEPT ![p] = s], bound2)
<1>1. \A c \in Core : ReadyOn(c, [st EXCEPT ![p] = s], bound2) = ReadyOn(c, st, bound)
  BY DEF ReadyOn
<1> QED  BY <1>1 DEF ListsMatch

\* ready() puts a process that was in no list into one of the core it binds
\* the process to.
LEMMA ListsReady ==
  ASSUME TypeOK, NEW p \in Proc, NEW home \in Core, state[p] # "PRREADY",
         ListsMatch(readylist, state, core_affinity)
  PROVE  ListsMatch([readylist EXCEPT ![home] = enqueue(@, priority[p], p)],
                    [state EXCEPT ![p] = "PRREADY"], [core_affinity EXCEPT ![p] = home])
<1> DEFINE st == [state EXCEPT ![p] = "PRREADY"]
           bound == [core_affinity EXCEPT ![p] = home]
           R == ReadyOn(home, state, core_affinity)
           lists == enqueue(readylist[home], priority[p], p)
<1>1. /\ ReadyOn(home, st, bound) = R \cup {p} /\ p \notin R
      /\ \A c \in Core \ {home} : ReadyOn(c, st, bound) = ReadyOn(c, state, core_affinity)
  BY DEF TypeOK, ReadyOn
<1>2. ListOK(readylist[home], R, priority) /\ readylist \in [Core -> Lists]
  BY DEF ListsMatch
<1>3. priority \in [Proc -> Prio] /\ priority[p] \in Prio /\ priority[p] <= priority[p]
  BY DEF TypeOK, Prio, PRIORITY_LOW, PRIORITY_HIGH
<1> HIDE DEF R, st, bound
<1>4. ListOK(lists, R \cup {p}, priority)
  BY <1>1, <1>2, <1>3, EnqueueOK
<1>5. lists \in Lists
  BY <1>4 DEF ListOK
<1> HIDE DEF lists
<1>6. ListsMatch([readylist EXCEPT ![home] = lists], st, bound)
  BY <1>1, <1>2, <1>4, <1>5 DEF ListsMatch
<1> QED  BY <1>6 DEF lists, st, bound

\* SInv holds after a step if its parts do.
LEMMA Conclude ==
  ASSUME UNCHANGED priority, priority \in [Proc -> Prio], irq' \in [Proc -> BOOLEAN],
         ListsMatch(readylist', state', core_affinity'), TableOK(state', core_affinity'),
         CurrentBut(NoCore, state', core_affinity', currpid'),
         numproc' = Cardinality(InUse(state')), numproc' \in Nat,
         preempt' \in [Core -> 1 .. QUANTUM], promote_medium' \in [Core -> 1 .. QUANTUM],
         promote_low' \in [Core -> 1 .. QUANTUM]
  PROVE  SInv'
<1>1. TypeOK'
  BY DEF TypeOK, ListsMatch, TableOK, CurrentBut, Lists
<1>2. ListsMatch(readylist, state, core_affinity)'
  BY DEF ListsMatch
<1> QED  BY <1>1, <1>2 DEF SInv, TableOK, CurrentBut

\* A step that ends in resched().
LEMMA ReschedStep ==
  ASSUME SInv, NEW k \in Core, NEW st, NEW rl,
         ListsMatch(rl, st, core_affinity'), TableOK(st, core_affinity'),
         CurrentBut(k, st, core_affinity', currpid), Resched(k, st, rl),
         UNCHANGED <<priority, irq>>,
         numproc' = Cardinality(InUse(st)), numproc' \in Nat
  PROVE  SInv'
<1>1. /\ ListsMatch(readylist', state', core_affinity') /\ TableOK(state', core_affinity')
      /\ CurrentBut(NoCore, state', core_affinity', currpid')
      /\ \A p \in Proc : state'[p] = "PRFREE" <=> st[p] = "PRFREE"
      /\ preempt' \in [Core -> 1 .. QUANTUM] /\ promote_medium' \in [Core -> 1 .. QUANTUM]
      /\ promote_low' \in [Core -> 1 .. QUANTUM]
  BY ReschedOK DEF SInv
<1>2. InUse(state') = InUse(st)
  BY <1>1 DEF InUse
<1>3. priority \in [Proc -> Prio] /\ irq' \in [Proc -> BOOLEAN]
  BY DEF SInv, TypeOK
<1> QED  BY <1>1, <1>2, <1>3, Conclude

\* create() takes a slot that is free, so in no list and on no core.
LEMMA CreateStep ==
  ASSUME SInv, NEW k \in Core, NEW p \in Proc, NEW prio \in UserPrio, create(k, p, prio)
  PROVE  SInv'
<1>1. /\ state[p] = "PRFREE" /\ state' = [state EXCEPT ![p] = "PRSUSP"]
      /\ core_affinity' = [core_affinity EXCEPT ![p] = NoCore]
      /\ priority' = [priority EXCEPT ![p] = prio] /\ irq' = [irq EXCEPT ![p] = FALSE]
      /\ numproc' = numproc + 1 /\ UNCHANGED schedvars
  BY DEF create, newpid
<1>2. /\ state \in [Proc -> State] /\ core_affinity \in [Proc -> Core \cup {NoCore}]
      /\ priority \in [Proc -> Prio] /\ prio \in Prio
  BY SchedAssumption DEF SInv, TypeOK
<1>3. ListsMatch(readylist, state, core_affinity)'
  <2>1. \A c \in Core : ReadyOn(c, state', core_affinity') = ReadyOn(c, state, core_affinity)
    BY <1>1, <1>2 DEF ReadyOn
  <2>2. ASSUME NEW c \in Core
        PROVE  ListOK(readylist[c], ReadyOn(c, state, core_affinity), priority')
    <3>1. \A q \in ReadyOn(c, state, core_affinity) : priority'[q] = priority[q]
      BY <1>1, <1>2 DEF ReadyOn
    <3> QED  BY <3>1 DEF SInv, ListsMatch, ListOK
  <2> QED  BY <1>1, <2>1, <2>2 DEF SInv, ListsMatch, schedvars
<1>4. TableOK(state, core_affinity)'
  <2>1. p \notin Core
    BY <1>1 DEF SInv, TableOK
  <2> QED  BY <1>1, <1>2, <2>1, SchedAssumption DEF SInv, TableOK, State, Core, Proc
<1>5. CurrentBut(NoCore, state, core_affinity, currpid)'
  <2>1. NoCore \notin Core
    BY SchedAssumption DEF Core, NoCore
  <2>2. \A c \in Core : currpid[c] # p
    BY <1>1, <2>1 DEF SInv, CurrentBut
  <2> QED  BY <1>1, <1>2, <2>1, <2>2 DEF SInv, CurrentBut, schedvars
<1>6. numproc' = Cardinality(InUse(state')) /\ numproc' \in Nat
  <2>1. /\ Cardinality(InUse(state)) \in Nat
        /\ Cardinality(InUse([state EXCEPT ![p] = "PRSUSP"])) = Cardinality(InUse(state)) + 1
    BY <1>1, <1>2, CountOK
  <2> QED  BY <1>1, <2>1 DEF SInv
<1>7. TypeOK'
  BY <1>1, <1>2, <1>4, <1>6 DEF SInv, TypeOK, TableOK, schedvars
<1> QED  BY <1>3, <1>4, <1>5, <1>6, <1>7 DEF SInv

\* ready(): the process was suspended or blocked, and is bound to a core from
\* now on; it may take the core at once.
LEMMA ReadyStep ==
  ASSUME SInv, NEW k \in Core, NEW p \in Proc, NEW resch, NEW core \in Core,
         state[p] \in {"PRSUSP", "PRRECV"}, ready(k, p, resch, core)
  PROVE  SInv'
<1> DEFINE home == Home(p, core)
           st == [state EXCEPT ![p] = "PRREADY"]
           rl == [readylist EXCEPT ![home] = enqueue(@, priority[p], p)]
           bound == [core_affinity EXCEPT ![p] = home]
<1>0. /\ TypeOK /\ state \in [Proc -> State] /\ priority \in [Proc -> Prio]
      /\ core_affinity \in [Proc -> Core \cup {NoCore}] /\ irq \in [Proc -> BOOLEAN]
  BY DEF SInv, TypeOK
<1>1. home \in Core
  BY <1>0 DEF Home
<1>2. /\ core_affinity' = bound /\ UNCHANGED <<priority, irq, numproc>>
      /\ \/ Resched(k, st, rl)
         \/ /\ state' = st /\ readylist' = rl
            /\ UNCHANGED <<currpid, preempt, promote_medium, promote_low>>
  BY DEF ready
<1>3. ListsMatch(rl, st, bound)
  BY <1>0, <1>1, ListsReady DEF SInv
<1> HIDE DEF home, rl
<1>4. p \notin Core
  BY DEF SInv, TableOK
<1>5. TableOK(st, bound)
  BY <1>0, <1>1, <1>4, SchedAssumption DEF SInv, TableOK, State, Core, Proc
<1>6. NoCore \notin Core /\ \A c \in Core : currpid[c] # p
  <2>1. NoCore \notin Core
    BY SchedAssumption DEF Core, NoCore
  <2> QED  BY <2>1 DEF SInv, CurrentBut
<1>7. CurrentBut(NoCore, st, bound, currpid) /\ CurrentBut(k, st, bound, currpid)
  BY <1>0, <1>6 DEF SInv, CurrentBut
<1>8. numproc' = Cardinality(InUse(st)) /\ numproc' \in Nat
  <2>1. InUse(st) = InUse(state)
    BY <1>0 DEF InUse
  <2> QED  BY <1>2, <2>1 DEF SInv, TypeOK
<1> HIDE DEF st, bound
<1>9. CASE Resched(k, st, rl)
  BY <1>2, <1>3, <1>5, <1>7, <1>8, <1>9, ReschedStep
<1>10. CASE /\ state' = st /\ readylist' = rl
            /\ UNCHANGED <<currpid, preempt, promote_medium, promote_low>>
  <2>1. /\ preempt' \in [Core -> 1 .. QUANTUM] /\ promote_medium' \in [Core -> 1 .. QUANTUM]
        /\ promote_low' \in [Core -> 1 .. QUANTUM]
    BY <1>0, <1>10 DEF TypeOK
  <2> QED  BY <1>0, <1>2, <1>3, <1>5, <1>7, <1>8, <1>10, <2>1, Conclude
<1> QED  BY <1>2, <1>9, <1>10

\* recv() blocks the process that runs, which is in no list.
LEMMA BlockStep ==
  ASSUME SInv, NEW k \in Core, Block(k)
  PROVE  SInv'
<1> DEFINE p == currpid[k]
           st == [state EXCEPT ![p] = "PRRECV"]
<1>0. /\ TypeOK /\ state \in [Proc -> State] /\ p \in Proc /\ state[p] = "PRCURR"
      /\ core_affinity \in [Proc -> Core \cup {NoCore}] /\ core_affinity[p] = k
  <2>1. k # NoCore
    BY SchedAssumption DEF Core, NoCore
  <2> QED  BY <2>1 DEF SInv, TypeOK, CurrentBut
<1>1. p \notin Core /\ Resched(k, st, readylist) /\ UNCHANGED <<priority, core_affinity, irq, numproc>>
  BY DEF Block, User, Null
<1>2. ListsMatch(readylist, st, core_affinity)
  BY <1>0, ListsStay DEF SInv
<1>3. TableOK(st, core_affinity)
  BY <1>0, <1>1, SchedAssumption DEF SInv, TableOK, State, Core, Proc
<1>4. CurrentBut(k, st, core_affinity, currpid)
  <2>1. /\ currpid \in [Core -> Proc] /\ NoCore \notin Core
        /\ \A c \in Core : core_affinity[currpid[c]] = c /\ state[currpid[c]] = "PRCURR"
        /\ \A q \in Proc : state[q] = "PRCURR" => currpid[core_affinity[q]] = q
    BY SchedAssumption DEF SInv, CurrentBut, Core, NoCore
  <2>2. \A c \in Core \ {k} : currpid[c] # p
    BY <1>0, <2>1
  <2>3. \A q \in Proc : st[q] = "PRCURR" => state[q] = "PRCURR"
    BY <1>0
  <2>4. \A c \in Core \ {k} : st[currpid[c]] = "PRCURR"
    BY <1>0, <2>1, <2>2
  <2> QED  BY <2>1, <2>3, <2>4 DEF CurrentBut
<1>5. numproc' = Cardinality(InUse(st)) /\ numproc' \in Nat
  <2>1. InUse(st) = InUse(state)
    BY <1>0 DEF InUse
  <2> QED  BY <1>1, <2>1 DEF SInv, TypeOK
<1> HIDE DEF st, p
<1> QED  BY <1>1, <1>2, <1>3, <1>4, <1>5, ReschedStep

\* A resched() that nothing precedes: of the null loops and the clock.
LEMMA YieldStep ==
  ASSUME SInv, NEW k \in Core, Resched(k, state, readylist),
         UNCHANGED <<priority, core_affinity, irq, numproc>>
  PROVE  SInv'
<1>1. CurrentBut(k, state, core_affinity, currpid)
  <2>1. NoCore \notin Core
    BY SchedAssumption DEF Core, NoCore
  <2> QED  BY <2>1 DEF SInv, CurrentBut
<1>2. numproc' = Cardinality(InUse(state)) /\ numproc' \in Nat
  BY DEF SInv, TypeOK
<1>3. ListsMatch(readylist, state, core_affinity) /\ TableOK(state, core_affinity)
  BY DEF SInv
<1> QED  BY <1>1, <1>2, <1>3, ReschedStep

\* A step that changes neither lists nor states nor current processes.
LEMMA QuietStep ==
  ASSUME SInv, UNCHANGED <<state, priority, core_affinity, readylist, currpid, numproc>>,
         irq' \in [Proc -> BOOLEAN], preempt' \in [Core -> 1 .. QUANTUM],
         UNCHANGED <<promote_medium, promote_low>>
  PROVE  SInv'
<1>1. TypeOK'
  BY DEF SInv, TypeOK
<1>2. ListsMatch(readylist, state, core_affinity)' /\ TableOK(state, core_affinity)'
  BY DEF SInv, ListsMatch, TableOK
<1>3. CurrentBut(NoCore, state, core_affinity, currpid)'
  BY DEF SInv, CurrentBut
<1> QED  BY <1>1, <1>2, <1>3 DEF SInv

\* kill(): a process that runs gives up its core, one that is ready leaves
\* its list, and the slot is free.
LEMMA KillStep ==
  ASSUME SInv, NEW k \in Core, NEW p \in Proc, kill(k, p)
  PROVE  SInv'
<1> DEFINE st == [state EXCEPT ![p] = "PRFREE"]
<1>0. /\ TypeOK /\ state \in [Proc -> State] /\ priority \in [Proc -> Prio]
      /\ core_affinity \in [Proc -> Core \cup {NoCore}] /\ irq \in [Proc -> BOOLEAN]
  BY DEF SInv, TypeOK
<1>1. /\ p \notin Core /\ core_affinity[p] = k /\ state[p] # "PRFREE"
      /\ numproc' = numproc - 1 /\ UNCHANGED <<priority, core_affinity, irq>>
  BY DEF kill, MayKill, Null
<1>2. /\ currpid \in [Core -> Proc] /\ NoCore \notin Core
      /\ \A c \in Core : core_affinity[currpid[c]] = c /\ state[currpid[c]] = "PRCURR"
      /\ \A q \in Proc : state[q] = "PRCURR" => currpid[core_affinity[q]] = q
  BY SchedAssumption DEF SInv, CurrentBut, Core, NoCore
<1>3. TableOK(st, core_affinity)
  BY <1>0, <1>1, SchedAssumption DEF SInv, TableOK, State, Core, Proc
<1>4. numproc' = Cardinality(InUse(st)) /\ numproc' \in Nat
  <2>1. /\ Cardinality(InUse(state)) \in Nat /\ Cardinality(InUse(state)) > 0
        /\ Cardinality(InUse(st)) = Cardinality(InUse(state)) - 1
    BY <1>0, <1>1, CountOK
  <2> QED  BY <1>1, <2>1 DEF SInv
<1>5. CurrentBut(k, st, core_affinity, currpid)
  <2>1. \A c \in Core \ {k} : currpid[c] # p
    BY <1>1, <1>2
  <2>2. \A q \in Proc : st[q] = "PRCURR" => state[q] = "PRCURR"
    BY <1>0
  <2>3. \A c \in Core \ {k} : st[currpid[c]] = "PRCURR"
    BY <1>0, <1>2, <2>1
  <2> QED  BY <1>2, <2>2, <2>3 DEF CurrentBut
<1>6. state[p] # "PRREADY" => ListsMatch(readylist, st, core_affinity)
  BY <1>0, ListsStay DEF SInv
<1>7. ASSUME state[p] # "PRCURR" PROVE CurrentBut(NoCore, st, core_affinity, currpid)
  <2>1. st[currpid[k]] = "PRCURR"
    BY <1>0, <1>2, <1>7
  <2> QED  BY <1>2, <1>5, <2>1 DEF CurrentBut
<1>8. /\ preempt \in [Core -> 1 .. QUANTUM] /\ promote_medium \in [Core -> 1 .. QUANTUM]
      /\ promote_low \in [Core -> 1 .. QUANTUM]
  BY <1>0 DEF TypeOK
<1>9. CASE state[p] = "PRCURR"
  <2>1. Resched(k, st, readylist)
    BY <1>9 DEF kill
  <2>2. ListsMatch(readylist, st, core_affinity)
    BY <1>6, <1>9
  <2> HIDE DEF st
  <2> QED  BY <1>1, <1>3, <1>4, <1>5, <2>1, <2>2, ReschedStep
<1>10. CASE state[p] = "PRREADY"
  <2> DEFINE lists == [j \in Prio |-> remove(readylist[k][j], p)]
             R == ReadyOn(k, state, core_affinity)
  <2>1. /\ readylist' = [readylist EXCEPT ![k] = lists] /\ state' = st
        /\ UNCHANGED <<currpid, preempt, promote_medium, promote_low>>
    BY <1>10 DEF kill
  <2>2. p \in R /\ ListOK(readylist[k], R, priority) /\ readylist \in [Core -> Lists]
    BY <1>1, <1>10 DEF SInv, ListsMatch, ReadyOn
  <2>3. /\ ReadyOn(k, st, core_affinity) = R \ {p}
        /\ \A c \in Core \ {k} : ReadyOn(c, st, core_affinity) = ReadyOn(c, state, core_affinity)
    BY <1>0, <1>1 DEF ReadyOn
  <2> HIDE DEF R
  <2>4. ListOK(lists, R \ {p}, priority)
    BY <2>2, RemoveOK
  <2> HIDE DEF lists, st
  <2>5. lists \in Lists
    BY <2>4 DEF ListOK
  <2>6. ListsMatch(readylist', st, core_affinity)
    BY <2>1, <2>2, <2>3, <2>4, <2>5 DEF SInv, ListsMatch
  <2> QED  BY <1>0, <1>1, <1>3, <1>4, <1>7, <1>8, <1>10, <2>1, <2>6, Conclude
<1>11. CASE state[p] \notin {"PRCURR", "PRREADY"}
  <2>1. state' = st /\ UNCHANGED schedvars
    BY <1>11 DEF kill
  <2>2. ListsMatch(readylist', st, core_affinity)
    BY <1>6, <1>11, <2>1 DEF schedvars
  <2> HIDE DEF st
  <2> QED  BY <1>0, <1>1, <1>3, <1>4, <1>7, <1>8, <1>11, <2>1, <2>2, Conclude DEF schedvars
<1> QED  BY <1>9, <1>10, <1>11

\* Every step of every core keeps SInv.
LEMMA StepOK == SInv /\ [Next]_vars => SInv'
<1> SUFFICES ASSUME SInv, [Next]_vars PROVE SInv'
  OBVIOUS
<1>0. TypeOK
  BY DEF SInv
<1>1. ASSUME NEW k \in Core, NEW p \in Proc, NEW prio \in UserPrio, create(k, p, prio)
      PROVE  SInv'
  BY <1>1, CreateStep
<1>2. ASSUME NEW k \in Core, NEW p \in Proc, NEW resch \in BOOLEAN, Wake(k, p, resch)
      PROVE  SInv'
  <2>1. core_affinity[p] \in Core
    BY <1>2 DEF Wake, SInv, TableOK
  <2> QED  BY <1>2, <2>1, ReadyStep DEF Wake
<1>3. ASSUME NEW k \in Core, NEW p \in Proc, NEW resch \in BOOLEAN, NEW c \in Core,
             Start(k, p, resch, c)
      PROVE  SInv'
  BY <1>3, ReadyStep DEF Start
<1>4. ASSUME NEW k \in Core, NEW p \in Proc, kill(k, p) PROVE SInv'
  BY <1>4, KillStep
<1>5. ASSUME NEW k \in Core, Block(k) PROVE SInv'
  BY <1>5, BlockStep
<1>6. ASSUME NEW k \in Core, NullLoop(k) PROVE SInv'
  BY <1>6, YieldStep DEF NullLoop
<1>7. ASSUME NEW k \in Core, enable(k) PROVE SInv'
  BY <1>0, <1>7, QuietStep DEF enable, TypeOK, schedvars
<1>8. ASSUME NEW k \in Core, clkhandler(k) PROVE SInv'
  <2>1. CASE preempt[k] - 1 <= 0
    BY <1>8, <2>1, YieldStep DEF clkhandler
  <2>2. CASE ~(preempt[k] - 1 <= 0)
    <3>1. preempt' \in [Core -> 1 .. QUANTUM] /\ irq' \in [Proc -> BOOLEAN]
      <4>1. preempt \in [Core -> 1 .. QUANTUM] /\ irq \in [Proc -> BOOLEAN]
        BY <1>0 DEF TypeOK
      <4>2. preempt[k] - 1 \in 1 .. QUANTUM
        BY <2>2, <4>1, SchedAssumption
      <4>3. preempt' = [preempt EXCEPT ![k] = preempt[k] - 1] /\ irq' = irq
        BY <1>8, <2>2 DEF clkhandler
      <4> QED  BY <4>1, <4>2, <4>3
    <3> QED  BY <1>8, <2>2, <3>1, QuietStep DEF clkhandler
  <2> QED  BY <2>1, <2>2
<1>9. CASE UNCHANGED vars
  BY <1>0, <1>9, QuietStep DEF vars, procvars, schedvars, TypeOK
<1> QED  BY <1>1, <1>2, <1>3, <1>4, <1>5, <1>6, <1>7, <1>8, <1>9 DEF Next

\* sysinit() and the start of main() establish SInv.
LEMMA InitOK == Init => SInv
<1> SUFFICES ASSUME Init PROVE SInv
  OBVIOUS
<1> USE SchedAssumption
<1>0. /\ Core \subseteq Proc /\ NCORES \in Proc /\ NCORES \notin Core /\ 0 \in Core
      /\ NoCore \notin Core
  BY DEF Core, Proc, NoCore
<1>1. TypeOK
  <2>1. /\ state \in [Proc -> State] /\ irq \in [Proc -> BOOLEAN] /\ currpid \in [Core -> Proc]
        /\ core_affinity \in [Proc -> Core \cup {NoCore}]
    BY <1>0 DEF Init, State, Null
  <2>2. readylist \in [Core -> [Prio -> Seq(Proc)]]
    BY <1>0 DEF Init
  <2>3. priority \in [Proc -> Prio] /\ numproc \in Nat
    BY DEF Init, Prio, PRIORITY_LOW, PRIORITY_HIGH
  <2> QED  BY <2>1, <2>2, <2>3 DEF Init, TypeOK
<1>2. ListsMatch(readylist, state, core_affinity)
  <2>1. ASSUME NEW c \in Core
        PROVE  ListOK(readylist[c], ReadyOn(c, state, core_affinity), priority)
    <3>1. CASE c = 0
      <4>1. ReadyOn(c, state, core_affinity) = {NCORES}
        BY <1>0, <3>1 DEF Init, ReadyOn, Null
      <4>2. readylist[c] = [j \in Prio |-> IF j = PRIORITY_LOW THEN <<NCORES>> ELSE <<>>]
        BY <3>1 DEF Init
      <4>3. readylist[c] \in Lists
        BY <1>1 DEF TypeOK, Lists
      <4>4. Places(readylist[c]) = {<<PRIORITY_LOW, 1>>}
        BY <4>2 DEF Places, Prio, PRIORITY_LOW, PRIORITY_HIGH
      <4>5. Entry(readylist[c], <<PRIORITY_LOW, 1>>) = NCORES
        BY <4>2 DEF Entry, Prio, PRIORITY_LOW, PRIORITY_HIGH
      <4>6. priority[NCORES] <= PRIORITY_LOW
        BY <1>0 DEF Init, PRIORITY_LOW
      <4> QED  BY <4>1, <4>3, <4>4, <4>5, <4>6 DEF ListOK
    <3>2. CASE c # 0
      <4>1. ReadyOn(c, state, core_affinity) = {}
        BY <1>0, <3>2 DEF Init, ReadyOn, Null
      <4>2. readylist[c] = [j \in Prio |-> <<>>]
        BY <3>2 DEF Init
      <4>3. readylist[c] \in Lists
        BY <1>1 DEF TypeOK, Lists
      <4>4. Places(readylist[c]) = {}
        BY <4>2 DEF Places
      <4> QED  BY <4>1, <4>3, <4>4 DEF ListOK
    <3> QED  BY <3>1, <3>2
  <2> QED  BY <1>1, <2>1 DEF ListsMatch, TypeOK, Lists
<1>3. TableOK(state, core_affinity)
  BY <1>0, <1>1 DEF TypeOK, TableOK, Init, Null
<1>4. CurrentBut(NoCore, state, core_affinity, currpid)
  BY <1>0, <1>1 DEF TypeOK, CurrentBut, Init, Null
<1>5. numproc = Cardinality(InUse(state))
  <2>1. InUse(state) = 0 .. NCORES
    BY DEF Init, InUse, Null, Core, Proc
  <2>2. Cardinality(0 .. NCORES) = NCORES + 1
    BY FS_Interval
  <2> QED  BY <2>1, <2>2 DEF Init
<1> QED  BY <1>1, <1>2, <1>3, <1>4, <1>5 DEF SInv

\* The lists that SInv describes core by core are exact as a whole.
LEMMA ReadyListsFollow == SInv => ReadyListsExact
<1> SUFFICES ASSUME SInv PROVE ReadyListsExact
  OBVIOUS
<1>0. /\ readylist \in [Core -> Lists]
      /\ \A c \in Core : ListOK(readylist[c], ReadyOn(c, state, core_affinity), priority)
  BY DEF SInv, ListsMatch
<1>1. ASSUME NEW x \in Place
      PROVE  /\ x[1] \in Core /\ x = <<x[1], x[2], x[3]>>
             /\ <<x[2], x[3]>> \in Places(readylist[x[1]])
             /\ At(x) = Entry(readylist[x[1]], <<x[2], x[3]>>)
  <2>1. PICK k \in Core, j \in Prio : \E i \in 1 .. Len(readylist[k][j]) : x = <<k, j, i>>
    BY DEF Place, Row
  <2>2. PICK i \in 1 .. Len(readylist[k][j]) : x = <<k, j, i>>
    BY <2>1
  <2>3. i \in Nat
    OBVIOUS
  <2> QED  BY <2>2, <2>3 DEF Places, Entry, At
<1>2. ASSUME NEW p \in Proc, state[p] = "PRREADY"
      PROVE  \E x \in Place : At(x) = p
  <2> DEFINE c == core_affinity[p]
  <2>1. c \in Core /\ p \in ReadyOn(c, state, core_affinity)
    BY <1>2 DEF SInv, TableOK, ReadyOn
  <2> HIDE DEF c
  <2>2. PICK y \in Places(readylist[c]) : Entry(readylist[c], y) = p
    BY <1>0, <2>1 DEF ListOK
  <2>3. <<c, y[1], y[2]>> \in Place /\ At(<<c, y[1], y[2]>>) = p
    <3>1. y[1] \in Prio /\ y[2] \in 1 .. Len(readylist[c][y[1]])
      BY <2>2 DEF Places
    <3>2. <<c, y[1], y[2]>> \in Row(c, y[1])
      BY <3>1 DEF Row
    <3>3. <<c, y[1], y[2]>> \in Place
      BY <2>1, <3>1, <3>2 DEF Place
    <3> QED  BY <2>2, <3>3 DEF Entry, At
  <2> QED  BY <2>3
<1>3. ASSUME NEW x \in Place
      PROVE  /\ state[At(x)] = "PRREADY" /\ core_affinity[At(x)] = x[1]
             /\ priority[At(x)] <= x[2]
  <2>1. /\ Entry(readylist[x[1]], <<x[2], x[3]>>) \in ReadyOn(x[1], state, core_affinity)
        /\ priority[Entry(readylist[x[1]], <<x[2], x[3]>>)] <= x[2]
    BY <1>0, <1>1 DEF ListOK
  <2> QED  BY <1>1, <2>1 DEF ReadyOn
<1>4. ASSUME NEW x \in Place, NEW y \in Place, At(x) = At(y)
      PROVE  x = y
  <2>1. x[1] = y[1]
    BY <1>3, <1>4
  <2>2. <<x[2], x[3]>> = <<y[2], y[3]>>
    <3> DEFINE lists == readylist[x[1]]
    <3>1. \A a, b \in Places(lists) : Entry(lists, a) = Entry(lists, b) => a = b
      BY <1>0, <1>1 DEF ListOK
    <3>2. <<x[2], x[3]>> \in Places(lists) /\ At(x) = Entry(lists, <<x[2], x[3]>>)
      BY <1>1
    <3>3. <<y[2], y[3]>> \in Places(lists) /\ At(y) = Entry(lists, <<y[2], y[3]>>)
      BY <1>1, <2>1
    <3> HIDE DEF lists
    <3> QED  BY <1>4, <3>1, <3>2, <3>3
  <2>3. x[2] = y[2] /\ x[3] = y[3]
    BY <2>2
  <2>4. x = <<x[1], x[2], x[3]>> /\ y = <<y[1], y[2], y[3]>>
    BY <1>1
  <2> QED  BY <2>1, <2>3, <2>4
<1> QED  BY <1>2, <1>3, <1>4 DEF ReadyListsExact

\* What SInv says of the states and of numproc.
LEMMA ProctabFollows == SInv => ProctabExact
<1>1. NoCore \notin Core
  BY SchedAssumption DEF Core, NoCore
<1> QED  BY <1>1 DEF SInv, ProctabExact, CurrentBut, TableOK, Null, InUse

\* A process is in exactly one place of the ready lists of its own core when
\* it is PRREADY, and in none otherwise, whatever create(), ready(), resched(),
\* recv(), kill() and the clock of any number of cores do.
THEOREM ReadyListsExactHolds == Spec => []ReadyListsExact
  BY InitOK, StepOK, ReadyListsFollow, PTL DEF Spec

\* The process table is exact: each core runs one process of its own, the
\* null processes can always run, and numproc counts the slots in use.
THEOREM ProctabExactHolds == Spec => []ProctabExact
  BY InitOK, StepOK, ProctabFollows, PTL DEF Spec
=============================================================================
