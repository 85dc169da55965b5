---------------------------- MODULE MailboxSpec -----------------------------
(***************************************************************************)
(* What message passing promises: each process has a mailbox that gives    *)
(* its messages back one at a time, each once, in the order they came.     *)
(***************************************************************************)
EXTENDS Sequences

CONSTANTS Proc, Message, NoMessage

VARIABLES box,     \* box[r]: messages accepted for r and not yet received
          answer   \* answer[r]: what the recv() of r is returning

mailvars == <<box, answer>>

Init ==
  /\ box = [r \in Proc |-> <<>>]
  /\ answer = [r \in Proc |-> NoMessage]

Deposit(r, m) ==
  /\ box' = [box EXCEPT ![r] = Append(@, m)]
  /\ UNCHANGED answer

Collect(r) ==
  /\ answer[r] = NoMessage /\ box[r] # <<>>
  /\ answer' = [answer EXCEPT ![r] = Head(box[r])]
  /\ box' = [box EXCEPT ![r] = Tail(@)]

Return(r) ==
  /\ answer[r] # NoMessage
  /\ answer' = [answer EXCEPT ![r] = NoMessage]
  /\ UNCHANGED box

Next == \E r \in Proc : Collect(r) \/ Return(r) \/ \E m \in Message : Deposit(r, m)

Spec == Init /\ [][Next]_mailvars
=============================================================================
