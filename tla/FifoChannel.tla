----------------------------- MODULE FifoChannel -----------------------------
(***************************************************************************)
(* What a connection promises its users, and what Coordinator takes for    *)
(* granted: whole messages, in order, until it breaks; then some of the    *)
(* last ones are lost.                                                     *)
(***************************************************************************)
EXTENDS Naturals, Sequences

CONSTANT Messages

VARIABLES
  queue,       \* messages sent and not yet received
  received,    \* messages received so far
  up           \* whether the connection still stands

channelVars == <<queue, received, up>>

Init ==
  /\ queue = <<>>
  /\ received = <<>>
  /\ up = TRUE

Send(m) ==
  /\ up
  /\ queue' = Append(queue, m)
  /\ UNCHANGED <<received, up>>

Receive ==
  /\ queue # <<>>
  /\ received' = Append(received, Head(queue))
  /\ queue' = Tail(queue)
  /\ UNCHANGED up

Break ==
  /\ up
  /\ up' = FALSE
  /\ \E n \in 0..Len(queue) : queue' = SubSeq(queue, 1, n)
  /\ UNCHANGED received

Next == (\E m \in Messages : Send(m)) \/ Receive \/ Break

Spec == Init /\ [][Next]_channelVars
===============================================================================
