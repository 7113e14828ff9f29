---------------------------- MODULE BoundedFifo ----------------------------
(***************************************************************************)
(* What ycnt::base::BoundedBlockingQueue promises to the threads that      *)
(* share it: items leave in the order in which they entered, none is lost  *)
(* or delivered twice, and at most Capacity of them are inside at a time.  *)
(* `sent' and `received' are the complete histories of both ends.          *)
(***************************************************************************)
EXTENDS Naturals, Sequences

CONSTANTS Items,    \* what may be sent
          Capacity  \* how many items may be inside the queue

VARIABLES sent, received

fifoVars == <<sent, received>>

FifoInit == sent = <<>> /\ received = <<>>

Send(x) ==
  /\ Len(sent) < Len(received) + Capacity
  /\ sent' = Append(sent, x)
  /\ UNCHANGED received

\* The next items, one or several at once, are delivered in order.
Receive(upto) ==
  /\ received' = SubSeq(sent, 1, upto)
  /\ UNCHANGED sent

FifoNext ==
  \/ \E x \in Items : Send(x)
  \/ \E upto \in Len(received) + 1 .. Len(sent) : Receive(upto)

FifoSpec == FifoInit /\ [][FifoNext]_fifoVars
=============================================================================
