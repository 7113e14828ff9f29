-------------------------------- MODULE Log --------------------------------
(***************************************************************************)
(* What an asynchronous logger promises its callers: a line it has         *)
(* accepted is written once, in the order of the thread that appended it,  *)
(* or it is discarded together with others, and then the log says so.      *)
(* Lines of different threads interleave freely.                           *)
(***************************************************************************)
EXTENDS LogLines, SequencesExt

CONSTANTS Threads,  \* threads that log
          PerBuffer \* lines that a buffer holds at most

VARIABLES accepted, \* lines appended by each thread: they are numbered
          pending,  \* of each thread, the lines that are still on their way
          log       \* what has been written: lines, and notices of discards

vars == <<accepted, pending, log>>

Init ==
  /\ accepted = [t \in Threads |-> 0]
  /\ pending = [t \in Threads |-> <<>>]
  /\ log = <<>>

Accept(t) ==
  /\ accepted' = [accepted EXCEPT ![t] = @ + 1]
  /\ pending' = [pending EXCEPT ![t] = Append(@, <<t, accepted'[t]>>)]
  /\ UNCHANGED log

Deliver == \* the oldest lines of each thread, in their order
  /\ IsPrefix(log, log')
  /\ LET batch == SubSeq(log', Len(log) + 1, Len(log')) IN
       /\ \A i \in DOMAIN batch : batch[i][1] \in Threads
       /\ \A t \in Threads : Of(t, batch) \o pending'[t] = pending[t]
  /\ UNCHANGED accepted

Discard == \* the lines of n buffers; of each thread, successive ones
  LET lost(t) == ToSet(pending[t]) \ ToSet(pending'[t])
      count == Cardinality(UNION {lost(t) : t \in Threads})
  IN  /\ \E n \in 1 .. count : count <= n * PerBuffer /\ log' = Append(log, <<"dropped", n>>)
      /\ \A t \in Threads :
           LET p == pending[t] IN
           \E i, j \in 0 .. Len(p) :
             i <= j /\ pending'[t] = SubSeq(p, 1, i) \o SubSeq(p, j + 1, Len(p))
      /\ UNCHANGED accepted

Next == (\E t \in Threads : Accept(t)) \/ Deliver \/ Discard

Spec == Init /\ [][Next]_vars
=============================================================================
