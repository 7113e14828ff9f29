------------------------ MODULE BoundedBlockingQueue ------------------------
(***************************************************************************)
(* The bounded queue of ycnt/base/ThreadSafeContainer.h, shared by a set   *)
(* of threads.  Every critical section (mutex_ held) is one action; a      *)
(* thread inside push() or pop() that finds its condition false is in the  *)
(* wait set of notFull_ or notEmpty_ until it is notified or wakes up      *)
(* spuriously, and then tests the condition again.                         *)
(***************************************************************************)
EXTENDS Naturals, Sequences

CONSTANTS Threads,      \* the threads that share the queue
          Items,        \* what they push
          MaxQueueSize, \* maxQueueSize_
          MaxPushes     \* bound: no push() begins after so many are done

ASSUME QueueAssumption == MaxQueueSize \in Nat /\ MaxPushes \in Nat

VARIABLES queue,    \* queue_
          call,     \* the operation a thread is inside of
          notEmpty, \* threads asleep in notEmpty_.wait
          notFull,  \* threads asleep in notFull_.wait
          pushed,   \* history: every item appended, in order
          taken     \* history: every item removed, in order

vars == <<queue, call, notEmpty, notFull, pushed, taken>>

Init ==
  /\ queue = <<>>
  /\ call = [t \in Threads |-> "idle"]
  /\ notEmpty = {}
  /\ notFull = {}
  /\ pushed = <<>>
  /\ taken = <<>>

\* Mutants of the code that the properties below must notice.
HasRoomOffByOne == Len(queue) <= MaxQueueSize
NotifyNobody(waiters) == waiters
NotifyOneWhenEmpty(waiters) ==
  IF queue = <<>> /\ waiters # {} THEN waiters \ {CHOOSE t \in waiters : TRUE}
                                  ELSE waiters
NewestFirst == queue[Len(queue)]
MovedFrom == <<>>

(* The loop conditions, and notify_all: nobody is left in the wait set. *)
HasRoom == Len(queue) < MaxQueueSize
Notify(waiters) == {}
Front == Head(queue)

Enter(t, op) ==
  /\ call[t] = "idle"
  /\ call' = [call EXCEPT ![t] = op]
  /\ UNCHANGED <<queue, notEmpty, notFull, pushed, taken>>

Awake(t, op) == call[t] = op /\ t \notin notEmpty \cup notFull
Leave(t) == call' = [call EXCEPT ![t] = "idle"]

-----------------------------------------------------------------------------
(* push(): the argument is fixed by the caller; nothing reads it before it *)
(* is appended, so it is chosen there.                                     *)
BeginPush(t) == Len(pushed) < MaxPushes /\ Enter(t, "push")

PushWait(t) ==
  /\ Awake(t, "push")
  /\ ~HasRoom
  /\ notFull' = notFull \cup {t}
  /\ UNCHANGED <<queue, call, notEmpty, pushed, taken>>

PushDone(t, x) ==
  /\ Awake(t, "push")
  /\ HasRoom
  /\ queue' = Append(queue, x)
  /\ pushed' = Append(pushed, x)
  /\ notEmpty' = Notify(notEmpty)
  /\ Leave(t)
  /\ UNCHANGED <<notFull, taken>>

Push(t) == PushWait(t) \/ \E x \in Items : PushDone(t, x)

(* pop(): makes room and notifies nobody. *)
BeginPop(t) == Enter(t, "pop")

PopWait(t) ==
  /\ Awake(t, "pop")
  /\ queue = <<>>
  /\ notEmpty' = notEmpty \cup {t}
  /\ UNCHANGED <<queue, call, notFull, pushed, taken>>

RemoveFront ==
  /\ queue # <<>>
  /\ taken' = Append(taken, Front)
  /\ queue' = Tail(queue)

PopDone(t) ==
  /\ Awake(t, "pop")
  /\ RemoveFront
  /\ Leave(t)
  /\ UNCHANGED <<notEmpty, notFull, pushed>>

Pop(t) == PopWait(t) \/ PopDone(t)

(* tryPop() and popAll() never wait: one critical section each.  tryPop()  *)
(* on an empty queue returns T() and changes nothing, as does popAll().    *)
TryPop(t) ==
  /\ call[t] = "idle"
  /\ RemoveFront
  /\ UNCHANGED <<call, notEmpty, notFull, pushed>>

PopAll(t) ==
  /\ call[t] = "idle"
  /\ queue # <<>>
  /\ taken' = taken \o queue
  /\ queue' = <<>>
  /\ UNCHANGED <<call, notEmpty, notFull, pushed>>

SpuriousWakeup(t) ==
  /\ t \in notEmpty \cup notFull
  /\ notEmpty' = notEmpty \ {t}
  /\ notFull' = notFull \ {t}
  /\ UNCHANGED <<queue, call, pushed, taken>>

Next ==
  \E t \in Threads :
    \/ BeginPush(t) \/ Push(t)
    \/ BeginPop(t) \/ Pop(t)
    \/ TryPop(t) \/ PopAll(t)
    \/ SpuriousWakeup(t)

Spec == Init /\ [][Next]_vars

(* A runnable thread is scheduled again; nobody owes a spurious wakeup, and *)
(* nobody has to begin an operation.                                        *)
FairSpec == Spec /\ \A t \in Threads : WF_vars(Push(t)) /\ WF_vars(Pop(t))

-----------------------------------------------------------------------------
(* Types of the variables; the wait sets hold only threads that are inside *)
(* the operation that waits there (push at notFull_, pop at notEmpty_).    *)
TypeOK ==
  /\ queue \in Seq(Items)
  /\ call \in [Threads -> {"idle", "push", "pop"}]
  /\ notEmpty \in SUBSET {t \in Threads : call[t] = "pop"}
  /\ notFull \in SUBSET {t \in Threads : call[t] = "push"}
  /\ pushed \in Seq(Items)
  /\ taken \in Seq(Items)

(* No consumer is asleep in notEmpty_.wait while an item is in the queue:  *)
(* push() wakes every waiter, whatever pops and spurious wakeups came      *)
(* between (ThreadSafeContainer.h:88-120).                                 *)
NoConsumerSleepsOnItems == notEmpty # {} => queue = <<>>

(* What is inside is exactly what entered and has not left, in order, and  *)
(* never more than maxQueueSize_ items (ThreadSafeContainer.h:91-95).      *)
Conservation == pushed = taken \o queue
WithinCapacity == Len(queue) <= MaxQueueSize

(* The queue implements a bounded FIFO: every critical section is a send,  *)
(* a receive of the next items, or nothing seen from outside.              *)
Fifo == INSTANCE BoundedFifo
          WITH Capacity <- MaxQueueSize, sent <- pushed, received <- taken
ImplementsFifo == Fifo!FifoSpec

(* A consumer inside pop() gets an item or the queue becomes empty: items  *)
(* never wait for a consumer that is never told (notify_all in push).      *)
ConsumersServed ==
  \A t \in Threads :
    (call[t] = "pop" /\ queue # <<>>) ~> (call[t] = "idle" \/ queue = <<>>)
=============================================================================
