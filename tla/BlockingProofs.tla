--------------------------- MODULE BlockingProofs ---------------------------
(***************************************************************************)
(* The safety properties of the two components that block their callers:   *)
(* BoundedBlockingQueue, for every set of threads and items and every      *)
(* capacity and bound, and CountDownLatch, for any number of threads and   *)
(* any initial count.  Each invariant of the latch is inductive as it      *)
(* stands.                                                                 *)
(***************************************************************************)
EXTENDS BoundedBlockingQueue, SequenceTheorems, TLAPS

CONSTANTS Waiters, InitCounts, Extra       \* of a latch: see CountDownLatch
VARIABLES count, inside, asleep, passed

Latch == INSTANCE CountDownLatch WITH Threads <- Waiters, call <- inside

-----------------------------------------------------------------------------
(* The queue.                                                              *)

(* A non-empty queue is its front followed by the rest: what pop() and     *)
(* tryPop() take off it moves from one side of the concatenation to the    *)
(* other.                                                                  *)
LEMMA FrontMoves ==
  ASSUME NEW S, NEW q \in Seq(S), NEW s \in Seq(S), q # <<>>
  PROVE  s \o q = Append(s, Head(q)) \o Tail(q)
<1>1. q = <<Head(q)>> \o Tail(q)
  OBVIOUS
<1> QED
  BY <1>1, SMTT(30)

(* The types of the variables are preserved by every critical section of   *)
(* the queue; waiting threads stay inside the operation they wait in.      *)
THEOREM TypeCorrect == Spec => []TypeOK
<1>1. Init => TypeOK
  BY DEF Init, TypeOK
<1>2. TypeOK /\ [Next]_vars => TypeOK'
  <2> SUFFICES ASSUME TypeOK, [Next]_vars PROVE TypeOK'
    OBVIOUS
  <2> USE DEF TypeOK
  <2>1. ASSUME NEW t \in Threads, BeginPush(t) PROVE TypeOK'
    BY <2>1 DEF BeginPush, Enter
  <2>2. ASSUME NEW t \in Threads, Push(t) PROVE TypeOK'
    <3>1. CASE PushWait(t)
      BY <3>1 DEF PushWait, Awake
    <3>2. ASSUME NEW x \in Items, PushDone(t, x) PROVE TypeOK'
      BY <3>2 DEF PushDone, Awake, Leave, Notify
    <3> QED
      BY <2>2, <3>1, <3>2 DEF Push
  <2>3. ASSUME NEW t \in Threads, BeginPop(t) PROVE TypeOK'
    BY <2>3 DEF BeginPop, Enter
  <2>4. ASSUME NEW t \in Threads, Pop(t) PROVE TypeOK'
    <3>1. CASE PopWait(t)
      BY <3>1 DEF PopWait, Awake
    <3>2. CASE PopDone(t)
      BY <3>2 DEF PopDone, RemoveFront, Front, Awake, Leave
    <3> QED
      BY <2>4, <3>1, <3>2 DEF Pop
  <2>5. ASSUME NEW t \in Threads, TryPop(t) PROVE TypeOK'
    BY <2>5 DEF TryPop, RemoveFront, Front
  <2>6. ASSUME NEW t \in Threads, PopAll(t) PROVE TypeOK'
    BY <2>6 DEF PopAll
  <2>7. ASSUME NEW t \in Threads, SpuriousWakeup(t) PROVE TypeOK'
    BY <2>7 DEF SpuriousWakeup
  <2>8. CASE UNCHANGED vars
    BY <2>8 DEF vars
  <2> QED
    BY <2>1, <2>2, <2>3, <2>4, <2>5, <2>6, <2>7, <2>8 DEF Next
<1> QED
  BY <1>1, <1>2, PTL DEF Spec

(* No consumer sleeps while an item is in the queue: the only section that *)
(* makes the queue non-empty, push(), empties the wait set in the same     *)
(* step, and a consumer joins it only when the queue is empty.             *)
THEOREM ConsumersAwake == Spec => []NoConsumerSleepsOnItems
<1> USE DEF NoConsumerSleepsOnItems
<1>1. Init => NoConsumerSleepsOnItems
  BY DEF Init
<1>2. TypeOK /\ NoConsumerSleepsOnItems /\ [Next]_vars
        => NoConsumerSleepsOnItems'
  <2> SUFFICES ASSUME TypeOK, NoConsumerSleepsOnItems, [Next]_vars
               PROVE  NoConsumerSleepsOnItems'
    OBVIOUS
  <2> USE DEF TypeOK
  <2>1. ASSUME NEW t \in Threads, Push(t) PROVE NoConsumerSleepsOnItems'
    BY <2>1 DEF Push, PushWait, PushDone, Notify
  <2>2. ASSUME NEW t \in Threads, Pop(t) \/ TryPop(t) \/ PopAll(t)
        PROVE  NoConsumerSleepsOnItems'
    BY <2>2 DEF Pop, PopWait, PopDone, TryPop, PopAll, RemoveFront
  <2>3. ASSUME NEW t \in Threads, SpuriousWakeup(t)
        PROVE  NoConsumerSleepsOnItems'
    BY <2>3 DEF SpuriousWakeup
  <2>4. ASSUME NEW t \in Threads, BeginPush(t) \/ BeginPop(t)
        PROVE  NoConsumerSleepsOnItems'
    BY <2>4 DEF BeginPush, BeginPop, Enter
  <2>5. CASE UNCHANGED vars
    BY <2>5 DEF vars
  <2> QED
    BY <2>1, <2>2, <2>3, <2>4, <2>5 DEF Next
<1> QED
  BY <1>1, <1>2, TypeCorrect, PTL DEF Spec

(* Every item that entered is inside or has left, in order, and the        *)
(* capacity is respected: the two halves of what the queue stores.         *)
THEOREM ItemsConserved == Spec => [](Conservation /\ WithinCapacity)
<1> DEFINE Inv == Conservation /\ WithinCapacity
<1> USE QueueAssumption DEF Conservation, WithinCapacity
<1>1. Init => Inv
  BY DEF Init
<1>2. TypeOK /\ Inv /\ [Next]_vars => Inv'
  <2> SUFFICES ASSUME TypeOK, Inv, [Next]_vars PROVE Inv'
    OBVIOUS
  <2> USE DEF TypeOK
  <2>1. ASSUME NEW t \in Threads, NEW x \in Items, PushDone(t, x) PROVE Inv'
    <3>1. taken \in Seq(Items) /\ queue \in Seq(Items)
      OBVIOUS
    <3>2. Append(taken \o queue, x) = taken \o Append(queue, x)
      <4>1. /\ Append(taken \o queue, x) \in Seq(Items)
            /\ taken \o Append(queue, x) \in Seq(Items)
        BY <3>1
      <4>2. Len(Append(taken \o queue, x)) = Len(taken \o Append(queue, x))
        BY <3>1
      <4>3. ASSUME NEW i \in 1 .. Len(Append(taken \o queue, x))
            PROVE  Append(taken \o queue, x)[i] = (taken \o Append(queue, x))[i]
        BY ONLY <3>1, x \in Items, i \in 1 .. Len(Append(taken \o queue, x))
      <4> QED
        BY ONLY <4>1, <4>2, <4>3, SeqEqual
    <3> QED
      BY <2>1, <3>2 DEF PushDone, HasRoom
  <2>2. ASSUME RemoveFront, UNCHANGED pushed PROVE Inv'
    <3>1. taken \o queue = Append(taken, Head(queue)) \o Tail(queue)
      BY <2>2, FrontMoves DEF RemoveFront
    <3>2. Len(Tail(queue)) <= Len(queue)
      BY <2>2 DEF RemoveFront
    <3> QED
      BY <2>2, <3>1, <3>2 DEF RemoveFront, Front
  <2>3. ASSUME NEW t \in Threads, PopAll(t) PROVE Inv'
    BY <2>3 DEF PopAll
  <2>4. ASSUME UNCHANGED <<queue, pushed, taken>> PROVE Inv'
    BY <2>4
  <2> QED
    BY <2>1, <2>2, <2>3, <2>4
    DEF Next, BeginPush, BeginPop, Enter, Push, PushWait, Pop, PopWait,
        PopDone, TryPop, SpuriousWakeup, vars
<1> QED
  BY <1>1, <1>2, TypeCorrect, PTL DEF Spec

(* The queue implements the bounded FIFO: an append is a Send, a removal   *)
(* of one item or of all of them is a Receive, every other section is      *)
(* invisible.                                                              *)
THEOREM Refinement == Spec => ImplementsFifo
<1> DEFINE Inv == TypeOK /\ Conservation /\ WithinCapacity
<1>1. Init => Fifo!FifoInit
  BY DEF Init, Fifo!FifoInit
<1>2. Inv /\ [Next]_vars => [Fifo!FifoNext]_(Fifo!fifoVars)
  <2> SUFFICES ASSUME Inv, [Next]_vars
               PROVE  [Fifo!FifoNext]_(Fifo!fifoVars)
    OBVIOUS
  <2> USE QueueAssumption DEF TypeOK, Conservation, WithinCapacity
  <2>0. /\ Len(pushed) = Len(taken) + Len(queue)
        /\ Len(pushed) \in Nat /\ Len(taken) \in Nat /\ Len(queue) \in Nat
    OBVIOUS
  <2>1. ASSUME NEW t \in Threads, NEW x \in Items, PushDone(t, x)
        PROVE  Fifo!Send(x)
    BY <2>0, <2>1 DEF PushDone, HasRoom, Fifo!Send
  <2>2. ASSUME RemoveFront, UNCHANGED pushed
        PROVE  \E upto \in Len(taken) + 1 .. Len(pushed) : Fifo!Receive(upto)
    <3>1. Append(taken, Head(queue)) = SubSeq(pushed, 1, Len(taken) + 1)
      <4>1. \A i \in 1 .. Len(taken) : pushed[i] = taken[i]
        OBVIOUS
      <4>2. queue # <<>> /\ pushed[Len(taken) + 1] = Head(queue)
        BY <2>0, <2>2 DEF RemoveFront
      <4> QED
        BY <2>0, <4>1, <4>2
    <3>2. Len(taken) + 1 \in Len(taken) + 1 .. Len(pushed)
      BY <2>0, <2>2 DEF RemoveFront
    <3> QED
      BY <2>2, <3>1, <3>2 DEF RemoveFront, Front, Fifo!Receive
  <2>3. ASSUME NEW t \in Threads, PopAll(t)
        PROVE  \E upto \in Len(taken) + 1 .. Len(pushed) : Fifo!Receive(upto)
    <3>1. pushed = SubSeq(pushed, 1, Len(pushed))
      OBVIOUS
    <3>2. Len(pushed) \in Len(taken) + 1 .. Len(pushed)
      BY <2>0, <2>3 DEF PopAll
    <3> QED
      BY <2>3, <3>1, <3>2 DEF PopAll, Fifo!Receive
  <2>4. ASSUME UNCHANGED <<pushed, taken>>
        PROVE  UNCHANGED Fifo!fifoVars
    BY <2>4 DEF Fifo!fifoVars
  <2> QED
    BY <2>1, <2>2, <2>3, <2>4
    DEF Next, BeginPush, BeginPop, Enter, Push, PushWait, Pop, PopWait,
        PopDone, TryPop, SpuriousWakeup, vars, Fifo!FifoNext
<1> QED
  BY <1>1, <1>2, TypeCorrect, ItemsConserved, PTL
  DEF Spec, ImplementsFifo, Fifo!FifoSpec

-----------------------------------------------------------------------------
(* The latch.                                                              *)

(* The types of CountDownLatch.h: asleep are only threads inside wait().   *)
THEOREM LatchTypeCorrect ==
  ASSUME InitCounts \subseteq Int
  PROVE  Latch!Spec => []Latch!TypeOK
<1>1. Latch!Init => Latch!TypeOK
  BY DEF Latch!Init, Latch!TypeOK
<1>2. Latch!TypeOK /\ [Latch!Next]_(Latch!vars) => Latch!TypeOK'
  <2> SUFFICES ASSUME Latch!TypeOK, [Latch!Next]_(Latch!vars)
           PROVE  Latch!TypeOK'
    OBVIOUS
  <2> USE DEF Latch!TypeOK
  <2>1. CASE UNCHANGED Latch!vars
    BY <2>1 DEF Latch!vars
  <2>2. ASSUME NEW t \in Waiters, Latch!CountDown(t) PROVE Latch!TypeOK'
    BY <2>2 DEF Latch!CountDown
  <2>3. ASSUME NEW t \in Waiters, Latch!BeginWait(t) PROVE Latch!TypeOK'
    BY <2>3 DEF Latch!BeginWait
  <2>4. ASSUME NEW t \in Waiters, Latch!Sleep(t) PROVE Latch!TypeOK'
    BY <2>4 DEF Latch!Sleep
  <2>5. ASSUME NEW t \in Waiters, Latch!Pass(t) PROVE Latch!TypeOK'
    BY <2>5 DEF Latch!Pass
  <2>6. ASSUME NEW t \in Waiters, Latch!SpuriousWakeup(t) PROVE Latch!TypeOK'
    BY <2>6 DEF Latch!SpuriousWakeup
  <2> QED
    BY <2>1, <2>2, <2>3, <2>4, <2>5, <2>6 DEF Latch!Next, Latch!Wait
<1> QED
  BY <1>1, <1>2, PTL DEF Latch!Spec

(* wait() (CountDownLatch.h:23-29) lets nobody through before the count is *)
(* used up, and the latch never closes again.                              *)
THEOREM LatchHolds ==
  ASSUME InitCounts \subseteq Int
  PROVE  Latch!Spec => []Latch!NobodyPassesClosed
<1>1. Latch!Init => Latch!NobodyPassesClosed
  BY DEF Latch!Init, Latch!NobodyPassesClosed
<1>2. Latch!TypeOK /\ Latch!NobodyPassesClosed /\ [Latch!Next]_(Latch!vars) => Latch!NobodyPassesClosed'
  <2> SUFFICES ASSUME Latch!TypeOK, Latch!NobodyPassesClosed, [Latch!Next]_(Latch!vars)
           PROVE  Latch!NobodyPassesClosed'
    OBVIOUS
  <2> USE DEF Latch!TypeOK, Latch!NobodyPassesClosed
  <2>1. ASSUME NEW t \in Waiters, Latch!CountDown(t) PROVE Latch!NobodyPassesClosed'
    BY <2>1 DEF Latch!CountDown
  <2>2. ASSUME NEW t \in Waiters, Latch!Pass(t) PROVE Latch!NobodyPassesClosed'
    BY <2>2 DEF Latch!Pass, Latch!Closed
  <2>3. CASE UNCHANGED <<count, passed>>
    BY <2>3
  <2> QED
    BY <2>1, <2>2, <2>3 DEF Latch!Next, Latch!Wait, Latch!BeginWait, Latch!Sleep,
                          Latch!SpuriousWakeup, Latch!vars
<1> QED
  BY <1>1, <1>2, LatchTypeCorrect, PTL DEF Latch!Spec

(* countDown() (CountDownLatch.h:31-38) may notify at zero only: below it  *)
(* there is nobody left to be woken, and nobody goes to sleep any more.    *)
THEOREM SleepersAreWoken ==
  ASSUME InitCounts \subseteq Int
  PROVE  Latch!Spec => []Latch!NobodySleepsAtOpen
<1>1. Latch!Init => Latch!NobodySleepsAtOpen
  BY DEF Latch!Init, Latch!NobodySleepsAtOpen
<1>2. Latch!TypeOK /\ Latch!NobodySleepsAtOpen /\ [Latch!Next]_(Latch!vars) => Latch!NobodySleepsAtOpen'
  <2> SUFFICES ASSUME Latch!TypeOK, Latch!NobodySleepsAtOpen, [Latch!Next]_(Latch!vars)
           PROVE  Latch!NobodySleepsAtOpen'
    OBVIOUS
  <2> USE DEF Latch!TypeOK, Latch!NobodySleepsAtOpen
  <2>1. ASSUME NEW t \in Waiters, Latch!CountDown(t) PROVE Latch!NobodySleepsAtOpen'
    <3>1. CASE count - 1 = 0
      BY <2>1, <3>1 DEF Latch!CountDown, Latch!Opens
    <3>2. CASE count - 1 # 0
      BY <2>1, <3>2 DEF Latch!CountDown, Latch!Opens
    <3> QED
      BY <3>1, <3>2
  <2>2. ASSUME NEW t \in Waiters, Latch!Sleep(t) PROVE Latch!NobodySleepsAtOpen'
    BY <2>2 DEF Latch!Sleep, Latch!Closed
  <2>3. ASSUME NEW t \in Waiters, Latch!SpuriousWakeup(t) PROVE Latch!NobodySleepsAtOpen'
    BY <2>3 DEF Latch!SpuriousWakeup
  <2>4. CASE UNCHANGED <<count, asleep>>
    BY <2>4
  <2> QED
    BY <2>1, <2>2, <2>3, <2>4 DEF Latch!Next, Latch!Wait, Latch!BeginWait,
                               Latch!Pass, Latch!vars
<1> QED
  BY <1>1, <1>2, LatchTypeCorrect, PTL DEF Latch!Spec
=============================================================================
