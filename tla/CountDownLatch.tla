--------------------------- MODULE CountDownLatch ---------------------------
(***************************************************************************)
(* ycnt::base::CountDownLatch, shared by any number of threads.  A         *)
(* critical section of mutex_ is one action; count_ may go below zero.     *)
(***************************************************************************)
EXTENDS Integers

CONSTANTS Threads,    \* the threads that share the latch
          InitCounts, \* what the constructor is given: integers
          Extra       \* bound: countDown() is called so often at or below zero

VARIABLES count,  \* count_
          call,   \* what a thread is inside of
          asleep, \* threads in cv_.wait
          passed  \* history: threads whose wait() returned

vars == <<count, call, asleep, passed>>

Init ==
  /\ count \in InitCounts
  /\ call = [t \in Threads |-> "idle"]
  /\ asleep = {}
  /\ passed = {}

Opens(c) == c = 0
Closed == count > 0

CountDown(t) ==
  /\ call[t] = "idle" /\ count > -Extra
  /\ count' = count - 1
  /\ asleep' = IF Opens(count') THEN {} ELSE asleep
  /\ UNCHANGED <<call, passed>>

BeginWait(t) ==
  /\ call[t] = "idle"
  /\ call' = [call EXCEPT ![t] = "wait"]
  /\ UNCHANGED <<count, asleep, passed>>

Sleep(t) ==
  /\ call[t] = "wait" /\ t \notin asleep
  /\ Closed
  /\ asleep' = asleep \cup {t}
  /\ UNCHANGED <<count, call, passed>>

Pass(t) ==
  /\ call[t] = "wait" /\ t \notin asleep
  /\ ~Closed
  /\ call' = [call EXCEPT ![t] = "idle"]
  /\ passed' = passed \cup {t}
  /\ UNCHANGED <<count, asleep>>

SpuriousWakeup(t) ==
  /\ t \in asleep
  /\ asleep' = asleep \ {t}
  /\ UNCHANGED <<count, call, passed>>

Wait(t) == Sleep(t) \/ Pass(t)

Next ==
  \E t \in Threads : CountDown(t) \/ BeginWait(t) \/ Wait(t) \/ SpuriousWakeup(t)

Spec == Init /\ [][Next]_vars

-----------------------------------------------------------------------------
(* Types of the variables; only a thread inside wait() is asleep. *)
TypeOK ==
  /\ count \in Int
  /\ call \in [Threads -> {"idle", "wait"}]
  /\ asleep \in SUBSET {t \in Threads : call[t] = "wait"}
  /\ passed \subseteq Threads

(* The latch stays open: nobody got through while it was closed, for       *)
(* whatever number of countDown() calls (CountDownLatch.h:23-38).          *)
NobodyPassesClosed == passed # {} => count <= 0

(* Nobody sleeps at an open latch, although countDown() notifies only when *)
(* it reaches zero exactly, and not below (CountDownLatch.h:34-37).        *)
NobodySleepsAtOpen == asleep # {} => count > 0
=============================================================================
