---------------------------- MODULE ThreadProofs ----------------------------
(***************************************************************************)
(* Safety of the start handshake of Thread, for any set of Thread objects, *)
(* by one inductive invariant that relates how far the user of an object   *)
(* and the thread it created may be from each other.                       *)
(***************************************************************************)
EXTENDS Thread, TLAPS

(* The thread has reported (written tid_ and counted latch_ down) exactly  *)
(* when latch_ is open; past start(), a user whose thread was created has  *)
(* seen the latch open; the object is there until its user destroys it.    *)
ThreadExists(o) == thread[o] # "none"
Reported(o) == thread[o] \in {"func", "delete", "ended"}
Handshake(o) ==
  /\ ThreadExists(o) <=> started[o]
  /\ latch[o] = 0 <=> Reported(o)
  /\ Reported(o) \/ thread[o] = "count" => tidSet[o]
  /\ user[o] = "new" => ~ThreadExists(o)
  /\ user[o] \notin {"new", "await"} /\ ThreadExists(o) => Reported(o)
  /\ user[o] = "await" => ThreadExists(o)
  /\ user[o] # "gone" => alive[o]
IInv == TypeOK /\ \A o \in Objects : Handshake(o)

LEMMA InvInit == Init => IInv
  BY DEF Init, IInv, TypeOK, Handshake, ThreadExists, Reported

(* Steps for one object leave the handshake of every other one alone.      *)
LEMMA InvStep == IInv /\ [Next]_vars => IInv'
<1> SUFFICES ASSUME IInv, [Next]_vars PROVE IInv'
  OBVIOUS
<1> USE DEF IInv, TypeOK, Handshake, ThreadExists, Reported, Set, UserAt, ThreadAt, flags
<1>1. CASE UNCHANGED vars
  BY <1>1 DEF vars
<1>2. ASSUME NEW o \in Objects, Create(o) PROVE IInv'
  BY <1>2 DEF Create, FirstStep
<1>3. ASSUME NEW o \in Objects, CreateFails(o) PROVE IInv'
  BY <1>3 DEF CreateFails
<1>4. ASSUME NEW o \in Objects, AwaitSleeps(o) PROVE IInv'
  BY <1>4 DEF AwaitSleeps
<1>5. ASSUME NEW o \in Objects, AwaitPasses(o) PROVE IInv'
  BY <1>5 DEF AwaitPasses
<1>6. ASSUME NEW o \in Objects, SpuriousWakeup(o) PROVE IInv'
  BY <1>6 DEF SpuriousWakeup
<1>7. ASSUME NEW o \in Objects, Join(o) PROVE IInv'
  BY <1>7 DEF Join
<1>8. ASSUME NEW o \in Objects, JoinReturns(o) PROVE IInv'
  BY <1>8 DEF JoinReturns, Ended
<1>9. ASSUME NEW o \in Objects, Destroy(o) PROVE IInv'
  BY <1>9 DEF Destroy
<1>10. ASSUME NEW o \in Objects, SetTid(o) PROVE IInv'
  BY <1>10 DEF SetTid
<1>11. ASSUME NEW o \in Objects, CountDown(o) PROVE IInv'
  BY <1>11 DEF CountDown, Notify
<1>12. ASSUME NEW o \in Objects, Func(o) PROVE IInv'
  BY <1>12 DEF Func
<1>13. ASSUME NEW o \in Objects, Finish(o) PROVE IInv'
  BY <1>13 DEF Finish
<1> QED
  BY <1>1, <1>2, <1>3, <1>4, <1>5, <1>6, <1>7, <1>8, <1>9, <1>10, <1>11, <1>12, <1>13
     DEF Next, Await, Run

LEMMA Invariant == Spec => []IInv
  BY InvInit, InvStep, PTL DEF Spec

(* The types of Thread.h; a user sleeps only inside start().               *)
THEOREM TypeCorrect == Spec => []TypeOK
<1>1. IInv => TypeOK
  BY DEF IInv
<1> QED
  BY Invariant, <1>1, PTL

(* assert(tid_ > 0) at the end of start() (Thread.cpp:129) never fails.    *)
THEOREM TidIsKnown == Spec => []StartedHasTid
<1>1. IInv => StartedHasTid
  BY DEF IInv, Handshake, StartedHasTid, ThreadExists, Reported
<1> QED
  BY Invariant, <1>1, PTL

(* The pointers of ThreadData (Thread.cpp:69-72) are used only while the   *)
(* object they point into exists, whenever its user destroys it.           *)
THEOREM ObjectOutlivesHandshake == Spec => []NoWriteAfterDestruction
<1>1. IInv => NoWriteAfterDestruction
  BY DEF IInv, TypeOK, Handshake, NoWriteAfterDestruction, ThreadExists, Reported
<1> QED
  BY Invariant, <1>1, PTL

-----------------------------------------------------------------------------
(* Nobody is at the latch of a new object.                                 *)
LEMMA LatchInit == Init => \A o \in Objects : Latch(o)!Init
<1> SUFFICES ASSUME Init, NEW o \in Objects PROVE Latch(o)!Init
  OBVIOUS
<1>1. [t \in {"user", "thread"} |-> IF t = "user" /\ user[o] = "await" THEN "wait" ELSE "idle"]
        = [t \in {"user", "thread"} |-> "idle"]
  BY DEF Init
<1> QED
  BY <1>1 DEF Init, Latch!Init

(* What an object's latch sees of a step of the whole.                     *)
(* What the latch of an object sees of the steps of that object.           *)
LatchStep(o) == Latch(o)!Next \/ UNCHANGED Latch(o)!vars

(* Every step is one of the latch's specification, or none for the latch.  *)
LEMMA OfLatch ==
  ASSUME IInv, [Next]_vars, NEW o \in Objects
  PROVE  LatchStep(o)
<1> USE DEF IInv, TypeOK, Handshake, ThreadExists, Reported, Set, UserAt, ThreadAt, flags
<1>1. CASE UNCHANGED <<user[o], started[o], latch[o], o \in asleep>>
  BY <1>1 DEF LatchStep, Latch!vars
<1>2. CASE Create(o)
  <2>1. Latch(o)!BeginWait("user")
    BY <1>2 DEF Create, Latch!BeginWait
  <2> QED
    BY <2>1 DEF LatchStep, Latch!Next
<1>3. CASE AwaitSleeps(o)
  <2>1. Latch(o)!Sleep("user")
    BY <1>3 DEF AwaitSleeps, Latch!Sleep, Latch!Closed
  <2> QED
    BY <2>1 DEF LatchStep, Latch!Next, Latch!Wait
<1>4. CASE AwaitPasses(o)
  <2>1. Latch(o)!Pass("user")
    <3>1. /\ user[o] = "await" /\ user'[o] = "returned" /\ o \notin asleep /\ ~(latch[o] > 0)
          /\ started[o] /\ UNCHANGED <<latch, asleep, started>>
      BY <1>4 DEF AwaitPasses
    <3>2. [t \in {"user", "thread"} |-> IF t = "user" /\ user'[o] = "await" THEN "wait" ELSE "idle"]
            = [[t \in {"user", "thread"} |-> IF t = "user" /\ user[o] = "await" THEN "wait" ELSE "idle"]
                 EXCEPT !["user"] = "idle"]
      BY <3>1
    <3>3. (IF started'[o] /\ user'[o] \notin {"new", "await"} THEN {"user"} ELSE {})
            = (IF started[o] /\ user[o] \notin {"new", "await"} THEN {"user"} ELSE {}) \cup {"user"}
      BY <3>1
    <3>4. "user" \notin (IF o \in asleep THEN {"user"} ELSE {})
      BY <3>1
    <3> HIDE DEF IInv, TypeOK, Handshake, ThreadExists, Reported
    <3> QED
      BY <3>1, <3>2, <3>3, <3>4 DEF Latch!Pass, Latch!Closed
  <2> QED
    BY <2>1 DEF LatchStep, Latch!Next, Latch!Wait
<1>5. CASE SpuriousWakeup(o)
  <2>1. Latch(o)!SpuriousWakeup("user")
    BY <1>5 DEF SpuriousWakeup, Latch!SpuriousWakeup
  <2> QED
    BY <2>1 DEF LatchStep, Latch!Next
<1>6. CASE CountDown(o)
  <2>1. Latch(o)!CountDown("thread")
    BY <1>6 DEF CountDown, Notify, Latch!CountDown, Latch!Opens
  <2> QED
    BY <2>1 DEF LatchStep, Latch!Next
<1>7. CASE CreateFails(o) \/ Join(o) \/ JoinReturns(o) \/ Destroy(o) \/ SetTid(o) \/ Func(o) \/ Finish(o)
  BY <1>7 DEF CreateFails, Join, JoinReturns, Destroy, SetTid, Func, Finish, LatchStep, Latch!vars
<1>8. ASSUME NEW p \in Objects \ {o},
             \/ Create(p) \/ CreateFails(p) \/ Await(p) \/ SpuriousWakeup(p)
             \/ Join(p) \/ JoinReturns(p) \/ Destroy(p) \/ Run(p)
      PROVE  UNCHANGED <<user[o], started[o], latch[o], o \in asleep>>
  BY <1>8 DEF Create, CreateFails, Await, AwaitSleeps, AwaitPasses, SpuriousWakeup, Join,
              JoinReturns, Destroy, Run, SetTid, CountDown, Notify, Func, Finish
<1>9. CASE UNCHANGED vars
  BY <1>1, <1>9 DEF vars
<1> QED
  BY <1>1, <1>2, <1>3, <1>4, <1>5, <1>6, <1>7, <1>8, <1>9 DEF Next, Await, Run

(* The handshake of Thread (Thread.cpp:69-72, 110-115) uses latch_ as      *)
(* CountDownLatch specifies.                                               *)
THEOREM LatchIsUsedAsSpecified == Spec => HandshakeUsesLatch
<1>1. IInv /\ [Next]_vars => [\A o \in Objects : LatchStep(o)]_vars
  BY OfLatch
<1>2. Spec => [][\A o \in Objects : LatchStep(o)]_vars
  BY Invariant, <1>1, PTL DEF Spec
<1>3. HandshakeUsesLatch <=> /\ \A o \in Objects : Latch(o)!Init
                             /\ [][\A o \in Objects : LatchStep(o)]_vars
  BY DEF HandshakeUsesLatch, LatchStep
<1> QED
  BY LatchInit, <1>2, <1>3, PTL DEF Spec
=============================================================================
