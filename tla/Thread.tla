------------------------------- MODULE Thread -------------------------------
(***************************************************************************)
(* ycnt::base::Thread: the start handshake between the user of a Thread    *)
(* object and the thread it creates, and the lifetime of what they share.  *)
(* Each object has one user, which uses it as AsyncLogging and the workers *)
(* of ThreadPool do: start(), later join(), without looking at started().  *)
(***************************************************************************)
EXTENDS Integers

CONSTANT Objects  \* Thread objects

VARIABLES user,    \* where the user of each object is
          thread,  \* where the thread that runs its function is
          started, joined, \* started_ and joined_
          tidSet,  \* tid_ has been written
          latch,   \* latch_: its count
          asleep,  \* users in latch_.wait
          alive,   \* the object has not been destroyed
          data     \* the ThreadData on the heap exists

flags == <<started, joined>>
vars == <<user, thread, started, joined, tidSet, latch, asleep, alive, data>>

Init ==
  /\ user = [o \in Objects |-> "new"]
  /\ thread = [o \in Objects |-> "none"]
  /\ started = [o \in Objects |-> FALSE]
  /\ joined = [o \in Objects |-> FALSE]
  /\ tidSet = [o \in Objects |-> FALSE]
  /\ latch = [o \in Objects |-> 1]
  /\ asleep = {}
  /\ alive = [o \in Objects |-> TRUE]
  /\ data = [o \in Objects |-> FALSE]

\* Mutants of the code that the properties below must notice.
CountsFirst == "count"
NotNotified(o) == asleep
NotAwaited(o) == TRUE

Set(f, o, v) == [f EXCEPT ![o] = v]
UserAt(o, from, to) == user[o] = from /\ user' = Set(user, o, to)
ThreadAt(o, from, to) == thread[o] = from /\ thread' = Set(thread, o, to)

-----------------------------------------------------------------------------
(* The user: start(), join(), ~Thread().  *)
FirstStep == "tid"

Create(o) == \* pthread_create succeeds
  /\ UserAt(o, "new", "await")
  /\ ThreadAt(o, "none", FirstStep)
  /\ started' = Set(started, o, TRUE)
  /\ data' = Set(data, o, TRUE)
  /\ UNCHANGED <<joined, tidSet, latch, asleep, alive>>

CreateFails(o) == \* start() returns all the same, func_ has been moved away
  /\ UserAt(o, "new", "returned")
  /\ UNCHANGED <<thread, flags, tidSet, latch, asleep, alive, data>>

AwaitSleeps(o) ==
  /\ user[o] = "await" /\ o \notin asleep
  /\ latch[o] > 0
  /\ asleep' = asleep \cup {o}
  /\ UNCHANGED <<user, thread, flags, tidSet, latch, alive, data>>

AwaitPasses(o) ==
  /\ UserAt(o, "await", "returned") /\ o \notin asleep
  /\ latch[o] <= 0
  /\ UNCHANGED <<thread, flags, tidSet, latch, asleep, alive, data>>

SpuriousWakeup(o) ==
  /\ o \in asleep
  /\ asleep' = asleep \ {o}
  /\ UNCHANGED <<user, thread, flags, tidSet, latch, alive, data>>

Join(o) == \* assert(started_); the users of other objects go on regardless
  /\ UserAt(o, "returned", IF started[o] THEN "joining" ELSE "aborted")
  /\ joined' = Set(joined, o, started[o])
  /\ UNCHANGED <<thread, started, tidSet, latch, asleep, alive, data>>

Ended(o) == thread[o] = "ended"
JoinReturns(o) ==
  /\ UserAt(o, "joining", "joined")
  /\ Ended(o)
  /\ UNCHANGED <<thread, flags, tidSet, latch, asleep, alive, data>>

Destroy(o) == \* a thread that was started and not joined is detached
  /\ user[o] \in {"new", "returned", "joined"}
  /\ user' = Set(user, o, "gone")
  /\ alive' = Set(alive, o, FALSE)
  /\ UNCHANGED <<thread, flags, tidSet, latch, asleep, data>>

-----------------------------------------------------------------------------
(* The new thread: startThreadFunc() and ThreadData::run(). *)
SetTid(o) == \* through tid_, which points into the object
  /\ ThreadAt(o, "tid", "count")
  /\ tidSet' = Set(tidSet, o, TRUE)
  /\ UNCHANGED <<user, flags, latch, asleep, alive, data>>

Notify(o) == asleep \ {o}
CountDown(o) == \* latch_ points into the object, too
  /\ ThreadAt(o, "count", "func")
  /\ latch' = [latch EXCEPT ![o] = @ - 1]
  /\ asleep' = Notify(o)
  /\ UNCHANGED <<user, flags, tidSet, alive, data>>

Func(o) == \* func_() up to its end
  /\ ThreadAt(o, "func", "delete")
  /\ UNCHANGED <<user, flags, tidSet, latch, asleep, alive, data>>

Finish(o) ==
  /\ ThreadAt(o, "delete", "ended")
  /\ data' = Set(data, o, FALSE)
  /\ UNCHANGED <<user, flags, tidSet, latch, asleep, alive>>

Await(o) == AwaitSleeps(o) \/ AwaitPasses(o)
Run(o) == SetTid(o) \/ CountDown(o) \/ Func(o) \/ Finish(o)

Next ==
  \E o \in Objects :
    \/ Create(o) \/ CreateFails(o) \/ Await(o) \/ SpuriousWakeup(o)
    \/ Join(o) \/ JoinReturns(o) \/ Destroy(o)
    \/ Run(o)

Spec == Init /\ [][Next]_vars

-----------------------------------------------------------------------------
(* Types of the variables; a user sleeps only inside start(). *)
TypeOK ==
  /\ user \in [Objects -> {"new", "await", "returned", "joining", "joined", "aborted", "gone"}]
  /\ thread \in [Objects -> {"none", "tid", "count", "func", "delete", "ended"}]
  /\ started \in [Objects -> BOOLEAN] /\ joined \in [Objects -> BOOLEAN]
  /\ tidSet \in [Objects -> BOOLEAN]
  /\ latch \in [Objects -> {0, 1}]
  /\ asleep \in SUBSET {o \in Objects : user[o] = "await"}
  /\ alive \in [Objects -> BOOLEAN] /\ data \in [Objects -> BOOLEAN]

(* assert(tid_ > 0), Thread.cpp:129: when start() returns the new thread   *)
(* has written its id.                                                     *)
StartedHasTid ==
  \A o \in Objects : started[o] /\ user[o] = "returned" => tidSet[o]

(* The new thread writes tid_ and latch_ of the object only while the      *)
(* object exists, although the user may destroy it as soon as start() has  *)
(* returned (Thread.cpp:69-72 against 110-115).                            *)
NoWriteAfterDestruction ==
  \A o \in Objects : thread[o] \in {"tid", "count"} => alive[o]

(* The handshake uses latch_ as a CountDownLatch of one.                   *)
Latch(o) == INSTANCE CountDownLatch
  WITH Threads <- {"user", "thread"}, InitCounts <- {1}, Extra <- 0,
       count <- latch[o],
       call <- [t \in {"user", "thread"} |->
                  IF t = "user" /\ user[o] = "await" THEN "wait" ELSE "idle"],
       asleep <- IF o \in asleep THEN {"user"} ELSE {},
       passed <- IF started[o] /\ user[o] \notin {"new", "await"} THEN {"user"} ELSE {}
HandshakeUsesLatch ==
  /\ \A o \in Objects : Latch(o)!Init
  /\ [][\A o \in Objects : Latch(o)!Next \/ UNCHANGED Latch(o)!vars]_vars
=============================================================================
