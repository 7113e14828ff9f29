------------------------------- MODULE Reactor -------------------------------
(***************************************************************************)
(* ycnt::net::EventLoop and the Acceptors of its thread, as the users of   *)
(* an EpollPoller, with threads that quit the loop and queue functors.     *)
(* Only the loop's thread may touch channels (assertInLoopThread()), and   *)
(* while it is inside loop() it does nothing else: nobody handles the      *)
(* channels that poll() reports, and nobody runs the functors.             *)
(***************************************************************************)
EXTENDS Registration, Sequences

CONSTANTS Wakeup,      \* wakeupChannel_
          Acceptors,   \* the acceptChannel_ of each Acceptor
          LoopThread,  \* the thread that has built the EventLoop
          Outsiders,   \* other threads
          MaxFunctors  \* bound: functors queued

ASSUME ReactorAssumption ==
  /\ Wakeup \in Channels /\ Acceptors \subseteq Channels \ {Wakeup}
  /\ LoopThread \notin Outsiders /\ MaxFunctors \in Nat

VARIABLES loop,     \* where the loop's thread is
          acceptor, \* how far each Acceptor is
          quit,     \* quit_
          functors, \* functors_: who has queued each
          waking,   \* threads in queueInLoop() that have not written to wakeupFd_ yet
          counter   \* of wakeupFd_, an eventfd: it can be read when it is not zero

P == INSTANCE EpollPoller

pollerVars == <<life, fd, events, flag, added, channels, kernel, active, aborted>>
loopVars == <<loop, quit, functors, waking, counter>>
vars == <<pollerVars, loopVars, acceptor>>

Init ==
  /\ P!Init
  /\ loop = "none" /\ quit = FALSE
  /\ functors = <<>> /\ waking = {} /\ counter = 0
  /\ acceptor = [a \in Acceptors |-> "none"]

\* Mutants of the code that the properties below must notice.
WhileNotQuit == ~quit
StaysListening(a) == events[a]

-----------------------------------------------------------------------------
(* EventLoop() and ~EventLoop(), which leaves its wakeup channel as it is. *)
AtLoop(from, to) == loop = from /\ loop' = to
RestOfLoop == UNCHANGED <<quit, functors, waking, counter, acceptor>>

NewLoop == AtLoop("none", "made") /\ Create(Wakeup) /\ RestOfLoop
EnableWakeup == AtLoop("made", "idle") /\ Update(Wakeup, {"read"}) /\ RestOfLoop

InDestructor(a) == acceptor[a] \in {"disabled", "removed"}
Idle == loop = "idle" /\ ~aborted /\ \A a \in Acceptors : ~InDestructor(a)

DestroyLoop == Idle /\ AtLoop("idle", "gone") /\ Destroy(Wakeup) /\ RestOfLoop

(* loop(): both its assignment and its condition are about the same quit_. *)
BeginLoop ==
  /\ Idle /\ AtLoop("idle", "while")
  /\ quit' = FALSE
  /\ UNCHANGED <<pollerVars, functors, waking, counter, acceptor>>

Continues == quit
TestQuit ==
  /\ AtLoop("while", IF Continues THEN "poll" ELSE "idle")
  /\ UNCHANGED <<pollerVars, acceptor, quit, functors, waking, counter>>

PollOnce == \* whatever is ready, or nothing after kPollTimeMs
  /\ AtLoop("poll", "while")
  /\ \E ready \in SUBSET Registered :
       /\ fd[Wakeup] \in Registered => (fd[Wakeup] \in ready <=> counter > 0)
       /\ PollReports(ready)
  /\ RestOfLoop

-----------------------------------------------------------------------------
(* quit() and queueInLoop(), of any thread: quit() wakes nobody up, and    *)
(* queueInLoop() writes to wakeupFd_ after it has unlocked mutex_.         *)
MayCall(t) ==
  /\ loop \in {"idle", "while", "poll"} /\ ~aborted /\ t \notin waking
  /\ t = LoopThread => Idle

Quit(t) ==
  /\ MayCall(t)
  /\ quit' = TRUE
  /\ UNCHANGED <<pollerVars, loop, functors, waking, counter, acceptor>>

functorHandling == FALSE \* functorHandling_: nobody sets it
Wakes(t) == t # LoopThread \/ functorHandling
QueueInLoop(t) ==
  /\ MayCall(t) /\ Len(functors) < MaxFunctors
  /\ functors' = Append(functors, t)
  /\ waking' = IF Wakes(t) THEN waking \cup {t} ELSE waking
  /\ UNCHANGED <<pollerVars, loop, quit, counter, acceptor>>

WakeupValue == 0 \* v
WriteWakeup(t) ==
  /\ t \in waking /\ loop # "gone" /\ ~aborted
  /\ waking' = waking \ {t}
  /\ counter' = counter + WakeupValue
  /\ UNCHANGED <<pollerVars, loop, quit, functors, acceptor>>

-----------------------------------------------------------------------------
(* Acceptor(), listen() and ~Acceptor(), which disables and removes its    *)
(* channel before the channel and the socket go.                           *)
AcceptorAt(a, from, to) == acceptor[a] \in from /\ acceptor' = [acceptor EXCEPT ![a] = to]

NewAcceptor(a) == Idle /\ AcceptorAt(a, {"none"}, "made") /\ Create(a)
Listen(a) ==
  Idle /\ AcceptorAt(a, {"made", "listening"}, "listening") /\ Update(a, events[a] \cup {"read"})
AfterDisableAll(a) == {}
DisableAll(a) ==
  Idle /\ AcceptorAt(a, {"made", "listening"}, "disabled") /\ Update(a, AfterDisableAll(a))
RemoveChannel(a) == AcceptorAt(a, {"disabled"}, "removed") /\ Remove(a)
DestroyChannel(a) == AcceptorAt(a, {"removed"}, "gone") /\ Destroy(a)
AcceptorStep(a) ==
  /\ NewAcceptor(a) \/ Listen(a) \/ DisableAll(a) \/ RemoveChannel(a) \/ DestroyChannel(a)
  /\ UNCHANGED loopVars

(* Other channels of the loop's thread, whose owners know what EpollPoller *)
(* asks of them.                                                           *)
OtherChannel(c) ==
  /\ Idle
  /\ \/ Create(c) \/ P!Enable(c) \/ P!Disable(c) \/ P!DisableAll(c)
     \/ P!RemoveAdded(c) \/ P!DestroyRemoved(c)
  /\ UNCHANGED <<loopVars, acceptor>>

InLoop == TestQuit \/ PollOnce
Next ==
  \/ NewLoop \/ EnableWakeup \/ BeginLoop \/ InLoop \/ DestroyLoop
  \/ \E t \in Outsiders \cup {LoopThread} : Quit(t) \/ QueueInLoop(t) \/ WriteWakeup(t)
  \/ \E a \in Acceptors : AcceptorStep(a)
  \/ \E c \in Channels \ (Acceptors \cup {Wakeup}) : OtherChannel(c)

Spec == Init /\ [][Next]_vars

(* A thread inside loop() or queueInLoop() goes on: poll() has a timeout.  *)
(* Nobody has to enter the loop, to quit it or to queue anything.          *)
FairSpec ==
  Spec /\ WF_vars(InLoop) /\ \A t \in Outsiders : WF_vars(WriteWakeup(t))

-----------------------------------------------------------------------------
(* Types of the variables. *)
TypeOK ==
  /\ P!TypeOK
  /\ loop \in {"none", "made", "idle", "while", "poll", "gone"}
  /\ acceptor \in [Acceptors -> {"none", "made", "listening", "disabled", "removed", "gone"}]
  /\ quit \in BOOLEAN /\ counter \in Nat
  /\ functors \in Seq(Outsiders \cup {LoopThread})
  /\ waking \subseteq Outsiders

(* The event loop and its acceptors use the poller as its specification    *)
(* asks its callers to, so that what holds for EpollPoller holds here; but *)
(* two destructors fail an assertion: of an EventLoop, whose wakeup        *)
(* channel is still registered (EventLoop.cpp:65-71, Channel.cpp:35), and  *)
(* of an Acceptor that has never listened (Acceptor.cpp:37-41,             *)
(* EpollPoller.cpp:70).                                                    *)
FailingDestructor ==
  \/ loop' = "gone" /\ added[Wakeup]
  \/ \E a \in Acceptors : acceptor[a] = "made" /\ acceptor'[a] = "disabled"
PollerUsedAsSpecified ==
  P!Init /\ [][P!Next \/ UNCHANGED pollerVars \/ (aborted' /\ FailingDestructor)]_vars

(* The kernel waits for exactly what the channels ask for, between all     *)
(* calls of loop, acceptors and other channels (EpollPoller.cpp:61-116).   *)
KernelAgrees == P!KernelAgrees

(* Neither the poller's map nor the kernel keeps a pointer to a dead       *)
(* channel when descriptors are used again (EpollPoller.cpp:44-48).        *)
NoDanglingChannel == P!NoDanglingChannel

(* activeChannels_ is never emptied, and still has no pointer to a channel *)
(* that is gone: nothing dies while loop() polls, and once it has polled   *)
(* it never returns (EventLoop.cpp:80-83, EpollPoller.cpp:50).             *)
ActiveChannelsAlive == \A c \in active : life[c] = "alive"

(* A functor queued by another thread ends the wait of a loop that polls:  *)
(* wakeupFd_ is written after the functor is in the queue                  *)
(* (EventLoop.cpp:127-147).  Refuted: what is written is zero.             *)
FunctorWakesLoop ==
  \A t \in Outsiders :
    (loop = "poll" /\ \E i \in DOMAIN functors : functors[i] = t) ~> Wakeup \in active

(* EventLoop.cpp:88-94: quit() sets quit_ and is to "wake up the           *)
(* eventloop" of another thread, so that loop() returns.  Refuted: loop()  *)
(* goes on while quit_ is true.                                            *)
QuitEndsLoop == (loop \in {"while", "poll"} /\ quit) ~> (loop = "idle")
=============================================================================
