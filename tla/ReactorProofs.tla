---------------------------- MODULE ReactorProofs ----------------------------
(***************************************************************************)
(* Proofs that the poller's map, the channels' flags and what the kernel   *)
(* was told agree under callers that EpollPoller describes, and that the   *)
(* event loop and its acceptors are such callers, until one of the two     *)
(* failing destructors stops the program; for any number of channels,      *)
(* descriptors, acceptors and threads.                                     *)
(***************************************************************************)
EXTENDS Reactor, TLAPS

-----------------------------------------------------------------------------
(* The poller by itself.                                                   *)

(* A descriptor has one living owner. *)
OneOwner ==
  \A c, d \in Channels :
    life[c] = "alive" /\ life[d] = "alive" /\ fd[c] = fd[d] => c = d

(* A channel starts in the state its constructor gives it. *)
Fresh ==
  \A c \in Channels :
    life[c] = "unborn" => flag[c] = "kNew" /\ ~added[c] /\ events[c] = {}

(* What flag_ says of a living channel: whether it was added to the loop,  *)
(* whether it asks for events, and whether the map has it.                 *)
FlagTells ==
  \A c \in Channels : life[c] = "alive" =>
    /\ added[c] <=> flag[c] # "kNew"
    /\ events[c] # {} <=> flag[c] = "kAdded"
    /\ channels[fd[c]] = IF added[c] THEN c ELSE NoChannel

(* An entry of the kernel with no channel asks for nothing.                *)
Quiet == \A f \in Fds : kernel[f].ptr = NoChannel => kernel[f] = P!Nothing

PollerInvariant ==
  /\ P!TypeOK /\ P!NoAssertionFails
  /\ OneOwner /\ Fresh /\ FlagTells /\ Quiet
  /\ P!KernelAgrees /\ P!NoDanglingChannel

-----------------------------------------------------------------------------
(* The invariant holds before any channel is made. *)
LEMMA PollerInit == P!Init => PollerInvariant
<1> SUFFICES ASSUME P!Init PROVE PollerInvariant
  OBVIOUS
<1>1. P!TypeOK
  BY DEF P!Init, P!TypeOK, P!Nothing, P!Events
<1>2. \A c \in Channels : life[c] = "unborn"
  BY DEF P!Init
<1>3. P!NoAssertionFails /\ OneOwner /\ FlagTells /\ P!KernelAgrees
  BY <1>2 DEF P!Init, P!NoAssertionFails, OneOwner, FlagTells, P!KernelAgrees
<1>4. Fresh
  BY DEF P!Init, Fresh
<1>5. Quiet /\ P!NoDanglingChannel
  BY DEF P!Init, Quiet, P!NoDanglingChannel, P!Nothing
<1> QED
  BY <1>1, <1>3, <1>4, <1>5 DEF PollerInvariant

(* Channel::update() by a caller that asks for nothing only when the       *)
(* poller has the channel (Channel.cpp, EpollPoller::updateChannel).       *)
LEMMA UpdateKeeps ==
  ASSUME PollerInvariant, NEW c \in Channels, NEW ev \in SUBSET P!Events,
         P!MayAskFor(c, ev), P!Update(c, ev)
  PROVE  PollerInvariant'
<1> USE DEF PollerInvariant, P!Set
<1>1. /\ life[c] = "alive" /\ UNCHANGED <<life, fd, active>>
      /\ events' = [events EXCEPT ![c] = ev]
      /\ added' = [added EXCEPT ![c] = TRUE]
  BY DEF P!Update
<1>2. fd[c] \in Fds
  BY DEF P!TypeOK
<1>3. P!UpdateAsserts(c, ev)
  BY <1>1, PollerAssumption DEF P!UpdateAsserts, P!MayAskFor, FlagTells, P!TypeOK
<1>4. /\ channels' = [channels EXCEPT ![fd[c]] = c]
      /\ flag' = [flag EXCEPT ![c] = IF ev = {} THEN "kDeleted" ELSE "kAdded"]
      /\ UNCHANGED aborted
  BY <1>3 DEF P!Update, P!UpdateChannel, P!FlagFor
<1>5. kernel[fd[c]] = IF flag[c] = "kAdded" THEN [ptr |-> c, events |-> events[c]]
                                            ELSE P!Nothing
  BY <1>1 DEF FlagTells, P!KernelAgrees
<1>6. [ptr |-> c, events |-> events[c]] # P!Nothing
  BY PollerAssumption DEF P!Nothing
<1>7. kernel' = [kernel EXCEPT ![fd[c]] = IF ev = {} THEN P!Nothing
                                          ELSE [ptr |-> c, events |-> ev]]
  <2>1. CASE flag[c] = "kAdded"
    BY <2>1, <1>3, <1>5, <1>6 DEF P!Update, P!UpdateChannel, P!InEpoll, P!Delete, P!Modify
  <2>2. CASE flag[c] # "kAdded"
    <3>1. ev # {}
      BY <2>2 DEF P!MayAskFor
    <3> QED
      BY <2>2, <3>1, <1>3, <1>5 DEF P!Update, P!UpdateChannel, P!InEpoll, P!Add
  <2> QED
    BY <2>1, <2>2
<1>8. P!TypeOK'
  BY <1>1, <1>2, <1>4, <1>7 DEF P!TypeOK, P!Nothing, P!Events
<1>9. P!NoAssertionFails' /\ OneOwner' /\ Quiet'
  BY <1>1, <1>2, <1>4, <1>7, PollerAssumption
     DEF P!NoAssertionFails, OneOwner, Quiet, P!Nothing, P!TypeOK
<1>10. Fresh'
  BY <1>1, <1>4 DEF Fresh, P!TypeOK
<1>11. FlagTells'
  <2> SUFFICES ASSUME NEW d \in Channels, life'[d] = "alive"
               PROVE  /\ added'[d] <=> flag'[d] # "kNew"
                      /\ events'[d] # {} <=> flag'[d] = "kAdded"
                      /\ channels'[fd'[d]] = IF added'[d] THEN d ELSE NoChannel
    BY DEF FlagTells
  <2>1. CASE d = c
    BY <2>1, <1>1, <1>2, <1>4 DEF P!TypeOK
  <2>2. CASE d # c
    <3>1. fd[d] # fd[c] /\ fd[d] \in Fds
      BY <2>2, <1>1 DEF OneOwner, P!TypeOK
    <3> QED
      BY <2>2, <3>1, <1>1, <1>4 DEF FlagTells, P!TypeOK
  <2> QED
    BY <2>1, <2>2
<1>12. P!KernelAgrees'
  <2> SUFFICES ASSUME NEW d \in Channels, life'[d] = "alive"
               PROVE  kernel'[fd'[d]] = IF events'[d] = {} THEN P!Nothing
                                        ELSE [ptr |-> d, events |-> events'[d]]
    BY DEF P!KernelAgrees, P!Nothing
  <2>1. CASE d = c
    BY <2>1, <1>1, <1>2, <1>7 DEF P!TypeOK
  <2>2. CASE d # c
    <3>1. fd[d] # fd[c] /\ fd[d] \in Fds
      BY <2>2, <1>1 DEF OneOwner, P!TypeOK
    <3> QED
      BY <2>2, <3>1, <1>1, <1>7 DEF P!KernelAgrees, P!TypeOK
  <2> QED
    BY <2>1, <2>2
<1>13. P!NoDanglingChannel'
  <2> SUFFICES ASSUME NEW f \in Fds, NEW d \in {channels'[f], kernel'[f].ptr},
                      d # NoChannel
               PROVE  life'[d] = "alive" /\ fd'[d] = f
    BY DEF P!NoDanglingChannel
  <2>1. CASE f = fd[c]
    BY <2>1, <1>1, <1>2, <1>4, <1>7 DEF P!TypeOK, P!Nothing
  <2>2. CASE f # fd[c]
    BY <2>2, <1>1, <1>4, <1>7 DEF P!NoDanglingChannel, P!TypeOK
  <2> QED
    BY <2>1, <2>2
<1> QED
  BY <1>8, <1>9, <1>10, <1>11, <1>12, <1>13

(* Channel::remove() of a channel that was added and asks for nothing: the *)
(* kernel was told when its last event was disabled.                       *)
LEMMA RemoveKeeps ==
  ASSUME PollerInvariant, NEW c \in Channels, P!RemoveAdded(c)
  PROVE  PollerInvariant'
<1> USE DEF PollerInvariant, P!Set
<1>1. /\ life[c] = "alive" /\ added[c] /\ events[c] = {}
      /\ UNCHANGED <<life, fd, events, active>>
  BY DEF P!RemoveAdded, P!Remove
<1>2. fd[c] \in Fds
  BY DEF P!TypeOK
<1>3. P!RemoveAsserts(c) /\ flag[c] # "kAdded"
  BY <1>1 DEF P!RemoveAsserts, FlagTells
<1>4. /\ added' = [added EXCEPT ![c] = FALSE]
      /\ channels' = [channels EXCEPT ![fd[c]] = NoChannel]
      /\ flag' = [flag EXCEPT ![c] = "kNew"]
      /\ UNCHANGED <<kernel, aborted>>
  BY <1>3 DEF P!RemoveAdded, P!Remove, P!Forget, P!InEpoll, P!RemovedFlag
<1>5. P!TypeOK'
  BY <1>1, <1>2, <1>4 DEF P!TypeOK
<1>6. P!NoAssertionFails' /\ OneOwner' /\ Quiet' /\ P!KernelAgrees'
  BY <1>1, <1>4 DEF P!NoAssertionFails, OneOwner, Quiet, P!KernelAgrees, P!Nothing
<1>7. Fresh'
  BY <1>1, <1>4 DEF Fresh, P!TypeOK
<1>8. FlagTells'
  <2> SUFFICES ASSUME NEW d \in Channels, life[d] = "alive"
               PROVE  /\ added'[d] <=> flag'[d] # "kNew"
                      /\ events[d] # {} <=> flag'[d] = "kAdded"
                      /\ channels'[fd[d]] = IF added'[d] THEN d ELSE NoChannel
    BY <1>1 DEF FlagTells
  <2>1. CASE d = c
    BY <2>1, <1>1, <1>2, <1>4 DEF P!TypeOK
  <2>2. CASE d # c
    <3>1. fd[d] # fd[c] /\ fd[d] \in Fds
      BY <2>2, <1>1 DEF OneOwner, P!TypeOK
    <3> QED
      BY <2>2, <3>1, <1>4 DEF FlagTells, P!TypeOK
  <2> QED
    BY <2>1, <2>2
<1>9. P!NoDanglingChannel'
  <2> SUFFICES ASSUME NEW f \in Fds, NEW d \in {channels'[f], kernel[f].ptr},
                      d # NoChannel
               PROVE  life[d] = "alive" /\ fd[d] = f
    BY <1>1, <1>4 DEF P!NoDanglingChannel
  <2>1. d \in {channels[f], kernel[f].ptr}
    BY <1>2, <1>4 DEF P!TypeOK
  <2> QED
    BY <2>1 DEF P!NoDanglingChannel
<1> QED
  BY <1>5, <1>6, <1>7, <1>8, <1>9

(* Channel() on a descriptor that no living channel has: neither the map   *)
(* nor the kernel can hold an entry for it any more.                       *)
LEMMA CreateKeeps ==
  ASSUME PollerInvariant, NEW c \in Channels, P!Create(c)
  PROVE  PollerInvariant'
<1> USE DEF PollerInvariant, P!Set
<1>1. /\ life[c] = "unborn" /\ life' = [life EXCEPT ![c] = "alive"]
      /\ UNCHANGED <<fd, events, flag, added, channels, kernel, active, aborted>>
      /\ \A d \in Channels : life[d] = "alive" => fd[d] # fd[c]
  BY DEF P!Create
<1>2. fd[c] \in Fds
  BY DEF P!TypeOK
<1>3. channels[fd[c]] = NoChannel /\ kernel[fd[c]].ptr = NoChannel
  BY <1>1, <1>2 DEF P!NoDanglingChannel, P!TypeOK
<1>4. kernel[fd[c]] = P!Nothing
  BY <1>2, <1>3 DEF P!TypeOK, Quiet
<1>5. P!TypeOK'
  BY <1>1 DEF P!TypeOK
<1>6. P!NoAssertionFails' /\ OneOwner' /\ Quiet'
  BY <1>1 DEF P!NoAssertionFails, OneOwner, Quiet, P!Nothing, P!TypeOK
<1>7. /\ flag[c] = "kNew" /\ ~added[c] /\ events[c] = {}
      /\ \A d \in Channels : life'[d] = "alive" <=> life[d] = "alive" \/ d = c
      /\ \A d \in Channels : life'[d] = "unborn" => life[d] = "unborn"
  BY <1>1 DEF Fresh, P!TypeOK
<1>8. Fresh'
  BY <1>1, <1>7 DEF Fresh
<1>9. FlagTells'
  BY <1>1, <1>3, <1>7 DEF FlagTells
<1>10. P!KernelAgrees'
  BY <1>1, <1>4, <1>7 DEF P!KernelAgrees, P!Nothing
<1>11. P!NoDanglingChannel'
  BY <1>1 DEF P!NoDanglingChannel, P!TypeOK
<1> QED
  BY <1>5, <1>6, <1>8, <1>9, <1>10, <1>11

(* ~Channel() of a channel that was removed, and close() of its descriptor. *)
LEMMA DestroyKeeps ==
  ASSUME PollerInvariant, NEW c \in Channels, P!DestroyRemoved(c)
  PROVE  PollerInvariant'
<1> USE DEF PollerInvariant, P!Set
<1>1. /\ life[c] = "alive" /\ ~added[c] /\ life' = [life EXCEPT ![c] = "gone"]
      /\ kernel' = [kernel EXCEPT ![fd[c]] = P!Nothing]
      /\ UNCHANGED <<fd, events, flag, added, channels, active, aborted>>
  BY DEF P!DestroyRemoved, P!Destroy
<1>2. fd[c] \in Fds
  BY DEF P!TypeOK
<1>3. P!TypeOK'
  BY <1>1 DEF P!TypeOK, P!Nothing
<1>4. /\ \A d \in Channels : life'[d] = "alive" => life[d] = "alive"
      /\ \A d \in Channels : life'[d] = "unborn" => life[d] = "unborn"
  BY <1>1 DEF P!TypeOK
<1>5. P!NoAssertionFails' /\ OneOwner' /\ Fresh' /\ FlagTells'
  BY <1>1, <1>4 DEF P!NoAssertionFails, OneOwner, Fresh, FlagTells
<1>6. Quiet'
  BY <1>1, <1>2 DEF Quiet, P!Nothing, P!TypeOK
<1>7. P!KernelAgrees'
  <2> SUFFICES ASSUME NEW d \in Channels, life'[d] = "alive"
               PROVE  kernel'[fd[d]] = kernel[fd[d]] /\ life[d] = "alive"
    BY <1>1 DEF P!KernelAgrees, P!Nothing
  <2>1. d # c /\ life[d] = "alive"
    BY <1>1 DEF P!TypeOK
  <2>2. fd[d] # fd[c] /\ fd[d] \in Fds
    BY <2>1, <1>1 DEF OneOwner, P!TypeOK
  <2> QED
    BY <2>1, <2>2, <1>1 DEF P!TypeOK
<1>8. P!NoDanglingChannel'
  <2> SUFFICES ASSUME NEW f \in Fds, NEW d \in {channels[f], kernel'[f].ptr},
                      d # NoChannel
               PROVE  life'[d] = "alive" /\ fd[d] = f
    BY <1>1 DEF P!NoDanglingChannel
  <2>1. channels[fd[c]] = NoChannel
    BY <1>1 DEF FlagTells
  <2>2. f # fd[c] /\ d \in {channels[f], kernel[f].ptr}
    BY <2>1, <1>1, <1>2 DEF P!TypeOK, P!Nothing
  <2> QED
    BY <2>2, <1>1 DEF P!NoDanglingChannel, P!TypeOK
<1> QED
  BY <1>3, <1>5, <1>6, <1>7, <1>8

(* EpollPoller::poll(): every pointer the kernel hands back is the map's.  *)
LEMMA PollKeeps ==
  ASSUME PollerInvariant, P!Poll
  PROVE  PollerInvariant'
<1> USE DEF PollerInvariant
<1>1. PICK ready \in SUBSET P!Registered : P!PollReports(ready)
  BY DEF P!Poll
<1>2. UNCHANGED <<life, fd, events, flag, added, channels, kernel>>
  BY <1>1 DEF P!PollReports
<1>3. ASSUME NEW f \in ready PROVE P!PollAsserts(f) /\ kernel[f].ptr \in Channels
  <2> DEFINE c == kernel[f].ptr
  <2>1. f \in Fds /\ kernel[f] # P!Nothing
    BY <1>3 DEF P!Registered
  <2>2. c # NoChannel /\ c \in Channels
    BY <2>1 DEF P!TypeOK, Quiet
  <2>3. life[c] = "alive" /\ fd[c] = f
    BY <2>1, <2>2 DEF P!NoDanglingChannel
  <2>4. events[c] # {}
    BY <2>1, <2>2, <2>3 DEF P!KernelAgrees
  <2>5. channels[f] = c
    BY <2>2, <2>3, <2>4 DEF FlagTells
  <2> QED
    BY <2>2, <2>5 DEF P!PollAsserts
<1>4. UNCHANGED aborted /\ active' \subseteq Channels
  BY <1>1, <1>3 DEF P!PollReports, P!TypeOK
<1>5. P!TypeOK'
  BY <1>2, <1>4 DEF P!TypeOK
<1>6. P!NoAssertionFails' /\ OneOwner' /\ Fresh' /\ FlagTells'
  BY <1>2, <1>4 DEF P!NoAssertionFails, OneOwner, Fresh, FlagTells
<1>7. Quiet' /\ P!KernelAgrees' /\ P!NoDanglingChannel'
  BY <1>2 DEF Quiet, P!KernelAgrees, P!NoDanglingChannel, P!Nothing
<1> QED
  BY <1>5, <1>6, <1>7

-----------------------------------------------------------------------------
(* Every step of the loop's thread preserves the invariant.                *)
LEMMA PollerStep == PollerInvariant /\ [P!Next]_(P!vars) => PollerInvariant'
<1> SUFFICES ASSUME PollerInvariant, [P!Next]_(P!vars) PROVE PollerInvariant'
  OBVIOUS
<1>1. CASE UNCHANGED P!vars
  <2>1. P!TypeOK' /\ P!NoAssertionFails' /\ OneOwner' /\ Fresh' /\ FlagTells'
    BY <1>1 DEF P!vars, PollerInvariant, P!TypeOK, P!NoAssertionFails, OneOwner, Fresh, FlagTells
  <2>2. Quiet' /\ P!KernelAgrees' /\ P!NoDanglingChannel'
    BY <1>1 DEF P!vars, PollerInvariant, Quiet, P!KernelAgrees, P!NoDanglingChannel, P!Nothing
  <2> QED
    BY <2>1, <2>2 DEF PollerInvariant
<1>2. ASSUME NEW c \in Channels, P!Create(c) PROVE PollerInvariant'
  BY <1>2, CreateKeeps
<1>3. ASSUME NEW c \in Channels, P!Enable(c) PROVE PollerInvariant'
  <2>1. PICK e \in P!Events : P!Update(c, events[c] \cup {e})
    BY <1>3 DEF P!Enable
  <2>2. events[c] \cup {e} \in SUBSET P!Events /\ P!MayAskFor(c, events[c] \cup {e})
    BY DEF PollerInvariant, P!TypeOK, P!MayAskFor
  <2> QED
    BY <2>1, <2>2, UpdateKeeps
<1>4. ASSUME NEW c \in Channels, P!Disable(c) PROVE PollerInvariant'
  <2>1. PICK e \in P!Events : /\ P!MayAskFor(c, events[c] \ {e})
                            /\ P!Update(c, events[c] \ {e})
    BY <1>4 DEF P!Disable
  <2>2. events[c] \ {e} \in SUBSET P!Events
    BY DEF PollerInvariant, P!TypeOK
  <2> QED
    BY <2>1, <2>2, UpdateKeeps
<1>5. ASSUME NEW c \in Channels, P!DisableAll(c) PROVE PollerInvariant'
  BY <1>5, UpdateKeeps DEF P!DisableAll
<1>6. ASSUME NEW c \in Channels, P!RemoveAdded(c) PROVE PollerInvariant'
  BY <1>6, RemoveKeeps
<1>7. ASSUME NEW c \in Channels, P!DestroyRemoved(c) PROVE PollerInvariant'
  BY <1>7, DestroyKeeps
<1>8. CASE P!Poll
  BY <1>8, PollKeeps
<1> QED
  BY <1>1, <1>2, <1>3, <1>4, <1>5, <1>6, <1>7, <1>8 DEF P!Next

(* Hence it is an invariant of the poller.                                 *)
LEMMA PollerInvariantHolds == P!Spec => []PollerInvariant
  BY PollerInit, PollerStep, PTL DEF P!Spec

(* The variables of Channel and EpollPoller keep their types.              *)
THEOREM PollerTypeCorrect == P!Spec => []P!TypeOK
<1>1. PollerInvariant => P!TypeOK
  BY DEF PollerInvariant
<1> QED
  BY <1>1, PollerInvariantHolds, PTL

(* With the callers that Next describes none of the assertions of          *)
(* Channel.cpp and EpollPoller.cpp fails, however many channels there are. *)
THEOREM PollerAssertionsHold == P!Spec => []P!NoAssertionFails
<1>1. PollerInvariant => P!NoAssertionFails
  BY DEF PollerInvariant
<1> QED
  BY <1>1, PollerInvariantHolds, PTL

(* The kernel waits for what the channels ask for, although the results of *)
(* epoll_ctl are only logged.                                              *)
THEOREM PollerTellsKernel == P!Spec => []P!KernelAgrees
<1>1. PollerInvariant => P!KernelAgrees
  BY DEF PollerInvariant
<1> QED
  BY <1>1, PollerInvariantHolds, PTL

(* No pointer to a dead channel is left in the map or in the kernel, so    *)
(* poll() never follows one.                                               *)
THEOREM PollerPointersAreAlive == P!Spec => []P!NoDanglingChannel
<1>1. PollerInvariant => P!NoDanglingChannel
  BY DEF PollerInvariant
<1> QED
  BY <1>1, PollerInvariantHolds, PTL

-----------------------------------------------------------------------------
(* Event loop and acceptors.                                               *)

(* The operations of Registration are those of the poller's specification. *)
LEMMA SameOperations ==
  ASSUME NEW c \in Channels, NEW ev
  PROVE  /\ Create(c) <=> P!Create(c)
         /\ Update(c, ev) <=> P!Update(c, ev)
         /\ Remove(c) <=> P!Remove(c)
         /\ Destroy(c) <=> P!Destroy(c)
         /\ PollReports(ev) <=> P!PollReports(ev)
<1> USE DEF Set, P!Set, Nothing, P!Nothing, InEpoll, P!InEpoll
<1>1. Create(c) <=> P!Create(c)
  BY DEF Create, P!Create
<1>2. /\ UpdateAsserts(c, ev) <=> P!UpdateAsserts(c, ev)
      /\ UpdateChannel(c, ev) <=> P!UpdateChannel(c, ev)
  BY DEF UpdateAsserts, P!UpdateAsserts, UpdateChannel, P!UpdateChannel, FlagFor, P!FlagFor,
         Add, P!Add, Modify, P!Modify, Delete, P!Delete
<1>3. Update(c, ev) <=> P!Update(c, ev)
  BY <1>2 DEF Update, P!Update
<1>4. Remove(c) <=> P!Remove(c)
  BY DEF Remove, P!Remove, RemoveAsserts, P!RemoveAsserts, Forget, P!Forget,
         Delete, P!Delete, RemovedFlag, P!RemovedFlag
<1>5. Destroy(c) <=> P!Destroy(c)
  BY DEF Destroy, P!Destroy
<1>6. PollReports(ev) <=> P!PollReports(ev)
  BY DEF PollReports, P!PollReports, PollAsserts, P!PollAsserts
<1> QED
  BY <1>1, <1>3, <1>4, <1>5, <1>6

-----------------------------------------------------------------------------
(* What each owner knows of its channel, as far as it is with it.          *)
AcceptorKnows(a) ==
  /\ acceptor[a] = "none" => life[a] = "unborn"
  /\ acceptor[a] = "made" => life[a] = "alive" /\ ~added[a]
  /\ acceptor[a] = "listening" => life[a] = "alive" /\ events[a] # {}
  /\ acceptor[a] = "disabled" => life[a] = "alive" /\ added[a] /\ events[a] = {}
  /\ acceptor[a] = "removed" => life[a] = "alive" /\ ~added[a]
  /\ acceptor[a] = "gone" => life[a] = "gone"

LoopKnows ==
  /\ loop = "none" => life[Wakeup] = "unborn"
  /\ loop = "made" => life[Wakeup] = "alive" /\ ~added[Wakeup]
  /\ loop \in {"idle", "while", "poll"} => life[Wakeup] = "alive" /\ added[Wakeup]
  /\ loop # "gone"

(* While the program runs the poller's invariant holds, and what the       *)
(* owners know.                                                            *)
Running == ~aborted => PollerInvariant /\ LoopKnows /\ \A a \in Acceptors : AcceptorKnows(a)

(* No destructor is under way while the loop runs.                         *)
NoneDying == loop \in {"while", "poll"} => \A a \in Acceptors : ~InDestructor(a)

(* The loop polls only after quit(), and then it never returns.            *)
PollsForEver ==
  /\ loop = "poll" => quit
  /\ active # {} => loop \in {"while", "poll"} /\ quit

OwnTypes ==
  /\ loop \in {"none", "made", "idle", "while", "poll", "gone"}
  /\ acceptor \in [Acceptors -> {"none", "made", "listening", "disabled", "removed", "gone"}]
  /\ quit \in BOOLEAN /\ counter \in Nat
  /\ functors \in Seq(Outsiders \cup {LoopThread}) /\ waking \subseteq Outsiders

RInv ==
  /\ P!TypeOK /\ KernelAgrees /\ NoDanglingChannel
  /\ OwnTypes /\ Running /\ NoneDying /\ PollsForEver /\ ActiveChannelsAlive

(* The threads start before the first channel is registered.               *)
LEMMA InitInvariant == Init => RInv
<1> SUFFICES ASSUME Init PROVE RInv
  OBVIOUS
<1>1. P!Init /\ PollerInvariant
  BY PollerInit, PollerAssumption DEF Init
<1>2. P!TypeOK /\ KernelAgrees /\ NoDanglingChannel
  BY <1>1 DEF PollerInvariant, KernelAgrees, NoDanglingChannel
<1>3. OwnTypes
  <2>1. functors \in Seq(Outsiders \cup {LoopThread})
    BY DEF Init
  <2>2. acceptor \in [Acceptors -> {"none", "made", "listening", "disabled", "removed", "gone"}]
    BY DEF Init
  <2> QED
    BY <2>1, <2>2 DEF Init, OwnTypes
<1>4. active = {} /\ \A c \in Channels : life[c] = "unborn"
  BY <1>1 DEF P!Init
<1>5. Running
  BY <1>1, <1>4, ReactorAssumption DEF Init, Running, LoopKnows, AcceptorKnows
<1>6. NoneDying /\ PollsForEver /\ ActiveChannelsAlive
  BY <1>4 DEF Init, NoneDying, PollsForEver, ActiveChannelsAlive
<1> QED
  BY <1>2, <1>3, <1>5, <1>6 DEF RInv

(* A step on one channel leaves the others alone.                          *)
LEMMA OnlyOne ==
  ASSUME PollerInvariant, NEW c \in Channels, NEW ev \in SUBSET Events,
         Create(c) \/ Update(c, ev) \/ Remove(c) \/ Destroy(c)
  PROVE  /\ \A d \in Channels : d # c =>
              life'[d] = life[d] /\ added'[d] = added[d] /\ events'[d] = events[d]
         /\ UNCHANGED active
<1> USE DEF PollerInvariant, P!TypeOK, Set
<1>1. CASE Create(c)
  BY <1>1 DEF Create
<1>2. CASE Update(c, ev)
  BY <1>2 DEF Update
<1>3. CASE Remove(c)
  BY <1>3 DEF Remove
<1>4. CASE Destroy(c)
  BY <1>4 DEF Destroy
<1> QED
  BY <1>1, <1>2, <1>3, <1>4

(* To the owner's channel it does what the owner asks for, unless an       *)
(* assertion fails.                                                        *)
LEMMA ItsOwn ==
  ASSUME PollerInvariant, NEW c \in Channels, ~aborted'
  PROVE  /\ Create(c) => life'[c] = "alive" /\ added'[c] = added[c] /\ life[c] = "unborn"
         /\ \A ev \in SUBSET Events : Update(c, ev) =>
              life'[c] = "alive" /\ added'[c] /\ events'[c] = ev
         /\ Remove(c) => life'[c] = "alive" /\ ~added'[c]
         /\ Destroy(c) => life'[c] = "gone" /\ ~added[c]
<1> USE DEF PollerInvariant, P!TypeOK, Set
<1>1. Create(c) => life'[c] = "alive" /\ added'[c] = added[c] /\ life[c] = "unborn"
  BY DEF Create
<1>2. ASSUME NEW ev \in SUBSET Events, Update(c, ev)
      PROVE  life'[c] = "alive" /\ added'[c] /\ events'[c] = ev
  BY <1>2 DEF Update
<1>3. Remove(c) => life'[c] = "alive" /\ ~added'[c]
  BY DEF Remove
<1>4. Destroy(c) => life'[c] = "gone" /\ ~added[c]
  BY DEF Destroy
<1> QED
  BY <1>1, <1>2, <1>3, <1>4

(* What the poller's invariant says of a channel that was not added.       *)
LEMMA NotAdded ==
  ASSUME PollerInvariant, NEW c \in Channels, life[c] = "alive"
  PROVE  /\ ~added[c] => flag[c] = "kNew" /\ events[c] = {}
         /\ events[c] # {} => flag[c] = "kAdded"
BY DEF PollerInvariant, FlagTells

-----------------------------------------------------------------------------
(* A failing destructor: of the event loop, whose wakeup channel is still  *)
(* registered, or of an acceptor that has never listened.                  *)
Abort ==
  /\ aborted' = TRUE /\ FailingDestructor /\ added' \in [Channels -> BOOLEAN]
  /\ UNCHANGED <<life, fd, events, flag, channels, kernel, active>>

(* What one step of an acceptor is to its poller, and to what it knows.    *)
LEMMA AcceptorSteps ==
  ASSUME RInv, ~aborted, NEW a \in Acceptors, AcceptorStep(a)
  PROVE  /\ P!Next \/ Abort
         /\ ~aborted' => AcceptorKnows(a)'
<1> USE DEF RInv, Running
<1>0. /\ a \in Channels /\ PollerInvariant /\ AcceptorKnows(a)
      /\ acceptor \in [Acceptors -> {"none", "made", "listening", "disabled", "removed", "gone"}]
      /\ events \in [Channels -> SUBSET Events]
  BY ReactorAssumption DEF OwnTypes, P!TypeOK, P!Events, Events
<1>1. CASE NewAcceptor(a)
  <2>1. Create(a) /\ acceptor'[a] = "made" /\ acceptor[a] = "none"
    BY <1>0, <1>1 DEF NewAcceptor, AcceptorAt
  <2>2. P!Next
    BY <1>0, <2>1, SameOperations DEF P!Next
  <2>3. ~aborted' => life'[a] = "alive" /\ ~added'[a]
    BY <1>0, <2>1, ItsOwn DEF PollerInvariant, Fresh
  <2> QED
    BY <2>1, <2>2, <2>3 DEF AcceptorKnows
<1>2. CASE Listen(a)
  <2>1. /\ Update(a, events[a] \cup {"read"})
        /\ acceptor'[a] = "listening"
        /\ events[a] \cup {"read"} \in SUBSET Events
    BY <1>0, <1>2 DEF Listen, AcceptorAt, Events
  <2>2. P!Enable(a)
    BY <1>0, <2>1, SameOperations DEF P!Enable, P!Events
  <2>3. ~aborted' => life'[a] = "alive" /\ events'[a] # {}
    BY <1>0, <2>1, ItsOwn
  <2> QED
    BY <1>0, <2>1, <2>2, <2>3 DEF AcceptorKnows, P!Next
<1>3. CASE DisableAll(a)
  <2>1. /\ Update(a, {}) /\ acceptor'[a] = "disabled"
        /\ acceptor[a] \in {"made", "listening"} /\ life[a] = "alive"
    BY <1>0, <1>3 DEF DisableAll, AcceptorAt, AfterDisableAll, Update
  <2>2. P!Update(a, {})
    BY <1>0, <2>1, SameOperations
  <2>3. CASE acceptor[a] = "listening"
    <3>1. flag[a] = "kAdded"
      BY <1>0, <2>1, <2>3, NotAdded DEF AcceptorKnows
    <3>2. P!Next
      BY <1>0, <2>2, <3>1 DEF P!Next, P!DisableAll, P!MayAskFor
    <3>3. ~aborted' => life'[a] = "alive" /\ added'[a] /\ events'[a] = {}
      BY <1>0, <2>1, ItsOwn
    <3> QED
      BY <2>1, <3>2, <3>3 DEF AcceptorKnows
  <2>4. CASE acceptor[a] = "made"
    <3>1. flag[a] = "kNew" /\ events[a] = {}
      BY <1>0, <2>1, <2>4, NotAdded DEF AcceptorKnows
    <3>2. /\ aborted' = TRUE /\ events' = [events EXCEPT ![a] = {}]
          /\ added' = [added EXCEPT ![a] = TRUE]
          /\ UNCHANGED <<life, fd, flag, channels, kernel, active>>
      BY <2>1, <3>1 DEF Update, UpdateAsserts, Set
    <3>3. events' = events /\ added' \in [Channels -> BOOLEAN]
      BY <1>0, <3>1, <3>2 DEF P!TypeOK
    <3> QED
      BY <2>1, <2>4, <3>2, <3>3 DEF Abort, FailingDestructor
  <2> QED
    BY <2>1, <2>3, <2>4
<1>4. CASE RemoveChannel(a)
  <2>1. /\ Remove(a) /\ acceptor'[a] = "removed"
        /\ added[a] /\ events[a] = {}
    BY <1>0, <1>4 DEF RemoveChannel, AcceptorAt, AcceptorKnows
  <2>2. P!Next
    BY <1>0, <2>1, SameOperations DEF P!Next, P!RemoveAdded
  <2>3. ~aborted' => life'[a] = "alive" /\ ~added'[a]
    BY <1>0, <2>1, ItsOwn
  <2> QED
    BY <2>1, <2>2, <2>3 DEF AcceptorKnows
<1>5. CASE DestroyChannel(a)
  <2>1. Destroy(a) /\ acceptor'[a] = "gone" /\ ~added[a]
    BY <1>0, <1>5 DEF DestroyChannel, AcceptorAt, AcceptorKnows
  <2>2. P!Next
    BY <1>0, <2>1, SameOperations DEF P!Next, P!DestroyRemoved
  <2>3. ~aborted' => life'[a] = "gone"
    BY <1>0, <2>1, ItsOwn
  <2> QED
    BY <2>1, <2>2, <2>3 DEF AcceptorKnows
<1> QED
  BY <1>1, <1>2, <1>3, <1>4, <1>5 DEF AcceptorStep
(* A channel's owner keeps what it knows while others act on theirs.       *)
LEMMA OthersKnow ==
  ASSUME RInv, ~aborted, NEW c \in Channels,
         \A d \in Channels : d # c =>
           life'[d] = life[d] /\ added'[d] = added[d] /\ events'[d] = events[d]
  PROVE  /\ \A a \in Acceptors : a # c /\ acceptor'[a] = acceptor[a] => AcceptorKnows(a)'
         /\ Wakeup # c /\ loop' = loop => LoopKnows'
<1>1. LoopKnows /\ \A a \in Acceptors : AcceptorKnows(a)
  BY DEF RInv, Running
<1>2. ASSUME NEW a \in Acceptors, a # c, acceptor'[a] = acceptor[a]
      PROVE  AcceptorKnows(a)'
  <2>1. life'[a] = life[a] /\ added'[a] = added[a] /\ events'[a] = events[a]
    BY <1>2, ReactorAssumption
  <2> QED
    BY <1>1, <1>2, <2>1 DEF AcceptorKnows
<1>3. Wakeup # c /\ loop' = loop => LoopKnows'
  BY <1>1, ReactorAssumption DEF LoopKnows
<1> QED
  BY <1>2, <1>3

(* The steps of the loop itself.                                           *)
LEMMA LoopSteps ==
  ASSUME RInv, ~aborted,
         NewLoop \/ EnableWakeup \/ BeginLoop \/ InLoop \/ DestroyLoop
  PROVE  /\ P!Next \/ UNCHANGED pollerVars \/ Abort
         /\ ~aborted' => LoopKnows' /\ \A a \in Acceptors : AcceptorKnows(a)'
<1> USE DEF AtLoop, RestOfLoop
<1>0. /\ Wakeup \in Channels /\ Wakeup \notin Acceptors
      /\ PollerInvariant /\ LoopKnows
  BY ReactorAssumption DEF RInv, Running
<1>1. CASE NewLoop
  <2>1. Create(Wakeup) /\ loop' = "made" /\ acceptor' = acceptor
    BY <1>1 DEF NewLoop
  <2>2. P!Next
    BY <1>0, <2>1, SameOperations DEF P!Next
  <2>3. ~aborted' => life'[Wakeup] = "alive" /\ ~added'[Wakeup]
    BY <1>0, <2>1, ItsOwn DEF PollerInvariant, Fresh
  <2>4. \A a \in Acceptors : AcceptorKnows(a)'
    BY <1>0, <2>1, OnlyOne, OthersKnow
  <2> QED
    BY <2>1, <2>2, <2>3, <2>4 DEF LoopKnows
<1>2. CASE EnableWakeup
  <2>1. /\ Update(Wakeup, {"read"}) /\ loop' = "idle" /\ acceptor' = acceptor
        /\ life[Wakeup] = "alive" /\ ~added[Wakeup] /\ {"read"} \in SUBSET Events
    BY <1>0, <1>2 DEF EnableWakeup, LoopKnows, Events
  <2>2. events[Wakeup] \cup {"read"} = {"read"}
    BY <1>0, <2>1, NotAdded
  <2>3. P!Enable(Wakeup)
    BY <1>0, <2>1, <2>2, SameOperations DEF P!Enable, P!Events
  <2>4. ~aborted' => life'[Wakeup] = "alive" /\ added'[Wakeup]
    BY <1>0, <2>1, ItsOwn
  <2>5. \A a \in Acceptors : AcceptorKnows(a)'
    BY <1>0, <2>1, OnlyOne, OthersKnow
  <2> QED
    BY <1>0, <2>1, <2>3, <2>4, <2>5 DEF LoopKnows, P!Next
<1>3. CASE DestroyLoop
  <2>1. Destroy(Wakeup) /\ loop' = "gone" /\ added[Wakeup]
    BY <1>0, <1>3 DEF DestroyLoop, LoopKnows
  <2>2. aborted' = TRUE /\ UNCHANGED <<life, fd, events, flag, added, channels, kernel, active>>
    BY <2>1 DEF Destroy
  <2> QED
    BY <2>1, <2>2 DEF Abort, FailingDestructor, RInv, P!TypeOK
<1>4. CASE PollOnce
  <2>1. PICK ready \in SUBSET Registered : PollReports(ready)
    BY <1>4 DEF PollOnce
  <2>2. P!Next
    BY <1>0, <2>1, SameOperations DEF P!Next, P!Poll, P!Registered, Registered, P!Nothing, Nothing
  <2>3. UNCHANGED <<life, events, added, acceptor>> /\ loop' = "while" /\ loop = "poll"
    BY <1>4, <2>1 DEF PollReports, PollOnce
  <2> QED
    BY <1>0, <2>2, <2>3 DEF RInv, Running, LoopKnows, AcceptorKnows
<1>5. CASE BeginLoop \/ TestQuit
  <2>1. /\ UNCHANGED pollerVars /\ acceptor' = acceptor
        /\ loop \in {"idle", "while"} /\ loop' \in {"idle", "while", "poll"}
    BY <1>5 DEF BeginLoop, TestQuit
  <2>2. LoopKnows'
    BY <1>0, <2>1 DEF LoopKnows, pollerVars
  <2>3. \A a \in Acceptors : AcceptorKnows(a)'
    BY <2>1 DEF RInv, Running, AcceptorKnows, pollerVars
  <2> QED
    BY <2>1, <2>2, <2>3
<1> QED
  BY <1>1, <1>2, <1>3, <1>4, <1>5 DEF InLoop

(* The steps of other channels of the loop's thread.                       *)
LEMMA OtherSteps ==
  ASSUME RInv, ~aborted, NEW c \in Channels \ (Acceptors \cup {Wakeup}), OtherChannel(c)
  PROVE  /\ P!Next
         /\ LoopKnows' /\ \A a \in Acceptors : AcceptorKnows(a)'
<1>1. P!Next
  BY SameOperations DEF OtherChannel, P!Next
<1>2. PICK ev \in SUBSET Events : Create(c) \/ Update(c, ev) \/ Remove(c) \/ Destroy(c)
  <2>1. events[c] \in SUBSET Events
    BY DEF RInv, P!TypeOK, P!Events, Events
  <2>2. \A ev \in SUBSET Events : P!Update(c, ev) => Update(c, ev)
    BY SameOperations
  <2>3. CASE P!Enable(c)
    BY <2>1, <2>2, <2>3 DEF P!Enable, P!Events, Events
  <2>4. CASE P!Disable(c)
    BY <2>1, <2>2, <2>4 DEF P!Disable, P!Events, Events
  <2>5. CASE P!DisableAll(c)
    BY <2>2, <2>5 DEF P!DisableAll
  <2>6. CASE Create(c) \/ P!RemoveAdded(c) \/ P!DestroyRemoved(c)
    BY <2>6, SameOperations DEF P!RemoveAdded, P!DestroyRemoved
  <2> QED
    BY <2>3, <2>4, <2>5, <2>6 DEF OtherChannel
<1>3. PollerInvariant
  BY DEF RInv, Running
<1>4. UNCHANGED <<loop, acceptor>>
  BY DEF OtherChannel, loopVars
<1> QED
  BY <1>1, <1>2, <1>3, <1>4, OnlyOne, OthersKnow

(* The steps of threads that quit the loop or queue functors.              *)
LEMMA CallerSteps ==
  ASSUME NEW t \in Outsiders \cup {LoopThread}, Quit(t) \/ QueueInLoop(t) \/ WriteWakeup(t)
  PROVE  UNCHANGED <<pollerVars, loop, acceptor>>
BY DEF Quit, QueueInLoop, WriteWakeup, pollerVars
-----------------------------------------------------------------------------
(* Every step uses the poller as it asks its callers to, and once an       *)
(* assertion has failed nobody touches it again.                           *)
LEMMA Uses ==
  ASSUME RInv, [Next]_vars
  PROVE  /\ P!Next \/ UNCHANGED pollerVars \/ Abort
         /\ ~aborted' => LoopKnows' /\ \A a \in Acceptors : AcceptorKnows(a)'
         /\ aborted => UNCHANGED pollerVars
<1>1. CASE aborted
  <2>1. UNCHANGED vars => UNCHANGED pollerVars
    BY DEF vars
  <2>2. ASSUME NEW t \in Outsiders \cup {LoopThread}, Quit(t) \/ QueueInLoop(t) \/ WriteWakeup(t)
        PROVE  UNCHANGED pollerVars
    BY <2>2, CallerSteps
  <2>3. ASSUME NEW a \in Acceptors, AcceptorStep(a) PROVE FALSE
    BY <1>1, <2>3 DEF AcceptorStep, NewAcceptor, Listen, DisableAll, Idle, RemoveChannel,
                      DestroyChannel, Remove, Destroy
  <2>4. ASSUME NEW c \in Channels \ (Acceptors \cup {Wakeup}), OtherChannel(c) PROVE FALSE
    BY <1>1, <2>4 DEF OtherChannel, Idle
  <2>5. TestQuit => UNCHANGED pollerVars
    BY DEF TestQuit
  <2>6. ~(NewLoop \/ EnableWakeup \/ BeginLoop \/ PollOnce \/ DestroyLoop)
    BY <1>1 DEF NewLoop, EnableWakeup, BeginLoop, DestroyLoop, Idle, Create, Update,
                PollOnce, PollReports
  <2>7. UNCHANGED pollerVars
    BY <2>1, <2>2, <2>3, <2>4, <2>5, <2>6 DEF Next, InLoop
  <2> QED
    BY <1>1, <2>7 DEF pollerVars
<1>2. CASE ~aborted
  <2>1. CASE UNCHANGED <<pollerVars, loop, acceptor>>
    <3>1. LoopKnows'
      BY <1>2, <2>1 DEF RInv, Running, LoopKnows, pollerVars
    <3>2. \A a \in Acceptors : AcceptorKnows(a)'
      BY <1>2, <2>1 DEF RInv, Running, AcceptorKnows, pollerVars
    <3> QED
      BY <1>2, <2>1, <3>1, <3>2
  <2>2. ASSUME NEW a \in Acceptors, AcceptorStep(a)
        PROVE  /\ P!Next \/ Abort
               /\ ~aborted' => LoopKnows' /\ \A b \in Acceptors : AcceptorKnows(b)'
    <3>1. /\ loop' = loop /\ a \in Channels /\ a # Wakeup
          /\ \A b \in Acceptors : b # a => acceptor'[b] = acceptor[b]
      <4>1. loop' = loop /\ \E st : acceptor' = [acceptor EXCEPT ![a] = st]
        BY <2>2 DEF AcceptorStep, NewAcceptor, Listen, DisableAll, RemoveChannel,
                    DestroyChannel, AcceptorAt, loopVars
      <4> QED
        BY <4>1, ReactorAssumption DEF RInv, OwnTypes
    <3>2. PollerInvariant /\ events[a] \cup {"read"} \in SUBSET Events
      BY <1>2, <3>1 DEF RInv, Running, P!TypeOK, P!Events, Events
    <3>3. \E ev \in SUBSET Events : Create(a) \/ Update(a, ev) \/ Remove(a) \/ Destroy(a)
      BY <2>2, <3>2 DEF AcceptorStep, NewAcceptor, Listen, DisableAll, AfterDisableAll,
                        RemoveChannel, DestroyChannel
    <3>4. \A d \in Channels : d # a =>
            life'[d] = life[d] /\ added'[d] = added[d] /\ events'[d] = events[d]
      BY <3>1, <3>2, <3>3, OnlyOne
    <3>5. LoopKnows' /\ \A b \in Acceptors : b # a => AcceptorKnows(b)'
      BY <1>2, <3>1, <3>4, OthersKnow
    <3> QED
      BY <1>2, <2>2, <3>5, AcceptorSteps
  <2>3. UNCHANGED vars => UNCHANGED <<pollerVars, loop, acceptor>>
    BY DEF vars, loopVars
  <2> QED
    BY <1>2, <2>1, <2>2, <2>3, CallerSteps, LoopSteps, OtherSteps DEF Next
<1> QED
  BY <1>1, <1>2
(* What the poller promises survives every step, of an aborting program    *)
(* too: a failing destructor changes nothing but addedToLoop_.             *)
LEMMA PollerPromises ==
  ASSUME RInv, [Next]_vars
  PROVE  /\ (P!TypeOK /\ KernelAgrees /\ NoDanglingChannel)'
         /\ ~aborted' => PollerInvariant'
<1>1. CASE P!Next /\ ~aborted
  <2>1. PollerInvariant
    BY <1>1 DEF RInv, Running
  <2>2. PollerInvariant'
    BY <1>1, <2>1, PollerStep, PollerAssumption
  <2> QED
    BY <2>2, PTL DEF PollerInvariant, KernelAgrees, NoDanglingChannel
<1>2. CASE UNCHANGED pollerVars
  <2>1. (P!TypeOK /\ KernelAgrees /\ NoDanglingChannel)'
    <3>1. P!TypeOK'
      BY <1>2 DEF RInv, pollerVars, P!TypeOK
    <3>2. KernelAgrees'
      BY <1>2 DEF RInv, pollerVars, KernelAgrees, P!KernelAgrees, P!Nothing
    <3>3. NoDanglingChannel'
      BY <1>2 DEF RInv, pollerVars, NoDanglingChannel, P!NoDanglingChannel
    <3> QED
      BY <3>1, <3>2, <3>3
  <2>2. ~aborted' => ~aborted /\ UNCHANGED P!vars
    BY <1>2 DEF pollerVars, P!vars
  <2>3. ~aborted' => PollerInvariant'
    BY <2>2, PollerStep, PollerAssumption DEF RInv, Running
  <2> QED
    BY <2>1, <2>3
<1>3. CASE Abort
  <2>1. aborted' = TRUE /\ added' \in [Channels -> BOOLEAN]
    BY <1>3 DEF Abort
  <2>2. UNCHANGED <<life, fd, events, flag, channels, kernel, active>>
    BY <1>3 DEF Abort
  <2>3. P!TypeOK'
    BY <2>1, <2>2 DEF RInv, P!TypeOK
  <2>4. KernelAgrees'
    BY <2>2 DEF RInv, KernelAgrees, P!KernelAgrees, P!Nothing
  <2>5. NoDanglingChannel'
    BY <2>2 DEF RInv, NoDanglingChannel, P!NoDanglingChannel
  <2> QED
    BY <2>1, <2>3, <2>4, <2>5
<1> QED
  BY <1>1, <1>2, <1>3, Uses

(* Loop, acceptors, queue and counter keep their types.                    *)
LEMMA OwnTypesKept ==
  ASSUME RInv, [Next]_vars
  PROVE  OwnTypes'
<1> USE DEF RInv, OwnTypes
<1>1. CASE UNCHANGED <<loopVars, acceptor>>
  BY <1>1 DEF loopVars
<1>2. CASE NewLoop \/ EnableWakeup \/ BeginLoop \/ InLoop \/ DestroyLoop
  <2>1. /\ loop' \in {"none", "made", "idle", "while", "poll", "gone"}
        /\ quit' \in BOOLEAN
        /\ UNCHANGED <<functors, waking, counter, acceptor>>
    BY <1>2 DEF NewLoop, EnableWakeup, BeginLoop, InLoop, TestQuit, PollOnce, DestroyLoop,
                AtLoop, RestOfLoop
  <2> QED
    BY <2>1
<1>3. ASSUME NEW t \in Outsiders \cup {LoopThread}, Quit(t) \/ QueueInLoop(t) \/ WriteWakeup(t)
      PROVE  OwnTypes'
  <2>1. CASE Quit(t)
    BY <2>1 DEF Quit
  <2>2. CASE QueueInLoop(t)
    <3>1. functors' \in Seq(Outsiders \cup {LoopThread})
      BY <2>2 DEF QueueInLoop
    <3>2. waking' \subseteq Outsiders
      BY <2>2 DEF QueueInLoop, Wakes, functorHandling
    <3> QED
      BY <2>2, <3>1, <3>2 DEF QueueInLoop
  <2>3. CASE WriteWakeup(t)
    BY <2>3 DEF WriteWakeup, WakeupValue
  <2> QED
    BY <1>3, <2>1, <2>2, <2>3
<1>4. ASSUME NEW a \in Acceptors, AcceptorStep(a) PROVE OwnTypes'
  <2>1. UNCHANGED loopVars
    BY <1>4 DEF AcceptorStep
  <2>2. PICK st \in {"made", "listening", "disabled", "removed", "gone"} :
          acceptor' = [acceptor EXCEPT ![a] = st]
    BY <1>4 DEF AcceptorStep, NewAcceptor, Listen, DisableAll, RemoveChannel, DestroyChannel,
                AcceptorAt
  <2>3. acceptor' \in [Acceptors -> {"none", "made", "listening", "disabled", "removed", "gone"}]
    BY <2>2
  <2> QED
    BY <2>1, <2>3 DEF loopVars
<1>5. UNCHANGED vars => UNCHANGED <<loopVars, acceptor>>
  BY DEF vars
<1>6. ASSUME NEW c \in Channels, OtherChannel(c) PROVE UNCHANGED <<loopVars, acceptor>>
  BY <1>6 DEF OtherChannel
<1> QED
  BY <1>1, <1>2, <1>3, <1>4, <1>5, <1>6 DEF Next

(* Nobody destroys a channel while the loop runs, and nothing is active    *)
(* before it does.                                                         *)
LEMMA LoopKept ==
  ASSUME RInv, [Next]_vars
  PROVE  NoneDying' /\ PollsForEver' /\ ActiveChannelsAlive'
<1> USE DEF RInv, NoneDying, PollsForEver, ActiveChannelsAlive
<1>1. CASE UNCHANGED vars
  BY <1>1 DEF vars, pollerVars, loopVars, InDestructor
<1>2. CASE BeginLoop
  BY <1>2 DEF BeginLoop, Idle, AtLoop, pollerVars, InDestructor
<1>3. CASE TestQuit
  BY <1>3 DEF TestQuit, Continues, AtLoop, pollerVars, InDestructor
<1>4. CASE PollOnce
  <2>1. /\ loop = "poll" /\ loop' = "while" /\ UNCHANGED <<quit, acceptor, life>>
        /\ active' \subseteq active \cup {kernel[f].ptr : f \in Registered} /\ ~aborted
    BY <1>4 DEF PollOnce, PollReports, AtLoop, RestOfLoop
  <2>2. ASSUME NEW f \in Registered PROVE life[kernel[f].ptr] = "alive"
    <3>1. f \in Fds /\ kernel[f] # P!Nothing
      BY DEF Registered, Nothing, P!Nothing
    <3>2. kernel[f].ptr # NoChannel
      BY <2>1, <3>1 DEF Running, PollerInvariant, Quiet, P!Nothing
    <3> QED
      BY <3>1, <3>2 DEF NoDanglingChannel, P!NoDanglingChannel
  <2> QED
    BY <2>1, <2>2 DEF InDestructor
<1>5. ASSUME NEW t \in Outsiders \cup {LoopThread}, Quit(t) \/ QueueInLoop(t) \/ WriteWakeup(t)
      PROVE  NoneDying' /\ PollsForEver' /\ ActiveChannelsAlive'
  <2>1. UNCHANGED <<loop, acceptor, life, active>>
    BY <1>5, CallerSteps DEF pollerVars
  <2>2. quit' = TRUE \/ quit' = quit
    BY <1>5 DEF Quit, QueueInLoop, WriteWakeup
  <2> QED
    BY <2>1, <2>2 DEF InDestructor
<1>6. ASSUME loop \notin {"while", "poll"}, loop' \notin {"while", "poll"},
             UNCHANGED <<quit, active>>
      PROVE  NoneDying' /\ PollsForEver' /\ ActiveChannelsAlive'
  BY <1>6
<1>7. CASE NewLoop \/ EnableWakeup \/ DestroyLoop
  BY <1>6, <1>7 DEF NewLoop, EnableWakeup, DestroyLoop, AtLoop, RestOfLoop, Create, Update, Destroy
<1>8. ASSUME NEW a \in Acceptors, AcceptorStep(a)
      PROVE  NoneDying' /\ PollsForEver' /\ ActiveChannelsAlive'
  <2>1. UNCHANGED <<loop, quit, active>>
    BY <1>8 DEF AcceptorStep, loopVars, NewAcceptor, Listen, DisableAll, RemoveChannel,
                DestroyChannel, Create, Update, Remove, Destroy
  <2>2. loop \notin {"while", "poll"}
    BY <1>8 DEF AcceptorStep, NewAcceptor, Listen, DisableAll, RemoveChannel,
                DestroyChannel, AcceptorAt, Idle, InDestructor
  <2> QED
    BY <1>6, <2>1, <2>2
<1>9. ASSUME NEW c \in Channels \ (Acceptors \cup {Wakeup}), OtherChannel(c)
      PROVE  NoneDying' /\ PollsForEver' /\ ActiveChannelsAlive'
  <2>1. UNCHANGED <<loop, quit>> /\ loop = "idle"
    BY <1>9 DEF OtherChannel, loopVars, Idle
  <2>2. UNCHANGED active
    BY <1>9 DEF OtherChannel, Create, P!Enable, P!Disable, P!DisableAll, P!RemoveAdded,
                P!DestroyRemoved, P!Update, P!Remove, P!Destroy
  <2> QED
    BY <1>6, <2>1, <2>2
<1> QED
  BY <1>1, <1>2, <1>3, <1>4, <1>5, <1>7, <1>8, <1>9 DEF Next, InLoop

(* Every step of every thread keeps the invariant.                         *)
LEMMA StepInvariant == RInv /\ [Next]_vars => RInv'
<1> SUFFICES ASSUME RInv, [Next]_vars PROVE RInv'
  OBVIOUS
<1>1. Running'
  BY Uses, PollerPromises DEF Running
<1> QED
  BY <1>1, PollerPromises, OwnTypesKept, LoopKept DEF RInv

(* Hence it is an invariant of the threads.                                *)
LEMMA Invariant == Spec => []RInv
  BY InitInvariant, StepInvariant, PTL DEF Spec

-----------------------------------------------------------------------------
(* The variables of EventLoop, Acceptor and poller keep their types.       *)
THEOREM TypeCorrect == Spec => []TypeOK
<1>1. RInv => TypeOK
  BY DEF RInv, OwnTypes, TypeOK
<1> QED
  BY <1>1, Invariant, PTL

(* EventLoop and Acceptor take only the steps EpollPoller allows its       *)
(* callers, up to the two destructors that fail an assertion               *)
(* (EventLoop.cpp:65-71, Acceptor.cpp:37-41).                              *)
THEOREM PollerIsUsedAsSpecified == Spec => PollerUsedAsSpecified
<1>1. Init => P!Init
  BY DEF Init
<1>2. RInv /\ [Next]_vars =>
        [P!Next \/ UNCHANGED pollerVars \/ (aborted' /\ FailingDestructor)]_vars
  BY Uses DEF Abort
<1> QED
  BY <1>1, <1>2, Invariant, PTL DEF Spec, PollerUsedAsSpecified

(* Under loop and acceptors the kernel waits for what the channels ask     *)
(* for, whatever descriptors are used again (EpollPoller.cpp:61-116).      *)
THEOREM KernelIsToldRight == Spec => []KernelAgrees
<1>1. RInv => KernelAgrees
  BY DEF RInv
<1> QED
  BY <1>1, Invariant, PTL

(* No pointer to a dead channel is left in the map or in the kernel.       *)
THEOREM PointersAreAlive == Spec => []NoDanglingChannel
<1>1. RInv => NoDanglingChannel
  BY DEF RInv
<1> QED
  BY <1>1, Invariant, PTL

(* activeChannels_, which nobody empties, has only living channels         *)
(* (EventLoop.cpp:80-83, EpollPoller.cpp:50).                              *)
THEOREM ActiveAreAlive == Spec => []ActiveChannelsAlive
<1>1. RInv => ActiveChannelsAlive
  BY DEF RInv
<1> QED
  BY <1>1, Invariant, PTL
=============================================================================
