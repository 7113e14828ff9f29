---------------------------- MODULE EpollPoller ----------------------------
(***************************************************************************)
(* The channels of one EpollPoller under callers that know what the        *)
(* operations of Registration ask of them: what they promise then.         *)
(***************************************************************************)
EXTENDS Registration

vars == <<life, fd, events, flag, added, channels, kernel, active, aborted>>

Init ==
  /\ life = [c \in Channels |-> "unborn"]
  /\ fd \in [Channels -> Fds]
  /\ events = [c \in Channels |-> {}]
  /\ flag = [c \in Channels |-> "kNew"]
  /\ added = [c \in Channels |-> FALSE]
  /\ channels = [f \in Fds |-> NoChannel]
  /\ kernel = [f \in Fds |-> Nothing]
  /\ active = {}
  /\ aborted = FALSE

Poll == \E ready \in SUBSET Registered : PollReports(ready)

-----------------------------------------------------------------------------
(* What callers have to know, as nothing reports it to them: to ask for    *)
(* nothing only while the poller has the channel, and to remove a channel  *)
(* that was added, once and with no events, before it dies.                *)
MayAskFor(c, ev) == ev = {} => flag[c] = "kAdded"
Enable(c) == \E e \in Events : Update(c, events[c] \cup {e})
Disable(c) ==
  \E e \in Events : MayAskFor(c, events[c] \ {e}) /\ Update(c, events[c] \ {e})
DisableAll(c) == MayAskFor(c, {}) /\ Update(c, {})
RemoveAdded(c) == added[c] /\ events[c] = {} /\ Remove(c)
DestroyRemoved(c) == ~added[c] /\ Destroy(c)

Next ==
  \/ \E c \in Channels :
       \/ Create(c) \/ Enable(c) \/ Disable(c) \/ DisableAll(c)
       \/ RemoveAdded(c) \/ DestroyRemoved(c)
  \/ Poll

Spec == Init /\ [][Next]_vars

-----------------------------------------------------------------------------
(* Types of the variables. *)
TypeOK ==
  /\ life \in [Channels -> {"unborn", "alive", "gone"}]
  /\ fd \in [Channels -> Fds]
  /\ events \in [Channels -> SUBSET Events]
  /\ flag \in [Channels -> {"kNew", "kAdded", "kDeleted"}]
  /\ added \in [Channels -> BOOLEAN]
  /\ channels \in [Fds -> Channels \cup {NoChannel}]
  /\ kernel \in [Fds -> [ptr : Channels \cup {NoChannel}, events : SUBSET Events]]
  /\ active \subseteq Channels
  /\ aborted \in BOOLEAN

(* With such callers none of the assertions of Channel.cpp and              *)
(* EpollPoller.cpp fails, whatever descriptors are used again.             *)
NoAssertionFails == ~aborted

(* The kernel waits for exactly what the channels ask for: a channel is    *)
(* registered iff its flag is kAdded, and with its current events          *)
(* (EpollPoller.cpp:67-98, 101-116: epoll_ctl results are only logged).    *)
KernelAgrees ==
  \A c \in Channels : life[c] = "alive" =>
    kernel[fd[c]] = IF events[c] = {} THEN Nothing
                                      ELSE [ptr |-> c, events |-> events[c]]

(* No pointer to a channel that is gone is left in the map or in the       *)
(* kernel (EpollPoller.cpp:44-48 uses the latter).                         *)
NoDanglingChannel ==
  \A f \in Fds : \A c \in {channels[f], kernel[f].ptr} :
    c # NoChannel => life[c] = "alive" /\ fd[c] = f
=============================================================================
