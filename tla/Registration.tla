---------------------------- MODULE Registration ---------------------------
(***************************************************************************)
(* The operations of ycnt::net::Channel and EpollPoller, one action each:  *)
(* which events a channel asks for, the flag that says what the poller     *)
(* knows of it, the poller's map, and what the kernel has been told.  File *)
(* descriptors are closed and handed out again.  A failed assertion stops  *)
(* the program.                                                            *)
(***************************************************************************)
EXTENDS Naturals, FiniteSets

CONSTANTS Channels,  \* Channel objects
          Fds,       \* file descriptors
          NoChannel  \* no entry in the map, or in the kernel

Events == {"read", "write"} \* kReadEvent, kWriteEvent

ASSUME PollerAssumption == NoChannel \notin Channels

VARIABLES life,     \* of each channel: "unborn", "alive" or "gone"
          fd,       \* fd_
          events,   \* events_: {} is kNoneEvent
          flag,     \* flag_
          added,    \* addedToLoop_
          channels, \* channels_: the channel of each descriptor
          kernel,   \* what epoll has for each descriptor: channel and events
          active,   \* activeChannels_: poll() adds to it and nobody empties it
          aborted   \* an assertion has failed

Nothing == [ptr |-> NoChannel, events |-> {}]

\* Mutants of the code that the properties below must notice.
Unforgotten(c) == UNCHANGED channels
KeepsFlag(c, ev) == "kAdded"
NoFlag == "NUM_OF_FLAGS"

Set(f, c, v) == [f EXCEPT ![c] = v]

-----------------------------------------------------------------------------
(* epoll_ctl: ADD of a descriptor that is there, MOD and DEL of one that   *)
(* is not, fail and are only logged.                                       *)
Add(c, ev) ==
  kernel' = IF kernel[fd[c]] = Nothing
            THEN Set(kernel, fd[c], [ptr |-> c, events |-> ev]) ELSE kernel
Modify(c, ev) ==
  kernel' = IF kernel[fd[c]] = Nothing
            THEN kernel ELSE Set(kernel, fd[c], [ptr |-> c, events |-> ev])
Delete(c) == kernel' = Set(kernel, fd[c], Nothing)

(* EpollPoller::updateChannel() of a channel that now asks for ev. *)
UpdateAsserts(c, ev) ==
  IF flag[c] = "kNew" THEN channels[fd[c]] = NoChannel /\ ev # {}
  ELSE channels[fd[c]] = c /\ (flag[c] = "kDeleted" => ev # {})

InEpoll == {"kAdded"}
FlagFor(c, ev) == IF ev = {} THEN "kDeleted" ELSE "kAdded"

UpdateChannel(c, ev) ==
  /\ channels' = Set(channels, fd[c], c)
  /\ flag' = Set(flag, c, FlagFor(c, ev))
  /\ IF flag[c] \notin InEpoll THEN Add(c, ev)
     ELSE IF ev = {} THEN Delete(c) ELSE Modify(c, ev)

(* Channel::update() behind enableReading(), disableReading() and so on.   *)
Update(c, ev) ==
  /\ life[c] = "alive" /\ ~aborted
  /\ events' = Set(events, c, ev)
  /\ added' = Set(added, c, TRUE)
  /\ IF UpdateAsserts(c, ev)
     THEN UpdateChannel(c, ev) /\ UNCHANGED aborted
     ELSE aborted' = TRUE /\ UNCHANGED <<channels, flag, kernel>>
  /\ UNCHANGED <<life, fd, active>>

(* Channel::remove() and EpollPoller::removeChannel(). *)
Forget(c) == channels' = Set(channels, fd[c], NoChannel)
RemoveAsserts(c) == channels[fd[c]] = c /\ events[c] = {} /\ flag[c] # "kNew"

RemovedFlag == "kNew"
Remove(c) ==
  /\ life[c] = "alive" /\ ~aborted
  /\ IF RemoveAsserts(c)
     THEN /\ added' = Set(added, c, FALSE)
          /\ Forget(c)
          /\ IF flag[c] \in InEpoll THEN Delete(c) ELSE UNCHANGED kernel
          /\ flag' = Set(flag, c, RemovedFlag)
          /\ UNCHANGED aborted
     ELSE aborted' = TRUE /\ UNCHANGED <<added, channels, flag, kernel>>
  /\ UNCHANGED <<life, fd, events, active>>

(* Channel(), and ~Channel() with its descriptor, which the kernel drops   *)
(* when it is closed.  A descriptor has one owner at a time.               *)
Create(c) ==
  /\ life[c] = "unborn" /\ ~aborted
  /\ \A d \in Channels : life[d] = "alive" => fd[d] # fd[c]
  /\ life' = Set(life, c, "alive")
  /\ UNCHANGED <<fd, events, flag, added, channels, kernel, active, aborted>>

Destroy(c) ==
  /\ life[c] = "alive" /\ ~aborted
  /\ IF added[c] THEN aborted' = TRUE /\ UNCHANGED <<life, kernel>>
     ELSE /\ life' = Set(life, c, "gone")
          /\ kernel' = Set(kernel, fd[c], Nothing)
          /\ UNCHANGED aborted
  /\ UNCHANGED <<fd, events, flag, added, channels, active>>

(* poll(): the kernel reports descriptors that are ready for something     *)
(* they were registered for, with the pointer it was given.                *)
PollAsserts(f) == kernel[f].ptr # NoChannel /\ channels[f] = kernel[f].ptr
PollReports(ready) ==
  /\ ~aborted
  /\ IF \A f \in ready : PollAsserts(f)
     THEN active' = active \cup {kernel[f].ptr : f \in ready} /\ UNCHANGED aborted
     ELSE aborted' = TRUE /\ UNCHANGED active
  /\ UNCHANGED <<life, fd, events, flag, added, channels, kernel>>

Registered == {f \in Fds : kernel[f] # Nothing}
=============================================================================
