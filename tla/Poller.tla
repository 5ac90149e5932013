------------------------------- MODULE Poller -------------------------------
(***************************************************************************)
(* RN::Poller and the registration half of RN::Channel: the vector of      *)
(* pollfd the kernel is asked about, the map from file descriptor to       *)
(* Channel, and the index every Channel keeps of its own entry.  The three *)
(* are updated together on the loop thread, and removal swaps the removed  *)
(* entry with the last one, so a stale index silently redirects the next   *)
(* update to another connection's entry.                                   *)
(*                                                                         *)
(* pollfd.revents and Channel::revents_ are left out: fillActiveChannels   *)
(* reads the first in the call in which ::poll wrote it, and what a        *)
(* handler does with the second is the business of the module that models  *)
(* the handler.                                                            *)
(***************************************************************************)
EXTENDS Integers, Sequences, FiniteSets

CONSTANTS Channel,    \* the Channel objects
          FdOf,       \* Channel::fd_, fixed at construction
          NoChannel   \* what channels_.find() == end() stands for

(* Every descriptor has one Channel: Socket never closes its descriptor     *)
(* (Socket.h:19), so the kernel never hands the same number out again.      *)
ASSUME FdAssumption ==
    /\ FdOf \in [Channel -> Nat]
    /\ \A c, d \in Channel : FdOf[c] = FdOf[d] => c = d
ASSUME NoChannelAssumption == NoChannel \notin Channel

Event      == {"IN", "OUT"}
PollFd     == [fd : Int, events : SUBSET Event]
Fd         == {FdOf[c] : c \in Channel}
kNoneEvent == {}

VARIABLES
    pollfds_,        \* what ::poll is given, as [fd, events]
    channels_,       \* fd -> Channel
    index_,          \* Channel::index_, counted from 0 as in the code
    events_,         \* Channel::events_
    activeChannels_, \* EventLoop::activeChannels_, the handled ones dropped
    phase,           \* where the loop thread is in EventLoop::loop
    removed          \* channels whose owner has let go of them

vars == <<pollfds_, channels_, index_, events_, activeChannels_, phase, removed>>

Ignored(fd)   == -fd - 1
isNoneEvent(c) == events_[c] = kNoneEvent
Registered    == {c \in Channel : channels_[FdOf[c]] = c}
Mapped        == {f \in Fd : channels_[f] # NoChannel}
Entry(c)      == pollfds_[index_[c] + 1]

Types ==
    /\ pollfds_ \in Seq(PollFd)
    /\ channels_ \in [Fd -> Channel \cup {NoChannel}]
    /\ index_ \in [Channel -> Int]
    /\ events_ \in [Channel -> SUBSET Event]
    /\ activeChannels_ \in Seq(Channel)
    /\ phase \in {"poll", "handle", "functors"}
    /\ removed \in SUBSET Channel

(* The map files every channel under its own descriptor.                    *)
MapConsistent == \A f \in Fd : channels_[f] # NoChannel => FdOf[channels_[f]] = f

TypeOK == Types /\ MapConsistent

Init ==
    /\ pollfds_ = <<>>
    /\ channels_ = [f \in Fd |-> NoChannel]
    /\ index_ = [c \in Channel |-> -1]
    /\ events_ = [c \in Channel |-> kNoneEvent]
    /\ activeChannels_ = <<>>
    /\ phase = "functors"      \* registrations made before loop()
    /\ removed = {}

-----------------------------------------------------------------------------
(* Poller::updateChannel after Channel::events_ has become ev.              *)

UpdateAsserts(c) ==
    IF index_[c] < 0
    THEN channels_[FdOf[c]] = NoChannel
    ELSE /\ channels_[FdOf[c]] = c
         /\ index_[c] + 1 \in DOMAIN pollfds_
         /\ Entry(c).fd \in {FdOf[c], Ignored(FdOf[c])}

(* Mutation: the map files the channel under its index.                     *)
AddUnderIndex(c, ev) ==
    /\ pollfds_' = Append(pollfds_, [fd |-> FdOf[c], events |-> ev])
    /\ index_' = [index_ EXCEPT ![c] = Len(pollfds_)]
    /\ channels_' = [channels_ EXCEPT ![Len(pollfds_)] = c]

(* Mutation: a new entry is put in front of the others.                     *)
AddInFront(c, ev) ==
    /\ pollfds_' = <<[fd |-> FdOf[c], events |-> ev]>> \o pollfds_
    /\ index_' = [d \in Channel |-> IF d = c THEN 0
                                    ELSE IF d \in Registered THEN index_[d] + 1
                                    ELSE index_[d]]
    /\ channels_' = [channels_ EXCEPT ![FdOf[c]] = c]

AddPollFd(c, ev) ==
    /\ pollfds_' = Append(pollfds_, [fd |-> FdOf[c], events |-> ev])
    /\ index_' = [index_ EXCEPT ![c] = Len(pollfds_)]
    /\ channels_' = [channels_ EXCEPT ![FdOf[c]] = c]

(* Mutation: the entry of a channel that asks for nothing keeps its fd.     *)
ChangeOnlyEvents(c, ev) ==
    /\ pollfds_' = [pollfds_ EXCEPT ![index_[c] + 1].events = ev]
    /\ UNCHANGED <<index_, channels_>>

(* An entry whose channel asks for nothing gets a negative fd, which ::poll  *)
(* skips; nothing turns it back when the channel asks for events again.     *)
ChangePollFd(c, ev) ==
    /\ pollfds_' = [pollfds_ EXCEPT ![index_[c] + 1] =
            [fd |-> IF ev = kNoneEvent THEN Ignored(FdOf[c]) ELSE @.fd, events |-> ev]]
    /\ UNCHANGED <<index_, channels_>>

updateChannel(c, ev) ==
    /\ UpdateAsserts(c)
    /\ events_' = [events_ EXCEPT ![c] = ev]
    /\ IF index_[c] < 0 THEN AddPollFd(c, ev) ELSE ChangePollFd(c, ev)

-----------------------------------------------------------------------------
(* Channel's operations.  They run on the loop thread, in a handler or in a *)
(* functor.  The first one on every channel of this program is              *)
(* enableReading (timerfd, eventfd, listening socket, connection).          *)

OnLoopThread == phase \in {"handle", "functors"}
InUse(c)     == index_[c] >= 0 /\ c \notin removed

enableReading(c) ==
    /\ OnLoopThread /\ c \notin removed
    /\ updateChannel(c, events_[c] \cup {"IN"})
    /\ UNCHANGED <<activeChannels_, phase, removed>>

enableWriting(c) ==
    /\ OnLoopThread /\ InUse(c)
    /\ updateChannel(c, events_[c] \cup {"OUT"})
    /\ UNCHANGED <<activeChannels_, phase, removed>>

disableWriting(c) ==
    /\ OnLoopThread /\ InUse(c)
    /\ updateChannel(c, events_[c] \ {"OUT"})
    /\ UNCHANGED <<activeChannels_, phase, removed>>

disableAll(c) ==
    /\ OnLoopThread /\ InUse(c)
    /\ updateChannel(c, kNoneEvent)
    /\ UNCHANGED <<activeChannels_, phase, removed>>

-----------------------------------------------------------------------------
(* Poller::removeChannel.                                                   *)

RemoveAsserts(c) ==
    /\ channels_[FdOf[c]] = c
    /\ index_[c] \in 0 .. Cardinality(Mapped) - 1

(* Mutation: the fd is taken from the wrong end of the vector.              *)
FdAtFront ==
    LET fd == pollfds_[1].fd IN IF fd < 0 THEN Ignored(fd) ELSE fd

FdAtEnd ==
    LET fd == pollfds_[Len(pollfds_)].fd IN IF fd < 0 THEN Ignored(fd) ELSE fd

(* Mutation: the channel whose entry was moved keeps its old index.         *)
DropWithoutReindex(c) ==
    LET n == Len(pollfds_)
    IN  /\ pollfds_' = SubSeq([pollfds_ EXCEPT ![index_[c] + 1] = pollfds_[n]], 1, n - 1)
        /\ UNCHANGED index_

DropPollFd(c) ==
    LET i    == index_[c] + 1
        n    == Len(pollfds_)
    IN  IF i = n
        THEN /\ pollfds_' = SubSeq(pollfds_, 1, n - 1)
             /\ UNCHANGED index_
        ELSE /\ pollfds_' = SubSeq([pollfds_ EXCEPT ![i] = pollfds_[n]], 1, n - 1)
             /\ index_' = [index_ EXCEPT ![channels_[FdAtEnd]] = index_[c]]

(* Mutation: a handler removes the channel itself, without queueing.        *)
RemoveAtOnce(c) ==
    /\ OnLoopThread
    /\ InUse(c) /\ isNoneEvent(c)
    /\ RemoveAsserts(c)
    /\ channels_' = [channels_ EXCEPT ![FdOf[c]] = NoChannel]
    /\ DropPollFd(c)
    /\ removed' = removed \cup {c}
    /\ UNCHANGED <<events_, activeChannels_, phase>>

(* The only caller, TcpConnection::connectionDestroyed, is always queued    *)
(* (TcpServer::removeConnectionInLoop), so it never runs while handlers do, *)
(* and it disables the channel first.                                       *)
removeChannel(c) ==
    /\ phase = "functors"
    /\ InUse(c) /\ isNoneEvent(c)
    /\ RemoveAsserts(c)
    /\ channels_' = [channels_ EXCEPT ![FdOf[c]] = NoChannel]
    /\ DropPollFd(c)
    /\ removed' = removed \cup {c}
    /\ UNCHANGED <<events_, activeChannels_, phase>>

-----------------------------------------------------------------------------
(* Poller::poll with fillActiveChannels: the kernel reports some of the     *)
(* entries whose fd is not negative, and the channels are collected in the  *)
(* order of the vector.                                                     *)

FillAsserts(i) ==
    LET fd == pollfds_[i].fd
    IN  fd \in Fd /\ channels_[fd] # NoChannel /\ FdOf[channels_[fd]] = fd

Increasing(pos) == \A i, j \in DOMAIN pos : i < j => pos[i] < pos[j]

poll ==
    /\ phase = "poll"
    /\ \E k \in 0 .. Len(pollfds_) : \E pos \in [1 .. k -> 1 .. Len(pollfds_)] :
          /\ Increasing(pos)
          /\ \A j \in 1 .. k : pollfds_[pos[j]].fd >= 0 /\ FillAsserts(pos[j])
          /\ activeChannels_' = [j \in 1 .. k |-> channels_[pollfds_[pos[j]].fd]]
    /\ phase' = "handle"
    /\ UNCHANGED <<pollfds_, channels_, index_, events_, removed>>

(* The rest of EventLoop::loop: a handler returns, the functors have run.   *)
handlerReturns ==
    /\ phase = "handle" /\ activeChannels_ # <<>>
    /\ activeChannels_' = Tail(activeChannels_)
    /\ UNCHANGED <<pollfds_, channels_, index_, events_, phase, removed>>

doPendingFunctors ==
    /\ phase = "handle" /\ activeChannels_ = <<>>
    /\ phase' = "functors"
    /\ UNCHANGED <<pollfds_, channels_, index_, events_, activeChannels_, removed>>

nextIteration ==
    /\ phase = "functors"
    /\ phase' = "poll"
    /\ UNCHANGED <<pollfds_, channels_, index_, events_, activeChannels_, removed>>

Next ==
    \/ \E c \in Channel : \/ enableReading(c)
                          \/ enableWriting(c)
                          \/ disableWriting(c)
                          \/ disableAll(c)
                          \/ removeChannel(c)
    \/ poll
    \/ handlerReturns
    \/ doPendingFunctors
    \/ nextIteration

Spec == Init /\ [][Next]_vars

-----------------------------------------------------------------------------
(* Properties.                                                              *)

(* index_ of a registered channel leads to its own entry, with the events   *)
(* it asked for, and every entry belongs to a registered channel: an update *)
(* can never reach another connection's entry, whatever was swapped before. *)
(* (Poller::updateChannel, Poller::removeChannel)                           *)
IndexConsistent ==
    /\ \A c \in Registered :
          /\ index_[c] + 1 \in DOMAIN pollfds_
          /\ Entry(c).fd \in {FdOf[c], Ignored(FdOf[c])}
          /\ Entry(c).events = events_[c]
    /\ \A i \in DOMAIN pollfds_ : \E c \in Registered : index_[c] = i - 1

(* No assert of updateChannel, removeChannel or fillActiveChannels can fail *)
(* for a caller that keeps to Channel's protocol.                           *)
AssertsHold ==
    /\ \A c \in Channel \ removed :
          /\ UpdateAsserts(c)
          /\ InUse(c) => RemoveAsserts(c)
    /\ \A i \in DOMAIN pollfds_ : pollfds_[i].fd >= 0 => FillAsserts(i)

(* A channel that asks for nothing is never given to the kernel with its    *)
(* own descriptor, so it cannot be reported. (Poller.cpp:52)                *)
NoneEventIgnored ==
    \A c \in Registered : isNoneEvent(c) => Entry(c).fd = Ignored(FdOf[c])

(* A channel still to be handled in this iteration is registered: no        *)
(* handler earlier in the list can have removed it, so the raw pointers in  *)
(* EventLoop::activeChannels_ stay valid.                                   *)
ActiveRegistered ==
    \A i \in DOMAIN activeChannels_ : activeChannels_[i] \in Registered

(* The entry at the front keeps its place until its own channel is removed, *)
(* so the timerfd, registered first, is handled first in every iteration    *)
(* (TimerQueue::readTimerfd relies on it).                                  *)
ChannelAt(i) == CHOOSE c \in Channel : index_[c] = i - 1 /\ c \in Registered
FrontStays ==
    [][pollfds_ # <<>> /\ ChannelAt(1) \notin removed'
         => pollfds_' # <<>> /\ ChannelAt(1)' = ChannelAt(1)]_vars
=============================================================================
