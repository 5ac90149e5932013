---------------------------- MODULE TcpConnection ---------------------------
(***************************************************************************)
(* RN::TcpConnection from its establishment to its destruction: its state, *)
(* its Channel's events, its output buffer and the kernel's side of the    *)
(* socket.  Everything but the tests of state_ in send and shutdown runs   *)
(* on the loop thread; those tests run on the caller's, and what they have *)
(* decided arrives later as a functor, in the order of queueInLoop         *)
(* (EventLoop).                                                            *)
(*                                                                         *)
(* User code runs on the loop thread in the connection's callbacks, in     *)
(* other channels' handlers and in other functors, and on other threads.   *)
(* A message is sent once; it is made of numbered cells.  Input is only    *)
(* there or not.                                                           *)
(***************************************************************************)
EXTENDS BufferView

CONSTANTS Thread,        \* threads other than the loop's that use the connection
          Message,       \* what users send
          Size,          \* Message -> cells
          highWaterMark_,
          SndBuf         \* cells the kernel takes before the peer reads

ASSUME TcpAssumption ==
    /\ Size \in [Message -> Nat \ {0}]
    /\ Stale \notin Message \X Nat
    /\ highWaterMark_ \in Nat \ {0}
    /\ SndBuf \in Nat \ {0}

VARIABLES
    state_,
    events_,          \* the Channel's events
    entry,            \* the Channel in the Poller
    outputBuffer_,    \* its readable cells
    closed,           \* handleClose has run: the server has let go
    alive,            \* the object exists
    crash,            \* what has ended the program, if anything
    pc,               \* the loop thread in EventLoop::loop
    revents,          \* reported for this channel and not yet handled
    pendingFunctors_, \* the functors of this connection, in order
    functors,         \* those being run
    tpc,              \* threads inside send or shutdown
    tmsg,             \* the message of a thread inside send
    inflight,         \* cells in the kernel's send buffer
    wrShut,           \* SHUT_WR was done
    data,             \* there is input to read
    peer,             \* the peer's end of the connection
    sent,             \* history: messages passed to send
    given,            \* history: cells passed to sendInLoop
    wire,             \* history: cells the kernel took
    overwritten,      \* history: places in given that Buffer::append spoilt
    raced             \* history: a user's shutdown or send from another thread
                      \* took effect after handleClose

connVars   == <<state_, events_, entry, outputBuffer_, closed, alive, crash>>
loopVars   == <<pc, revents, pendingFunctors_, functors>>
threadVars == <<tpc, tmsg>>
kernelVars == <<inflight, wrShut, data, peer>>
history    == <<sent, given, wire, overwritten, raced>>
vars == <<connVars, loopVars, threadVars, kernelVars, history>>

Cell == (Message \X Nat) \cup {Stale}
Op   == {"sendInLoop", "shutdonwInLoop", "connectionDestroyed", "highWaterMark"}
None == "none"
FunctorOf(op, m) == [op |-> op, msg |-> m]

Types ==
    /\ state_ \in {"kConnecitng", "kConnected", "kDisconnecting", "kDisconnected"}
    /\ events_ \in SUBSET {"IN", "OUT"}
    /\ entry \in {"none", "polled", "ignored", "removed"}
    /\ outputBuffer_ \in Seq(Cell)
    /\ closed \in BOOLEAN
    /\ alive \in BOOLEAN
    /\ crash \in {"no", "connectionDestroyed", "updateChannel", "destructed"}
    /\ pc \in {"poll", "handle", "complete", "run"}
    /\ revents \in SUBSET {"IN", "OUT"}
    /\ pendingFunctors_ \in Seq([op : Op, msg : Message \cup {None}])
    /\ functors \in Seq([op : Op, msg : Message \cup {None}])
    /\ tpc \in [Thread -> {"idle", "send", "set", "shutdown"}]
    /\ tmsg \in [Thread -> Message \cup {None}]
    /\ inflight \in 0 .. SndBuf
    /\ wrShut \in BOOLEAN /\ data \in BOOLEAN
    /\ peer \in {"open", "finished", "reset", "resetRead"}
    /\ sent \in SUBSET Message
    /\ given \in Seq(Message \X Nat) /\ wire \in Seq(Cell)
    /\ overwritten \in SUBSET Nat
    /\ raced \in BOOLEAN

(* The Channel is reported until handleClose has disabled it, and is in the *)
(* Poller until connectionDestroyed has removed it.                         *)
PhaseConsistent ==
    /\ entry = "none" <=> state_ = "kConnecitng"
    /\ entry = "ignored" => closed
    /\ closed => entry \in {"ignored", "removed"}
    /\ ~alive => entry = "removed"

TypeOK == Types /\ PhaseConsistent

(* createNewConneciton has made the connection, in the acceptor's handler.  *)
Init ==
    /\ state_ = "kConnecitng"
    /\ events_ = {} /\ entry = "none"
    /\ outputBuffer_ = <<>>
    /\ closed = FALSE /\ alive = TRUE /\ crash = "no"
    /\ pc = "handle" /\ revents = {}
    /\ pendingFunctors_ = <<>> /\ functors = <<>>
    /\ tpc = [t \in Thread |-> "idle"] /\ tmsg = [t \in Thread |-> None]
    /\ inflight = 0 /\ wrShut = FALSE /\ data = FALSE /\ peer = "open"
    /\ sent = {} /\ given = <<>> /\ wire = <<>> /\ overwritten = {} /\ raced = FALSE

-----------------------------------------------------------------------------
(* The kernel's side of the socket.                                         *)

IsReset == peer \in {"reset", "resetRead"}

Ready == (IF data \/ peer # "open" THEN {"IN"} ELSE {})
         \cup (IF inflight < SndBuf \/ wrShut \/ IsReset THEN {"OUT"} ELSE {})

(* How many of n cells ::write takes; an error takes none.                  *)
Taken(n) ==
    IF wrShut \/ IsReset THEN 0
    ELSE IF n < SndBuf - inflight THEN n ELSE SndBuf - inflight

write(cells) ==
    LET n == Taken(Len(cells))
    IN  /\ inflight' = inflight + n
        /\ wire' = wire \o SubSeq(cells, 1, n)

-----------------------------------------------------------------------------
(* sendInLoop and shutdonwInLoop.                                           *)

isWriting == "OUT" \in events_
Cells(m)  == [i \in 1 .. Size[m] |-> <<m, i>>]

(* Channel::enableWriting: the Poller asserts that it knows the channel,    *)
(* and an entry once ignored stays ignored (Poller).                        *)
enableWriting ==
    /\ events_' = events_ \cup {"OUT"}
    /\ crash' = IF ~isWriting /\ entry = "removed" THEN "updateChannel" ELSE crash

CrossesHighWaterMark(remaining) ==
    /\ Len(outputBuffer_) < highWaterMark_
    /\ Len(outputBuffer_) + remaining >= highWaterMark_

(* An append of n cells to some that wait spoils the first of those, over   *)
(* which it copies, and its own place behind them (Buffer!ContentRight).    *)
Spoilt(n) ==
    LET waiting == Len(outputBuffer_)
    IN  {Len(wire) + i : i \in {j \in 1 .. waiting + n :
                                   waiting > 0 /\ ~(n < j /\ j <= waiting)}}

(* Mutation: what was not written at once is appended from its beginning.   *)
WholeMessage(m, nwrote) == IF nwrote = Size[m] THEN <<>> ELSE Cells(m)

Remaining(m, nwrote) == SubSeq(Cells(m), nwrote + 1, Size[m])

sendInLoop(m) ==
    LET direct    == ~isWriting /\ outputBuffer_ = <<>>
        nwrote    == IF direct THEN Taken(Size[m]) ELSE 0
        remaining == Remaining(m, nwrote)
    IN  /\ IF direct THEN write(Cells(m)) ELSE UNCHANGED <<inflight, wire>>
        /\ given' = given \o Cells(m)
        /\ IF remaining = <<>>
           THEN UNCHANGED <<outputBuffer_, events_, crash, pendingFunctors_, overwritten>>
           ELSE /\ outputBuffer_' = Appended(outputBuffer_, remaining)
                /\ overwritten' = overwritten \cup Spoilt(Len(remaining))
                /\ pendingFunctors_' = IF CrossesHighWaterMark(Len(remaining))
                                       THEN Append(pendingFunctors_,
                                                   FunctorOf("highWaterMark", None))
                                       ELSE pendingFunctors_
                /\ enableWriting
        /\ UNCHANGED <<state_, entry, closed, alive, wrShut, data, peer>>

(* Mutation: the stream is ended whatever waits in the buffer.              *)
EndStreamNow == wrShut' = TRUE

endStream == wrShut' = (wrShut \/ ~isWriting)

shutdonwInLoop ==
    /\ endStream
    /\ UNCHANGED <<connVars, inflight, data, peer, given, wire, overwritten>>

-----------------------------------------------------------------------------
(* send and shutdown on the loop thread.                                    *)

InUserCode == alive /\ pc \in {"handle", "complete", "run"}

loopSend(m) ==
    /\ InUserCode /\ state_ = "kConnected" /\ m \notin sent
    /\ sent' = sent \cup {m}
    /\ sendInLoop(m)
    /\ UNCHANGED <<pc, revents, functors, threadVars, raced>>

loopShutdown ==
    /\ InUserCode /\ state_ = "kConnected"
    /\ state_' = "kDisconnecting"
    /\ endStream
    /\ raced' = (raced \/ closed)
    /\ UNCHANGED <<events_, entry, outputBuffer_, closed, alive, crash, loopVars, threadVars,
                   inflight, data, peer, sent, given, wire, overwritten>>

-----------------------------------------------------------------------------
(* send and shutdown on another thread: the test, for shutdown the setting, *)
(* and the queueing.                                                        *)

threadSends(t, m) ==
    /\ alive /\ tpc[t] = "idle" /\ m \notin sent
    /\ state_ = "kConnected"
    /\ sent' = sent \cup {m}
    /\ tpc' = [tpc EXCEPT ![t] = "send"]
    /\ tmsg' = [tmsg EXCEPT ![t] = m]
    /\ UNCHANGED <<connVars, loopVars, kernelVars, given, wire, overwritten, raced>>

threadQueuesSend(t) ==
    /\ tpc[t] = "send"
    /\ pendingFunctors_' = Append(pendingFunctors_, FunctorOf("sendInLoop", tmsg[t]))
    /\ raced' = (raced \/ closed)
    /\ tpc' = [tpc EXCEPT ![t] = "idle"]
    /\ tmsg' = [tmsg EXCEPT ![t] = None]
    /\ UNCHANGED <<connVars, pc, revents, functors, kernelVars, sent, given, wire, overwritten>>

threadShutsDown(t) ==
    /\ alive /\ tpc[t] = "idle"
    /\ state_ = "kConnected"
    /\ tpc' = [tpc EXCEPT ![t] = "set"]
    /\ UNCHANGED <<connVars, loopVars, tmsg, kernelVars, history>>

threadSetsState(t) ==
    /\ tpc[t] = "set"
    /\ state_' = "kDisconnecting"
    /\ raced' = (raced \/ closed)
    /\ tpc' = [tpc EXCEPT ![t] = "shutdown"]
    /\ UNCHANGED <<events_, entry, outputBuffer_, closed, alive, crash, loopVars, tmsg,
                   kernelVars, sent, given, wire, overwritten>>

threadQueuesShutdown(t) ==
    /\ tpc[t] = "shutdown"
    /\ pendingFunctors_' = Append(pendingFunctors_, FunctorOf("shutdonwInLoop", None))
    /\ tpc' = [tpc EXCEPT ![t] = "idle"]
    /\ UNCHANGED <<connVars, pc, revents, functors, tmsg, kernelVars, history>>

-----------------------------------------------------------------------------
(* The handlers, on the loop thread.                                        *)

(* Mutation: state_ is not set.                                             *)
EstablishedSilently ==
    /\ pc = "handle" /\ state_ = "kConnecitng" /\ entry = "none"
    /\ events_' = {"IN"}
    /\ entry' = "polled"
    /\ UNCHANGED <<state_, outputBuffer_, closed, alive, crash, loopVars, threadVars,
                   kernelVars, history>>

connectionEstablished ==
    /\ pc = "handle" /\ state_ = "kConnecitng"
    /\ state_' = "kConnected"
    /\ events_' = {"IN"}
    /\ entry' = "polled"
    /\ UNCHANGED <<outputBuffer_, closed, alive, crash, loopVars, threadVars, kernelVars, history>>

(* Mutation: the assert compares instead of assigning.                      *)
CloseKeepsState ==
    /\ events_' = {}
    /\ entry' = "ignored"
    /\ closed' = TRUE
    /\ pendingFunctors_' = Append(pendingFunctors_, FunctorOf("connectionDestroyed", None))
    /\ UNCHANGED state_

(* Mutation: the close callback is not called.                              *)
CloseUntold ==
    /\ state_' = "kConnected"
    /\ events_' = {}
    /\ entry' = "ignored"
    /\ closed' = TRUE
    /\ UNCHANGED pendingFunctors_

(* handleClose's assert assigns.  The close callback is TcpServer's         *)
(* removeConnection, on this thread: it takes the connection out of the map *)
(* and queues its destruction.                                              *)
handleClose ==
    /\ state_' = "kConnected"
    /\ events_' = {}
    /\ entry' = "ignored"
    /\ closed' = TRUE
    /\ pendingFunctors_' = Append(pendingFunctors_, FunctorOf("connectionDestroyed", None))

(* Input, the end of it, or the error of a reset connection, once.          *)
handleRead ==
    /\ pc = "handle" /\ "IN" \in revents
    /\ revents' = revents \ {"IN"}
    /\ \/ /\ data
          /\ data' = FALSE
          /\ UNCHANGED <<state_, events_, entry, closed, pendingFunctors_, peer>>
       \/ /\ ~data /\ peer = "reset"
          /\ peer' = "resetRead"
          /\ UNCHANGED <<state_, events_, entry, closed, pendingFunctors_, data>>
       \/ /\ ~data /\ peer \in {"finished", "resetRead"}
          /\ handleClose
          /\ UNCHANGED <<data, peer>>
    /\ UNCHANGED <<outputBuffer_, alive, crash, pc, functors, threadVars, inflight, wrShut,
                   history>>

(* Mutation: writing stays enabled when the buffer is empty.                *)
WriteKeepsWriting ==
    LET n == Taken(Len(outputBuffer_))
        rest == SubSeq(outputBuffer_, n + 1, Len(outputBuffer_))
    IN  /\ pc = "handle" /\ revents = {"OUT"}
        /\ revents' = {}
        /\ IF isWriting /\ n > 0
           THEN /\ write(outputBuffer_)
                /\ outputBuffer_' = rest
                /\ pc' = IF rest = <<>> THEN "complete" ELSE pc
           ELSE UNCHANGED <<inflight, wire, outputBuffer_, pc>>
        /\ UNCHANGED <<state_, events_, entry, closed, alive, crash, pendingFunctors_, functors,
                       threadVars, wrShut, data, peer, sent, given, overwritten, raced>>

(* When the buffer has been written, the write-complete callback runs       *)
(* before state_ is looked at.                                              *)
handleWrite ==
    LET n == Taken(Len(outputBuffer_))
        rest == SubSeq(outputBuffer_, n + 1, Len(outputBuffer_))
    IN  /\ pc = "handle" /\ revents = {"OUT"}
        /\ revents' = {}
        /\ IF isWriting /\ n > 0
           THEN /\ write(outputBuffer_)
                /\ outputBuffer_' = rest
                /\ events_' = IF rest = <<>> THEN events_ \ {"OUT"} ELSE events_
                /\ pc' = IF rest = <<>> THEN "complete" ELSE pc
           ELSE UNCHANGED <<inflight, wire, outputBuffer_, events_, pc>>
        /\ UNCHANGED <<state_, entry, closed, alive, crash, pendingFunctors_, functors,
                       threadVars, wrShut, data, peer, sent, given, overwritten, raced>>

(* Mutation: a shutdown that found output waiting is not taken up again.    *)
WriteForgetsShutdown ==
    /\ pc = "complete"
    /\ pc' = "handle"
    /\ UNCHANGED <<connVars, revents, pendingFunctors_, functors, threadVars, kernelVars, history>>

handleWriteReturns ==
    /\ pc = "complete"
    /\ pc' = "handle"
    /\ IF state_ = "kDisconnecting"
       THEN shutdonwInLoop
       ELSE UNCHANGED <<connVars, kernelVars, given, wire, overwritten>>
    /\ UNCHANGED <<revents, pendingFunctors_, functors, threadVars, sent, raced>>

(* connectionDestroyed's assert; disableAll, the callback, removeChannle.   *)
connectionDestroyed ==
    /\ IF state_ = "kConnected"
       THEN /\ state_' = "kDisconnected"
            /\ events_' = {}
            /\ entry' = "removed"
            /\ UNCHANGED crash
       ELSE /\ crash' = "connectionDestroyed"
            /\ UNCHANGED <<state_, events_, entry>>
    /\ UNCHANGED <<outputBuffer_, closed, alive, pendingFunctors_, kernelVars,
                   given, wire, overwritten>>

-----------------------------------------------------------------------------
(* The loop.                                                                *)

poll ==
    /\ pc = "poll"
    /\ pc' = "handle"
    /\ revents' = IF entry = "polled" THEN Ready \cap events_ ELSE {}
    /\ UNCHANGED <<connVars, pendingFunctors_, functors, threadVars, kernelVars, history>>

swapFunctors ==
    /\ pc = "handle" /\ revents = {} /\ state_ # "kConnecitng"
    /\ pc' = "run"
    /\ functors' = pendingFunctors_
    /\ pendingFunctors_' = <<>>
    /\ UNCHANGED <<connVars, revents, threadVars, kernelVars, history>>

(* sendInLoop is bound to the bare pointer: nothing keeps the object.       *)
runFunctor ==
    /\ pc = "run" /\ functors # <<>>
    /\ functors' = Tail(functors)
    /\ LET f == Head(functors)
       IN  \/ /\ f.op = "sendInLoop" /\ alive
              /\ sendInLoop(f.msg)
           \/ /\ f.op = "sendInLoop" /\ ~alive
              /\ crash' = "destructed"
              /\ UNCHANGED <<state_, events_, entry, outputBuffer_, closed, alive,
                             pendingFunctors_, kernelVars, given, wire, overwritten>>
           \/ /\ f.op = "shutdonwInLoop"
              /\ shutdonwInLoop
              /\ UNCHANGED pendingFunctors_
           \/ /\ f.op = "connectionDestroyed"
              /\ connectionDestroyed
           \/ /\ f.op = "highWaterMark"
              /\ UNCHANGED <<connVars, pendingFunctors_, kernelVars, given, wire, overwritten>>
    /\ UNCHANGED <<pc, revents, threadVars, sent, raced>>

functorsDone ==
    /\ pc = "run" /\ functors = <<>>
    /\ pc' = "poll"
    /\ UNCHANGED <<connVars, revents, pendingFunctors_, functors, threadVars, kernelVars, history>>

-----------------------------------------------------------------------------
(* Its users let go of a connection that is down, and the last reference    *)
(* goes; a functor other than sendInLoop holds one until its batch is done. *)
destructs ==
    /\ alive /\ entry = "removed" /\ pc # "run"
    /\ \A i \in DOMAIN pendingFunctors_ : pendingFunctors_[i].op = "sendInLoop"
    /\ \A t \in Thread : tpc[t] = "idle"
    /\ alive' = FALSE
    /\ UNCHANGED <<state_, events_, entry, outputBuffer_, closed, crash, loopVars, threadVars,
                   kernelVars, history>>

(* The peer: it reads, sends, ends its stream, or resets the connection.    *)
peerReads ==
    /\ inflight > 0
    /\ inflight' = inflight - 1
    /\ UNCHANGED <<connVars, loopVars, threadVars, wrShut, data, peer, history>>

peerSends ==
    /\ peer = "open" /\ ~data
    /\ data' = TRUE
    /\ UNCHANGED <<connVars, loopVars, threadVars, inflight, wrShut, peer, history>>

peerFinishes ==
    /\ peer = "open"
    /\ peer' = "finished"
    /\ UNCHANGED <<connVars, loopVars, threadVars, inflight, wrShut, data, history>>

peerResets ==
    /\ peer \in {"open", "finished"}
    /\ peer' = "reset"
    /\ UNCHANGED <<connVars, loopVars, threadVars, inflight, wrShut, data, history>>

LoopStep ==
    \/ connectionEstablished \/ handleRead \/ handleWrite \/ handleWriteReturns
    \/ poll \/ swapFunctors \/ runFunctor \/ functorsDone

ThreadStep(t) == threadQueuesSend(t) \/ threadSetsState(t) \/ threadQueuesShutdown(t)

PeerStep == peerReads \/ peerSends \/ peerFinishes \/ peerResets

(* A failed assert ends the program.                                        *)
Next ==
    /\ crash = "no"
    /\ \/ LoopStep
       \/ \E m \in Message : loopSend(m)
       \/ loopShutdown
       \/ \E t \in Thread : \/ \E m \in Message : threadSends(t, m)
                            \/ threadShutsDown(t)
                            \/ ThreadStep(t)
       \/ destructs
       \/ PeerStep

Spec == Init /\ [][Next]_vars

(* The loop thread and threads inside a call go on (EventLoop shows that    *)
(* what they queue is run), and a peer reads what it has been sent.         *)
FairSpec == /\ Spec
            /\ WF_vars(crash = "no" /\ LoopStep)
            /\ \A t \in Thread : WF_vars(crash = "no" /\ ThreadStep(t))
            /\ WF_vars(crash = "no" /\ peerReads)

-----------------------------------------------------------------------------
(* Properties.                                                              *)

(* While the connection is up, the poller watches for room to write exactly *)
(* while there is something to write: neither a busy loop nor output that   *)
(* waits for ever. (sendInLoop, handleWrite)                                *)
WritesWhilePending ==
    crash = "no" /\ entry = "polled" => (isWriting <=> outputBuffer_ # <<>>)

(* Between direct writes, partial writes, failed writes and the buffer      *)
(* every cell keeps its place: what the kernel took, and behind it what     *)
(* waits, are the cells given to sendInLoop, in their order and none twice, *)
(* but for the places an append to waiting cells has spoilt.                *)
(* (sendInLoop, handleWrite)                                                *)
Accounted ==
    /\ Len(wire) + Len(outputBuffer_) = Len(given)
    /\ \A i \in DOMAIN wire : i \in overwritten \/ wire[i] = given[i]
    /\ \A i \in DOMAIN outputBuffer_ :
          LET place == Len(wire) + i
          IN  place \in overwritten \/ outputBuffer_[i] = given[place]

(* Messages sent by other threads that sendInLoop has not been given yet.   *)
Carried(s) == {s[i].msg : i \in {j \in DOMAIN s : s[j].op = "sendInLoop"}}

Underway ==
    Carried(functors) \cup Carried(pendingFunctors_)
        \cup {tmsg[t] : t \in {u \in Thread : tpc[u] = "send"}}

Given == {given[i][1] : i \in DOMAIN given}

(* The stream of an open connection is ended only with nothing waiting in   *)
(* the output buffer, and of what has been sent by then it can cut off only *)
(* a send of another thread that is still underway to sendInLoop: that one  *)
(* is not waited for, even if its thread sent it before it called shutdown, *)
(* as a handleWrite that sees kDisconnecting may come first.                *)
(* (send, shutdonwInLoop, handleWrite)                                      *)
EndsAfterOutput ==
    [][wrShut' /\ ~wrShut /\ ~closed =>
          outputBuffer_ = <<>> /\ sent \subseteq Given \cup Underway]_vars

(* The asserts of connectionDestroyed and Poller::updateChannel, and the    *)
(* bare pointer in sendInLoop's functor, are safe unless a user acts on the *)
(* connection between its handleClose and its destruction: no order of      *)
(* calls before handleClose can do harm, shutdown during output included.   *)
SafeUnlessRaced == crash # "no" => raced

(* A connection whose peer has gone is destroyed. (handleRead, handleClose, *)
(* TcpServer::removeConnection)                                             *)
GoneIsDestroyed == peer # "open" ~> entry = "removed" \/ crash # "no"

(* shutdown ends the stream once the output is written, provided that the   *)
(* peer reads, unless the peer ends the connection. (handleWrite, shutdown) *)
ShutdownEnds == state_ = "kDisconnecting" ~> wrShut \/ entry = "removed" \/ crash # "no"

(* connectionDestroyed's assert. (TcpConnection.cpp:14)                     *)
DestroyAssert == crash # "connectionDestroyed"
=============================================================================
