------------------------------ MODULE TcpServer ------------------------------
(***************************************************************************)
(* RN::TcpServer with its Acceptor: a listening socket whose handler makes *)
(* connections, the map that owns them by name, and their removal when a   *)
(* peer has gone.  Users keep references of their own.                     *)
(*                                                                         *)
(* setNumOfThreads is not passed on to the EventLoopThreadPool, which is   *)
(* built with none: getNextLoop returns the base loop, every connection    *)
(* lives on the server's thread, and each handler and functor is one step  *)
(* of that thread, the calls through runInLoop included.                   *)
(*                                                                         *)
(* A connection is known by the value nextConnectionId_ had when it was    *)
(* made.  What one connection does in between is TcpConnection's.          *)
(***************************************************************************)
EXTENDS Naturals, Sequences, Functions, FiniteSetsExt

CONSTANTS MaxConn,  \* bound: clients that ever connect
          MaxFds,   \* descriptors there are for the sockets of the server
          Radix,    \* of the printed number, 10 in the code
          Room      \* digits that fit behind name_ and '#' in the 31
                    \* characters of getConnectionName

ASSUME ServerAssumption ==
    /\ MaxConn \in Nat /\ MaxFds \in Nat \ {0}
    /\ Radix \in Nat \ {0, 1} /\ Room \in Nat

Conn == 1 .. MaxConn

VARIABLES
    process,          \* runs, aborted (LOG_SYSFATAL) or ended (~TcpServer)
    listennning_,     \* the acceptor listens and its channel is polled
    backlog,          \* clients the kernel has for accept
    opened,           \* descriptors in use; Socket never closes one
    nextConnectionId_,
    connections_,     \* name -> connection
    life,             \* of each connection and its Channel
    gone,             \* connections whose peer has finished or reset
    held,             \* connections a user keeps a TcpConnectionPtr to
    pendingFunctors_  \* connectionDestroyed, for these connections

connVars == <<nextConnectionId_, connections_, life, held, pendingFunctors_>>
vars == <<process, listennning_, backlog, opened, gone, connVars>>

(* The number behind '#', of which snprintf keeps the leading digits.       *)
Whole(id) == id < Radix ^ Room

Name(id) ==
    LET cut == Min({k \in 1 .. id : Whole(id \div Radix ^ k)})
    IN  IF Whole(id) THEN id ELSE id \div Radix ^ cut

TypeOK ==
    /\ process \in {"runs", "aborted", "ended"}
    /\ listennning_ \in BOOLEAN
    /\ backlog \in Seq({"waiting", "reset"})
    /\ opened \in 1 .. MaxFds
    /\ nextConnectionId_ \in 1 .. MaxConn + 1
    /\ \A n \in DOMAIN connections_ :
          connections_[n] \in Conn /\ Name(connections_[n]) = n
    /\ life \in [Conn -> {"none", "up", "closing", "destroyed"}]
    /\ gone \in SUBSET Conn /\ held \in SUBSET Conn
    /\ pendingFunctors_ \in Seq(Conn)
    /\ \A c \in Conn : life[c] = "closing" <=> c \in Range(pendingFunctors_)

(* The acceptor's own socket is the first descriptor.                       *)
AcceptorInit == listennning_ = FALSE /\ backlog = <<>> /\ opened = 1

Init ==
    /\ process = "runs"
    /\ AcceptorInit
    /\ nextConnectionId_ = 1
    /\ connections_ = <<>>
    /\ life = [c \in Conn |-> "none"]
    /\ gone = {} /\ held = {}
    /\ pendingFunctors_ = <<>>

(* Somebody has a reference: the map, a functor, a user.                    *)
Owned(c) == c \in Range(connections_) \cup Range(pendingFunctors_) \cup held

(* The Channel is still in the Poller and its connection has been deleted.  *)
Dangling == {c \in Conn : life[c] \in {"up", "closing"} /\ ~Owned(c)}

-----------------------------------------------------------------------------
(* The clients.                                                             *)

clientConnects ==
    /\ process = "runs" /\ listennning_
    /\ nextConnectionId_ + Len(backlog) <= MaxConn
    /\ backlog' = Append(backlog, "waiting")
    /\ UNCHANGED <<process, listennning_, opened, gone, connVars>>

clientResets ==
    /\ process = "runs"
    /\ \E i \in DOMAIN backlog :
          /\ backlog[i] = "waiting"
          /\ backlog' = [backlog EXCEPT ![i] = "reset"]
    /\ UNCHANGED <<process, listennning_, opened, gone, connVars>>

peerGoes(c) ==
    /\ process = "runs" /\ life[c] = "up" /\ c \notin gone
    /\ gone' = gone \cup {c}
    /\ UNCHANGED <<process, listennning_, backlog, opened, connVars>>

-----------------------------------------------------------------------------
(* The server.                                                              *)

(* Acceptor::listen                                                         *)
listen == listennning_' = TRUE

(* Called again it does nothing.                                            *)
start ==
    /\ process = "runs" /\ ~listennning_
    /\ listen
    /\ UNCHANGED <<process, backlog, opened, gone, connVars>>

(* A client that has reset may still be accepted, or not (ECONNABORTED).    *)
acceptMayFail ==
    /\ process = "runs" /\ backlog # <<>>
    /\ opened = MaxFds \/ Head(backlog) = "reset"

(* sockets::accept logs any error with LOG_SYSFATAL, which aborts, before   *)
(* the switch that lists EMFILE and ECONNABORTED as expected.               *)
acceptFails ==
    /\ acceptMayFail
    /\ process' = "aborted"
    /\ UNCHANGED <<listennning_, backlog, opened, gone, connVars>>

(* The connection is established at once; a callback may keep a reference.  *)
createNewConneciton ==
    LET c == nextConnectionId_
    IN  /\ connections_' = [n \in DOMAIN connections_ \cup {Name(c)} |->
                               IF n = Name(c) THEN c ELSE connections_[n]]
        /\ nextConnectionId_' = c + 1
        /\ life' = [life EXCEPT ![c] = "up"]
        /\ held' \in {held, held \cup {c}}
        /\ UNCHANGED pendingFunctors_

(* Socket::accept                                                           *)
accept ==
    /\ backlog # <<>> /\ opened < MaxFds
    /\ backlog' = Tail(backlog)
    /\ opened' = opened + 1

(* The acceptor's handler takes one client per poll.                        *)
handleRead ==
    /\ process = "runs"
    /\ accept
    /\ createNewConneciton
    /\ gone' = IF Head(backlog) = "reset" THEN gone \cup {nextConnectionId_} ELSE gone
    /\ UNCHANGED <<process, listennning_>>

(* Mutation: nothing queues connectionDestroyed.                            *)
RemoveAlone(c) ==
    /\ connections_' = [n \in DOMAIN connections_ \ {Name(c)} |-> connections_[n]]
    /\ UNCHANGED <<pendingFunctors_, nextConnectionId_>>

(* Mutation: the connection stays in the map until it has been destroyed.   *)
RemoveLater(c) ==
    /\ pendingFunctors_' = Append(pendingFunctors_, c)
    /\ UNCHANGED <<connections_, nextConnectionId_>>

(* removeConnection and removeConnectionInLoop; erase goes by name.         *)
removeConnection(c) ==
    /\ connections_' = [n \in DOMAIN connections_ \ {Name(c)} |-> connections_[n]]
    /\ pendingFunctors_' = Append(pendingFunctors_, c)
    /\ UNCHANGED nextConnectionId_

(* handleClose of a connection whose peer has gone.                         *)
handleClose(c) ==
    /\ process = "runs"
    /\ life[c] = "up" /\ c \in gone /\ Owned(c)
    /\ life' = [life EXCEPT ![c] = "closing"]
    /\ removeConnection(c)
    /\ UNCHANGED <<process, listennning_, backlog, opened, gone, held>>

(* Mutation: a batch of functors is cleared after its first.                *)
DestroyFirstOnly ==
    /\ process = "runs" /\ pendingFunctors_ # <<>>
    /\ pendingFunctors_' = <<>>
    /\ life' = [life EXCEPT ![Head(pendingFunctors_)] = "destroyed"]
    /\ UNCHANGED <<process, listennning_, backlog, opened, gone, held,
                   nextConnectionId_, connections_>>

connectionDestroyed ==
    /\ process = "runs" /\ pendingFunctors_ # <<>>
    /\ pendingFunctors_' = Tail(pendingFunctors_)
    /\ life' = [life EXCEPT ![Head(pendingFunctors_)] = "destroyed"]
    /\ UNCHANGED <<process, listennning_, backlog, opened, gone, held,
                   nextConnectionId_, connections_>>

userReleases(c) ==
    /\ c \in held
    /\ held' = held \ {c}
    /\ UNCHANGED <<process, listennning_, backlog, opened, gone,
                   nextConnectionId_, connections_, life, pendingFunctors_>>

(* ~TcpServer quits the loop and the map lets go of everything.  In the     *)
(* programs of the repository it runs after loop() has returned.            *)
destructor ==
    /\ process = "runs"
    /\ process' = "ended"
    /\ connections_' = <<>>
    /\ UNCHANGED <<listennning_, backlog, opened, gone, nextConnectionId_,
                   life, held, pendingFunctors_>>

LoopStep ==
    \/ acceptFails \/ handleRead \/ connectionDestroyed
    \/ \E c \in Conn : handleClose(c)

Next ==
    \/ start \/ destructor \/ LoopStep
    \/ clientConnects \/ clientResets
    \/ \E c \in Conn : peerGoes(c) \/ userReleases(c)

(* poll reports every channel that is ready and the loop handles each: the  *)
(* acceptor and each connection have their turn.                            *)
Spec == /\ Init /\ [][Next]_vars
        /\ WF_vars(acceptFails \/ handleRead)
        /\ WF_vars(connectionDestroyed)
        /\ \A c \in Conn : WF_vars(handleClose(c))

-----------------------------------------------------------------------------
(* Properties.                                                              *)

NamesWhole == \A id \in 1 .. nextConnectionId_ - 1 : Whole(id)

(* Until getConnectionName has had to cut a number, the map owns exactly    *)
(* the connections that are up, and no Channel in the Poller belongs to a   *)
(* connection that has been deleted: removal by name has never met another  *)
(* connection, and no reference was the last one too early.                 *)
OwnsTheLiving ==
    process = "runs" /\ NamesWhole
        => /\ Range(connections_) = {c \in Conn : life[c] = "up"}
           /\ Dangling = {}

(* A connection whose peer has gone is destroyed and nobody but a user      *)
(* keeps it, unless a namesake has taken its place in the map.              *)
GoneIsRemoved ==
    \A c \in Conn :
        c \in gone ~> \/ life[c] = "destroyed" /\ c \notin Range(connections_)
                      \/ process # "runs" \/ ~NamesWhole
=============================================================================
