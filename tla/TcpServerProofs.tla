--------------------------- MODULE TcpServerProofs ---------------------------
(* TcpServer for every number of connections, of descriptors and of digits  *)
(* that fit in a name: what the map owns while the names are whole.         *)
EXTENDS TcpServer, TLAPS, SequenceTheorems

Once(s) == \A i, j \in 1 .. Len(s) : s[i] = s[j] => i = j

(* The clients that may still be accepted have numbers left.                *)
NumbersLeft == nextConnectionId_ + Len(backlog) <= MaxConn + 1

(* A connection is nothing before it has its number.                        *)
NotYet == \A c \in Conn : c >= nextConnectionId_ => life[c] = "none"

(* connectionDestroyed is queued once for a connection.                     *)
DestroyedOnce == Once(pendingFunctors_)

IInv == TypeOK /\ OwnsTheLiving /\ NumbersLeft /\ NotYet /\ DestroyedOnce

-----------------------------------------------------------------------------
(* Sequences without repetition.                                            *)

(* push_back adds one element.                                              *)
LEMMA RangeAppend ==
    ASSUME NEW S, NEW s \in Seq(S), NEW e \in S
    PROVE  Range(Append(s, e)) = Range(s) \cup {e}
  <1>1. /\ Len(s) \in Nat /\ DOMAIN s = 1 .. Len(s)
        /\ DOMAIN Append(s, e) = 1 .. Len(s) + 1
        /\ \A i \in 1 .. Len(s) : Append(s, e)[i] = s[i]
        /\ Append(s, e)[Len(s) + 1] = e
    BY AppendProperties, LenProperties
  <1> QED BY <1>1 DEF Range

(* A new element keeps the queue without repetition.                        *)
LEMMA OnceAppend ==
    ASSUME NEW S, NEW s \in Seq(S), NEW e \in S, Once(s), e \notin Range(s)
    PROVE  Once(Append(s, e))
  <1>1. /\ Len(s) \in Nat /\ DOMAIN s = 1 .. Len(s)
        /\ Len(Append(s, e)) = Len(s) + 1
        /\ \A i \in 1 .. Len(s) : Append(s, e)[i] = s[i]
        /\ Append(s, e)[Len(s) + 1] = e
    BY AppendProperties, LenProperties
  <1>2. \A i \in 1 .. Len(s) : s[i] # e
    BY <1>1 DEF Range
  <1> QED BY <1>1, <1>2 DEF Once

(* pop_front removes the head, and nothing else.                            *)
LEMMA OnceHeadTail ==
    ASSUME NEW S, NEW s \in Seq(S), s # <<>>, Once(s)
    PROVE  /\ Head(s) \in S /\ Tail(s) \in Seq(S)
           /\ Len(Tail(s)) = Len(s) - 1 /\ Len(s) \in Nat \ {0}
           /\ Head(s) \in Range(s)
           /\ Range(Tail(s)) = Range(s) \ {Head(s)}
           /\ Once(Tail(s))
  <1>1. /\ Len(s) \in Nat \ {0} /\ DOMAIN s = 1 .. Len(s)
        /\ Head(s) \in S /\ Tail(s) \in Seq(S) /\ Head(s) = s[1]
        /\ Len(Tail(s)) = Len(s) - 1
        /\ \A i \in 1 .. Len(s) - 1 : Tail(s)[i] = s[i + 1]
    BY HeadTailProperties, LenProperties, EmptySeq
  <1>2. DOMAIN Tail(s) = 1 .. Len(s) - 1
    BY <1>1, LenProperties
  <1>3. Once(Tail(s))
    <2>1. ASSUME NEW i \in 1 .. Len(s) - 1, NEW j \in 1 .. Len(s) - 1,
                 Tail(s)[i] = Tail(s)[j]
          PROVE  i = j
      <3>1. s[i + 1] = s[j + 1] /\ i + 1 \in 1 .. Len(s) /\ j + 1 \in 1 .. Len(s)
        BY <1>1, <2>1
      <3>2. i + 1 = j + 1
        BY <3>1 DEF Once
      <3> QED BY <1>1, <3>2
    <2> QED BY <1>1, <2>1 DEF Once
  <1>4. ASSUME NEW e PROVE e \in Range(Tail(s)) <=> e \in Range(s) \ {Head(s)}
    <2>1. ASSUME e \in Range(Tail(s)) PROVE e \in Range(s) \ {Head(s)}
      <3>1. PICK i \in 1 .. Len(s) - 1 : e = Tail(s)[i]
        BY <1>2, <2>1 DEF Range
      <3>2. e = s[i + 1] /\ i + 1 \in 1 .. Len(s) /\ i + 1 # 1 /\ 1 \in 1 .. Len(s)
        BY <1>1, <3>1
      <3>3. s[i + 1] # s[1]
        BY <3>2 DEF Once
      <3> QED BY <1>1, <3>2, <3>3 DEF Range
    <2>2. ASSUME e \in Range(s) \ {Head(s)} PROVE e \in Range(Tail(s))
      <3>1. PICK i \in 1 .. Len(s) : e = s[i]
        BY <1>1, <2>2 DEF Range
      <3>2. i # 1
        BY <1>1, <2>2, <3>1
      <3>3. i - 1 \in 1 .. Len(s) - 1 /\ i = (i - 1) + 1
        BY <1>1, <3>1, <3>2
      <3>4. e = Tail(s)[i - 1]
        BY <1>1, <3>1, <3>3
      <3> QED BY <1>2, <3>3, <3>4 DEF Range
    <2> QED BY <2>1, <2>2
  <1>5. Head(s) \in Range(s)
    BY <1>1 DEF Range
  <1> QED BY <1>1, <1>3, <1>4, <1>5

-----------------------------------------------------------------------------
(* Names.                                                                   *)

(* getConnectionName leaves a number that fits as it is.                    *)
LEMMA WholeName ==
    ASSUME NEW id, Whole(id)
    PROVE  Name(id) = id
  BY DEF Name

(* While every number is whole, the map takes each connection to itself:    *)
(* what is up was found under its own name, and nothing else is there.      *)
LEMMA MapIsIdentity ==
    ASSUME TypeOK, OwnsTheLiving, NotYet, process = "runs", NamesWhole
    PROVE  /\ DOMAIN connections_ = {c \in Conn : life[c] = "up"}
           /\ \A n \in DOMAIN connections_ : connections_[n] = n
           /\ \A c \in Conn : life[c] = "up" => Name(c) = c
  <1>1. Range(connections_) = {c \in Conn : life[c] = "up"}
    BY DEF OwnsTheLiving
  <1>2. ASSUME NEW c \in Conn, life[c] = "up" PROVE Name(c) = c
    <2>1. nextConnectionId_ \in Nat /\ c \in Nat /\ c >= 1
      BY ServerAssumption DEF TypeOK, Conn
    <2>2. c \in 1 .. nextConnectionId_ - 1
      BY <1>2, <2>1 DEF NotYet
    <2> QED BY <2>2, WholeName DEF NamesWhole
  <1>3. ASSUME NEW n \in DOMAIN connections_
        PROVE  connections_[n] = n /\ n \in Conn /\ life[n] = "up"
    <2>1. connections_[n] \in Conn /\ Name(connections_[n]) = n
      BY DEF TypeOK
    <2>2. connections_[n] \in Range(connections_)
      BY DEF Range
    <2> QED BY <1>1, <1>2, <2>1, <2>2
  <1>4. ASSUME NEW c \in Conn, life[c] = "up" PROVE c \in DOMAIN connections_
    <2>1. PICK n \in DOMAIN connections_ : connections_[n] = c
      BY <1>1, <1>4 DEF Range
    <2> QED BY <1>3, <2>1
  <1> QED BY <1>2, <1>3, <1>4

(* A reference that the map or the queue has not given up keeps what the    *)
(* Poller knows from dangling.                                              *)
LEMMA NothingDangles ==
    ASSUME TypeOK, Range(connections_) = {c \in Conn : life[c] = "up"}
    PROVE  Dangling = {}
  BY DEF TypeOK, Dangling, Owned

-----------------------------------------------------------------------------
(* The invariant.                                                           *)

LEMMA InitInv == Init => IInv
  <1> SUFFICES ASSUME Init PROVE IInv
    OBVIOUS
  <1>1. /\ <<>> \in Seq({"waiting", "reset"}) /\ <<>> \in Seq(Conn)
        /\ Len(<<>>) = 0 /\ DOMAIN <<>> = {} /\ Range(<<>>) = {}
    BY DEF Range
  <1>2. TypeOK
    <2>1. /\ life \in [Conn -> {"none", "up", "closing", "destroyed"}]
          /\ \A c \in Conn : life[c] = "none"
      BY DEF Init
    <2>2. opened \in 1 .. MaxFds /\ nextConnectionId_ \in 1 .. MaxConn + 1
      BY ServerAssumption DEF Init, AcceptorInit
    <2> QED BY <1>1, <2>1, <2>2 DEF Init, AcceptorInit, TypeOK
  <1>3. Range(connections_) = {c \in Conn : life[c] = "up"}
    BY <1>1 DEF Init
  <1>4. OwnsTheLiving
    BY <1>2, <1>3, NothingDangles DEF OwnsTheLiving
  <1>5. NumbersLeft /\ NotYet /\ DestroyedOnce
    BY <1>1, ServerAssumption DEF Init, AcceptorInit, NumbersLeft, NotYet, DestroyedOnce, Once, Conn
  <1> QED BY <1>2, <1>4, <1>5 DEF IInv

(* The clients, start, userReleases: nothing the map is about changes.      *)
LEMMA AsideInv ==
    ASSUME IInv,
           UNCHANGED <<nextConnectionId_, connections_, life, pendingFunctors_>>,
           process' \in {process, "aborted"}, listennning_' \in BOOLEAN,
           backlog' \in Seq({"waiting", "reset"}), opened' = opened,
           Len(backlog') + nextConnectionId_ <= MaxConn + 1,
           gone' \in SUBSET Conn, held' \in SUBSET Conn
    PROVE  IInv'
  <1>1. TypeOK'
    BY DEF IInv, TypeOK
  <1>2. OwnsTheLiving'
    <2>1. process' = "runs" /\ NamesWhole'
             => Range(connections_)' = {c \in Conn : life[c] = "up"}'
      BY DEF IInv, OwnsTheLiving, NamesWhole
    <2>2. process' = "runs" /\ NamesWhole' => Dangling' = {}
      BY <1>1, <2>1 DEF TypeOK, Dangling, Owned
    <2> QED BY <2>1, <2>2 DEF OwnsTheLiving
  <1>3. NumbersLeft' /\ NotYet' /\ DestroyedOnce'
    <2>1. nextConnectionId_ \in Nat /\ Len(backlog') \in Nat /\ MaxConn \in Nat
      BY ServerAssumption, LenProperties DEF IInv, TypeOK
    <2> QED BY <2>1 DEF IInv, NumbersLeft, NotYet, DestroyedOnce
  <1> QED BY <1>1, <1>2, <1>3 DEF IInv

(* A new connection has a number of its own, and while numbers are whole a  *)
(* name of its own: it takes nobody's place in the map.                     *)
LEMMA HandleReadInv ==
    ASSUME IInv, handleRead
    PROVE  IInv'
  <1> DEFINE c == nextConnectionId_
             m == [n \in DOMAIN connections_ \cup {Name(c)} |->
                     IF n = Name(c) THEN c ELSE connections_[n]]
  <1>1. /\ process = "runs" /\ backlog # <<>> /\ opened < MaxFds
        /\ backlog' = Tail(backlog) /\ opened' = opened + 1
        /\ connections_' = m /\ nextConnectionId_' = c + 1
        /\ life' = [life EXCEPT ![c] = "up"]
        /\ held' \in {held, held \cup {c}}
        /\ gone' \in {gone, gone \cup {c}}
        /\ UNCHANGED <<process, listennning_, pendingFunctors_>>
    BY DEF handleRead, accept, createNewConneciton
  <1>2. /\ backlog \in Seq({"waiting", "reset"}) /\ MaxConn \in Nat
        /\ c \in 1 .. MaxConn + 1 /\ c + Len(backlog) <= MaxConn + 1
        /\ life \in [Conn -> {"none", "up", "closing", "destroyed"}]
    BY ServerAssumption DEF IInv, TypeOK, NumbersLeft
  <1>3. /\ Len(backlog) \in Nat \ {0} /\ backlog' \in Seq({"waiting", "reset"})
        /\ Len(backlog') = Len(backlog) - 1
    BY <1>1, <1>2, HeadTailProperties, LenProperties, EmptySeq
  <1>4. c \in Conn /\ life[c] = "none"
    BY <1>2, <1>3 DEF Conn, IInv, NotYet
  <1>5. /\ DOMAIN m = {Name(c)} \cup DOMAIN connections_
        /\ m[Name(c)] = c
        /\ \A n \in DOMAIN connections_ \ {Name(c)} : m[n] = connections_[n]
    OBVIOUS
  <1> HIDE DEF m
  <1>6. /\ life' \in [Conn -> {"none", "up", "closing", "destroyed"}]
        /\ life'[c] = "up" /\ \A d \in Conn \ {c} : life'[d] = life[d]
    BY <1>1, <1>2, <1>4
  <1>7. TypeOK'
    <2>1. \A n \in DOMAIN m : m[n] \in Conn /\ Name(m[n]) = n
      BY <1>4, <1>5 DEF IInv, TypeOK
    <2>2. opened' \in 1 .. MaxFds
      BY <1>1, ServerAssumption DEF IInv, TypeOK
    <2>3. \A d \in Conn : life'[d] = "closing" <=> d \in Range(pendingFunctors_)
      BY <1>4, <1>6 DEF IInv, TypeOK
    <2>4. nextConnectionId_' \in 1 .. MaxConn + 1
      BY <1>1, <1>2, <1>3
    <2>5. gone' \in SUBSET Conn /\ held' \in SUBSET Conn
      BY <1>1, <1>4 DEF IInv, TypeOK
    <2> QED BY <1>1, <1>3, <1>6, <2>1, <2>2, <2>3, <2>4, <2>5 DEF IInv, TypeOK
  <1>8. OwnsTheLiving'
    <2> SUFFICES ASSUME process' = "runs", NamesWhole'
                 PROVE  Range(connections_)' = {d \in Conn : life[d] = "up"}'
      BY <1>7 DEF OwnsTheLiving, TypeOK, Dangling, Owned
    <2>1. NamesWhole /\ Whole(c)
      BY <1>1, <1>2 DEF NamesWhole
    <2>2. /\ DOMAIN connections_ = {d \in Conn : life[d] = "up"}
          /\ \A n \in DOMAIN connections_ : connections_[n] = n
      BY <1>1, <2>1, MapIsIdentity DEF IInv
    <2>3. Name(c) = c
      BY <2>1, WholeName
    <2>4. DOMAIN m = DOMAIN connections_ \cup {c} /\ \A n \in DOMAIN m : m[n] = n
      BY <1>5, <2>2, <2>3
    <2>5. Range(m) = DOMAIN connections_ \cup {c}
      BY <2>4 DEF Range
    <2> QED BY <1>1, <1>4, <1>6, <2>2, <2>5 DEF Range
  <1>9. NumbersLeft' /\ NotYet' /\ DestroyedOnce'
    <2>1. NumbersLeft'
      BY <1>1, <1>2, <1>3 DEF NumbersLeft
    <2>2. NotYet'
      BY <1>1, <1>2, <1>6 DEF NotYet, IInv, Conn
    <2> QED BY <1>1, <2>1, <2>2 DEF DestroyedOnce, IInv
  <1> QED BY <1>7, <1>8, <1>9 DEF IInv

(* erase by name removes this connection, and the functor keeps it.         *)
LEMMA HandleCloseInv ==
    ASSUME IInv, NEW c \in Conn, handleClose(c)
    PROVE  IInv'
  <1> DEFINE m == [n \in DOMAIN connections_ \ {Name(c)} |-> connections_[n]]
  <1>1. /\ process = "runs" /\ life[c] = "up"
        /\ life' = [life EXCEPT ![c] = "closing"]
        /\ connections_' = m
        /\ pendingFunctors_' = Append(pendingFunctors_, c)
        /\ UNCHANGED <<process, listennning_, backlog, opened, gone, held,
                       nextConnectionId_>>
    BY DEF handleClose, removeConnection
  <1>2. /\ life \in [Conn -> {"none", "up", "closing", "destroyed"}]
        /\ pendingFunctors_ \in Seq(Conn) /\ c \notin Range(pendingFunctors_)
    BY <1>1 DEF IInv, TypeOK
  <1>3. /\ life' \in [Conn -> {"none", "up", "closing", "destroyed"}]
        /\ life'[c] = "closing" /\ \A d \in Conn \ {c} : life'[d] = life[d]
    BY <1>1, <1>2
  <1>4. /\ pendingFunctors_' \in Seq(Conn)
        /\ Range(pendingFunctors_') = Range(pendingFunctors_) \cup {c}
        /\ Once(pendingFunctors_')
    BY <1>1, <1>2, AppendProperties, RangeAppend, OnceAppend DEF IInv, DestroyedOnce
  <1>5. /\ DOMAIN m = DOMAIN connections_ \ {Name(c)}
        /\ \A n \in DOMAIN m : m[n] = connections_[n]
    OBVIOUS
  <1> HIDE DEF m
  <1>6. TypeOK'
    <2>1. \A n \in DOMAIN m : m[n] \in Conn /\ Name(m[n]) = n
      BY <1>5 DEF IInv, TypeOK
    <2>2. \A d \in Conn : life'[d] = "closing" <=> d \in Range(pendingFunctors_')
      BY <1>3, <1>4 DEF IInv, TypeOK
    <2> QED BY <1>1, <1>3, <1>4, <2>1, <2>2 DEF IInv, TypeOK
  <1>7. OwnsTheLiving'
    <2> SUFFICES ASSUME process' = "runs", NamesWhole'
                 PROVE  Range(connections_)' = {d \in Conn : life[d] = "up"}'
      BY <1>6 DEF OwnsTheLiving, TypeOK, Dangling, Owned
    <2>1. NamesWhole
      BY <1>1 DEF NamesWhole
    <2>2. /\ DOMAIN connections_ = {d \in Conn : life[d] = "up"}
          /\ \A n \in DOMAIN connections_ : connections_[n] = n
          /\ Name(c) = c
      BY <1>1, <2>1, MapIsIdentity DEF IInv
    <2>3. DOMAIN m = DOMAIN connections_ \ {c} /\ \A n \in DOMAIN m : m[n] = n
      BY <1>5, <2>2
    <2>4. Range(m) = DOMAIN connections_ \ {c}
      BY <2>3 DEF Range
    <2> QED BY <1>1, <1>3, <2>2, <2>4 DEF Range
  <1>8. NumbersLeft' /\ NotYet' /\ DestroyedOnce'
    BY <1>1, <1>3, <1>4 DEF IInv, NumbersLeft, NotYet, DestroyedOnce
  <1> QED BY <1>6, <1>7, <1>8 DEF IInv

(* The functor was the only one of its connection, which the map has let    *)
(* go of.                                                                   *)
LEMMA DestroyedInv ==
    ASSUME IInv, connectionDestroyed
    PROVE  IInv'
  <1> DEFINE c == Head(pendingFunctors_)
  <1>1. /\ process = "runs" /\ pendingFunctors_ # <<>>
        /\ pendingFunctors_' = Tail(pendingFunctors_)
        /\ life' = [life EXCEPT ![c] = "destroyed"]
        /\ UNCHANGED <<process, listennning_, backlog, opened, gone, held,
                       nextConnectionId_, connections_>>
    BY DEF connectionDestroyed
  <1>2. /\ c \in Conn /\ pendingFunctors_' \in Seq(Conn)
        /\ c \in Range(pendingFunctors_)
        /\ Range(pendingFunctors_') = Range(pendingFunctors_) \ {c}
        /\ Once(pendingFunctors_')
    BY <1>1, OnceHeadTail DEF IInv, TypeOK, DestroyedOnce
  <1> HIDE DEF c
  <1>3. /\ life \in [Conn -> {"none", "up", "closing", "destroyed"}]
        /\ life[c] = "closing"
    BY <1>2 DEF IInv, TypeOK
  <1>4. /\ life' \in [Conn -> {"none", "up", "closing", "destroyed"}]
        /\ life'[c] = "destroyed" /\ \A d \in Conn \ {c} : life'[d] = life[d]
    BY <1>1, <1>2, <1>3
  <1>5. TypeOK'
    <2>1. \A d \in Conn : life'[d] = "closing" <=> d \in Range(pendingFunctors_')
      BY <1>2, <1>4 DEF IInv, TypeOK
    <2> QED BY <1>1, <1>2, <1>4, <2>1 DEF IInv, TypeOK
  <1>6. OwnsTheLiving'
    <2> SUFFICES ASSUME process' = "runs", NamesWhole'
                 PROVE  Range(connections_)' = {d \in Conn : life[d] = "up"}'
      BY <1>5 DEF OwnsTheLiving, TypeOK, Dangling, Owned
    <2>1. Range(connections_) = {d \in Conn : life[d] = "up"}
      BY <1>1 DEF IInv, OwnsTheLiving, NamesWhole
    <2>2. Range(connections_)' = Range(connections_)
      BY <1>1
    <2> QED BY <1>3, <1>4, <2>1, <2>2
  <1>7. NumbersLeft' /\ NotYet' /\ DestroyedOnce'
    <2>1. NotYet'
      BY <1>1, <1>3, <1>4 DEF IInv, NotYet
    <2> QED BY <1>1, <1>2, <2>1 DEF IInv, NumbersLeft, DestroyedOnce
  <1> QED BY <1>5, <1>6, <1>7 DEF IInv

LEMMA StepInv ==
    ASSUME IInv, [Next]_vars
    PROVE  IInv'
  <1> USE DEF connVars
  <1>1. /\ backlog \in Seq({"waiting", "reset"}) /\ Len(backlog) \in Nat
        /\ nextConnectionId_ + Len(backlog) <= MaxConn + 1
        /\ nextConnectionId_ \in Nat /\ MaxConn \in Nat
        /\ process \in {process, "aborted"} /\ listennning_ \in BOOLEAN
        /\ gone \in SUBSET Conn /\ held \in SUBSET Conn
    BY ServerAssumption, LenProperties DEF IInv, TypeOK, NumbersLeft
  <1>2. CASE start
    BY <1>1, <1>2, AsideInv DEF start, listen
  <1>3. CASE destructor
    <2>1. TypeOK'
      BY <1>3 DEF destructor, IInv, TypeOK
    <2>2. process' = "ended"
      BY <1>3 DEF destructor
    <2> QED BY <1>3, <2>1, <2>2 DEF destructor, IInv, OwnsTheLiving, NumbersLeft, NotYet, DestroyedOnce
  <1>4. CASE acceptFails
    BY <1>1, <1>4, AsideInv DEF acceptFails
  <1>5. CASE handleRead
    BY <1>5, HandleReadInv
  <1>6. CASE connectionDestroyed
    BY <1>6, DestroyedInv
  <1>7. ASSUME NEW c \in Conn, handleClose(c) PROVE IInv'
    BY <1>7, HandleCloseInv
  <1>8. CASE clientConnects
    <2>1. /\ backlog' \in Seq({"waiting", "reset"})
          /\ Len(backlog') = Len(backlog) + 1
      BY <1>1, <1>8, AppendProperties DEF clientConnects
    <2>2. Len(backlog') + nextConnectionId_ <= MaxConn + 1
      BY <1>1, <1>8, <2>1 DEF clientConnects
    <2> QED BY <1>1, <1>8, <2>1, <2>2, AsideInv DEF clientConnects
  <1>9. CASE clientResets
    <2>1. PICK i \in DOMAIN backlog : backlog' = [backlog EXCEPT ![i] = "reset"]
      BY <1>9 DEF clientResets
    <2>2. backlog' \in Seq({"waiting", "reset"}) /\ Len(backlog') = Len(backlog)
      BY <1>1, <2>1
    <2> QED BY <1>1, <1>9, <2>2, AsideInv DEF clientResets
  <1>10. ASSUME NEW c \in Conn, peerGoes(c) PROVE IInv'
    BY <1>1, <1>10, AsideInv DEF peerGoes
  <1>11. ASSUME NEW c \in Conn, userReleases(c) PROVE IInv'
    BY <1>1, <1>11, AsideInv DEF userReleases
  <1>12. CASE UNCHANGED vars
    BY <1>1, <1>12, AsideInv DEF vars, IInv, TypeOK
  <1> QED BY <1>2, <1>3, <1>4, <1>5, <1>6, <1>7, <1>8, <1>9, <1>10, <1>11, <1>12
          DEF Next, LoopStep

-----------------------------------------------------------------------------
(* The theorems.                                                            *)

(* The invariant holds through accepting, closing, destroying and aborting. *)
THEOREM Invariance == Spec => []IInv
  <1>1. Init => IInv
    BY InitInv
  <1>2. IInv /\ [Next]_vars => IInv'
    BY StepInv
  <1> QED BY <1>1, <1>2, PTL DEF Spec

(* Every entry of connections_ is under the name of its connection, and     *)
(* exactly the closing connections wait for their connectionDestroyed.      *)
THEOREM TypeCorrect == Spec => []TypeOK
  <1>1. IInv => TypeOK
    BY DEF IInv
  <1> QED BY <1>1, Invariance, PTL

(* However many connections come and go, connections_ holds the ones that   *)
(* are up and none is deleted with its Channel in the Poller, as long as    *)
(* getConnectionName has cut no number.                                     *)
THEOREM MapOwnsTheLiving == Spec => []OwnsTheLiving
  <1>1. IInv => OwnsTheLiving
    BY DEF IInv
  <1> QED BY <1>1, Invariance, PTL
=============================================================================
