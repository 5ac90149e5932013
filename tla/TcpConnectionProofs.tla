------------------------- MODULE TcpConnectionProofs -------------------------
(* TcpConnection for every set of threads and messages, every size of a     *)
(* message, of the kernel's buffer and every high-water mark: the output    *)
(* is accounted for, and only a race with handleClose can end the program.  *)
EXTENDS TcpConnection, TLAPS, SequenceTheorems

F == [op : Op, msg : Message \cup {None}]

Has(s, op) == \E i \in 1 .. Len(s) : s[i].op = op

(* A functor that sends has a message.                                      *)
Named(s) == \A i \in 1 .. Len(s) : s[i].op = "sendInLoop" => s[i].msg \in Message

(* After connectionDestroyed there is no second one, and a send only if a   *)
(* thread was late.                                                         *)
Ordered(s, late) ==
    \A i, j \in 1 .. Len(s) :
       i < j /\ s[i].op = "connectionDestroyed"
          => /\ s[j].op # "connectionDestroyed"
             /\ s[j].op = "sendInLoop" => late

(* The same over the batch that runs and what waits behind it.              *)
InOrder(batch, waiting, channel, late) ==
    /\ Named(batch) /\ Named(waiting)
    /\ Ordered(batch, late) /\ Ordered(waiting, late)
    /\ Has(batch, "connectionDestroyed")
          => /\ ~Has(waiting, "connectionDestroyed")
             /\ Has(waiting, "sendInLoop") => late
    /\ Has(batch, "connectionDestroyed") \/ Has(waiting, "connectionDestroyed")
          => channel = "ignored"
    /\ channel = "removed" /\ (Has(batch, "sendInLoop") \/ Has(waiting, "sendInLoop"))
          => late

QueueOrder == InOrder(functors, pendingFunctors_, entry, raced)

(* What the loop and the threads know of the connection.                    *)
LoopPhase ==
    /\ pc # "run" => functors = <<>>
    /\ pc # "handle" => revents = {}
    /\ "IN" \in revents => entry = "polled"
    /\ state_ = "kConnecitng" =>
          /\ pc = "handle" /\ revents = {} /\ outputBuffer_ = <<>>
          /\ \A t \in Thread : tpc[t] = "idle"
    /\ \A t \in Thread : tpc[t] = "send" => tmsg[t] \in Message

(* handleClose and connectionDestroyed, and what can still change state_.   *)
ClosePhase ==
    /\ entry = "ignored" /\ ~raced => state_ = "kConnected"
    /\ entry = "removed" => closed /\ state_ \in {"kDisconnecting", "kDisconnected"}

IInv == /\ TypeOK
        /\ WritesWhilePending /\ Accounted /\ SafeUnlessRaced
        /\ QueueOrder /\ LoopPhase /\ ClosePhase

-----------------------------------------------------------------------------
(* Queues of functors.                                                      *)

(* queueInLoop appends.                                                     *)
LEMMA HasAppend ==
    ASSUME NEW s \in Seq(F), NEW f \in F
    PROVE  /\ Append(s, f) \in Seq(F)
           /\ \A op : Has(Append(s, f), op) <=> Has(s, op) \/ f.op = op
           /\ Named(s) /\ (f.op = "sendInLoop" => f.msg \in Message) => Named(Append(s, f))
  <1>1. /\ Len(s) \in Nat /\ Len(Append(s, f)) = Len(s) + 1
        /\ \A i \in 1 .. Len(s) : Append(s, f)[i] = s[i]
        /\ Append(s, f)[Len(s) + 1] = f /\ Append(s, f) \in Seq(F)
    BY AppendProperties, LenProperties
  <1> DEFINE t == Append(s, f)
  <1> HIDE DEF t
  <1>2. \A op : Has(t, op) <=> Has(s, op) \/ f.op = op
    BY <1>1 DEF Has, t
  <1>3. Named(s) /\ (f.op = "sendInLoop" => f.msg \in Message) => Named(t)
    BY <1>1 DEF Named, t
  <1> QED BY <1>1, <1>2, <1>3 DEF t

LEMMA OrderedAppend ==
    ASSUME NEW s \in Seq(F), NEW f \in F, NEW late, Ordered(s, late),
           Has(s, "connectionDestroyed")
              => f.op # "connectionDestroyed" /\ (f.op = "sendInLoop" => late)
    PROVE  Ordered(Append(s, f), late)
  <1>1. /\ Len(s) \in Nat /\ Len(Append(s, f)) = Len(s) + 1
        /\ \A i \in 1 .. Len(s) : Append(s, f)[i] = s[i]
        /\ Append(s, f)[Len(s) + 1] = f
    BY AppendProperties, LenProperties
  <1> QED BY <1>1 DEF Ordered, Has

(* The batch is run from its front.                                         *)
LEMMA HasTail ==
    ASSUME NEW s \in Seq(F), s # <<>>, NEW late, Ordered(s, late), Named(s)
    PROVE  /\ Head(s) \in F /\ Tail(s) \in Seq(F)
           /\ \A op : Has(s, op) <=> Has(Tail(s), op) \/ Head(s).op = op
           /\ Named(Tail(s)) /\ Ordered(Tail(s), late)
           /\ Head(s).op = "sendInLoop" => Head(s).msg \in Message
           /\ Head(s).op = "connectionDestroyed"
                 => /\ ~Has(Tail(s), "connectionDestroyed")
                    /\ Has(Tail(s), "sendInLoop") => late
  <1>1. /\ Len(s) \in Nat \ {0} /\ Head(s) \in F /\ Tail(s) \in Seq(F)
        /\ Head(s) = s[1] /\ Len(Tail(s)) = Len(s) - 1
        /\ \A i \in 1 .. Len(s) - 1 : Tail(s)[i] = s[i + 1]
    BY HeadTailProperties, LenProperties, EmptySeq
  <1> DEFINE h == Head(s)
             t == Tail(s)
  <1> HIDE DEF h, t
  <1>2. /\ h = s[1] /\ Len(t) = Len(s) - 1
        /\ \A i \in 1 .. Len(s) - 1 : t[i] = s[i + 1] /\ i + 1 \in 1 .. Len(s) /\ 1 < i + 1
        /\ \A i \in 1 .. Len(s) : i # 1 => i - 1 \in 1 .. Len(s) - 1 /\ s[i] = t[i - 1]
        /\ 1 \in 1 .. Len(s)
    <2>1. /\ Len(s) \in Nat \ {0} /\ h = s[1] /\ Len(t) = Len(s) - 1
          /\ \A i \in 1 .. Len(s) - 1 : t[i] = s[i + 1]
      BY <1>1 DEF h, t
    <2>2. ASSUME NEW i \in 1 .. Len(s), i # 1
          PROVE  i - 1 \in 1 .. Len(s) - 1 /\ s[i] = t[i - 1]
      <3>1. i - 1 \in 1 .. Len(s) - 1 /\ (i - 1) + 1 = i
        BY <2>1, <2>2
      <3> QED BY <2>1, <3>1
    <2> QED BY <2>1, <2>2
  <1>3. \A op : Has(s, op) <=> Has(t, op) \/ h.op = op
    <2>1. ASSUME NEW op, Has(s, op) PROVE Has(t, op) \/ h.op = op
      <3>1. PICK i \in 1 .. Len(s) : s[i].op = op
        BY <2>1 DEF Has
      <3> QED BY <1>2, <3>1 DEF Has
    <2>2. ASSUME NEW op, Has(t, op) PROVE Has(s, op)
      BY <1>2, <2>2 DEF Has
    <2>3. ASSUME NEW op, h.op = op PROVE Has(s, op)
      BY <1>2, <2>3 DEF Has
    <2> QED BY <2>1, <2>2, <2>3
  <1>4. Named(t) /\ (h.op = "sendInLoop" => h.msg \in Message)
    BY <1>2 DEF Named
  <1>5. Ordered(t, late)
    <2>1. ASSUME NEW i \in 1 .. Len(t), NEW j \in 1 .. Len(t), i < j,
                 t[i].op = "connectionDestroyed"
          PROVE  /\ t[j].op # "connectionDestroyed"
                 /\ t[j].op = "sendInLoop" => late
      <3>1. /\ t[i] = s[i + 1] /\ t[j] = s[j + 1] /\ i + 1 < j + 1
            /\ i + 1 \in 1 .. Len(s) /\ j + 1 \in 1 .. Len(s)
        BY <1>1, <1>2, <2>1
      <3> QED BY <2>1, <3>1 DEF Ordered
    <2> QED BY <2>1 DEF Ordered
  <1>6. h.op = "connectionDestroyed"
           => ~Has(t, "connectionDestroyed") /\ (Has(t, "sendInLoop") => late)
    BY <1>2 DEF Ordered, Has
  <1> QED BY <1>1, <1>3, <1>4, <1>5, <1>6 DEF h, t

(* Time passes: who was late stays late.                                    *)
LEMMA InOrderLater ==
    ASSUME NEW b, NEW w, NEW e, NEW r, NEW q, InOrder(b, w, e, r), r => q
    PROVE  InOrder(b, w, e, q)
  BY DEF InOrder, Ordered

LEMMA InOrderPush ==
    ASSUME NEW b \in Seq(F), NEW w \in Seq(F), NEW e, NEW d, NEW r, NEW f \in F,
           InOrder(b, w, e, r),
           f.op = "sendInLoop"
              => f.msg \in Message /\ (e \in {"ignored", "removed"} => r),
           f.op = "connectionDestroyed" => e = "polled" /\ d = "ignored",
           f.op # "connectionDestroyed" => d = e
    PROVE  InOrder(b, Append(w, f), d, r)
  <1>1. /\ \A op : Has(Append(w, f), op) <=> Has(w, op) \/ f.op = op
        /\ Named(Append(w, f))
    BY HasAppend DEF InOrder
  <1>2. Ordered(Append(w, f), r)
    BY OrderedAppend DEF InOrder
  <1> DEFINE v == Append(w, f)
  <1> HIDE DEF v
  <1>3. InOrder(b, v, d, r)
    BY <1>1, <1>2 DEF InOrder, v
  <1> QED BY <1>3 DEF v

LEMMA InOrderPop ==
    ASSUME NEW b \in Seq(F), NEW w \in Seq(F), NEW e, NEW r,
           InOrder(b, w, e, r), b # <<>>
    PROVE  /\ Head(b) \in F /\ Tail(b) \in Seq(F)
           /\ InOrder(Tail(b), w, e, r)
           /\ Head(b).op = "sendInLoop"
                 => Head(b).msg \in Message /\ (e = "removed" => r)
           /\ Head(b).op = "connectionDestroyed"
                 => e = "ignored" /\ InOrder(Tail(b), w, "removed", r)
  <1>1. /\ Head(b) \in F /\ Tail(b) \in Seq(F)
        /\ \A op : Has(b, op) <=> Has(Tail(b), op) \/ Head(b).op = op
        /\ Named(Tail(b)) /\ Ordered(Tail(b), r)
        /\ Head(b).op = "sendInLoop" => Head(b).msg \in Message
        /\ Head(b).op = "connectionDestroyed"
              => /\ ~Has(Tail(b), "connectionDestroyed")
                 /\ Has(Tail(b), "sendInLoop") => r
    BY HasTail DEF InOrder
  <1> QED BY <1>1 DEF InOrder

-----------------------------------------------------------------------------
(* The output.                                                              *)

(* ::write takes no more than it is given, nor than there is room for.      *)
LEMMA TakenBounds ==
    ASSUME Types, NEW n \in Nat
    PROVE  Taken(n) \in 0 .. n /\ inflight + Taken(n) \in 0 .. SndBuf
  BY TcpAssumption DEF Types, Taken

LEMMA WriteEffect ==
    ASSUME Types, NEW cells \in Seq(Cell), write(cells)
    PROVE  /\ inflight' \in 0 .. SndBuf /\ wire' \in Seq(Cell)
           /\ Taken(Len(cells)) \in 0 .. Len(cells)
           /\ wire' = wire \o SubSeq(cells, 1, Taken(Len(cells)))
  <1> DEFINE n == Taken(Len(cells))
             piece == SubSeq(cells, 1, n)
  <1>1. Len(cells) \in Nat /\ wire \in Seq(Cell)
    BY LenProperties DEF Types
  <1>2. n \in 0 .. Len(cells) /\ inflight + n \in 0 .. SndBuf
    BY <1>1, TakenBounds
  <1>3. inflight' = inflight + n /\ wire' = wire \o piece
    BY DEF write
  <1> HIDE DEF n
  <1>4. piece \in Seq(Cell)
    <2>1. \A i \in 1 .. n : i \in 1 .. Len(cells)
      BY <1>1, <1>2
    <2> QED BY <1>1, <1>2, <2>1, SubSeqProperties
  <1>5. wire' \in Seq(Cell)
    <2> HIDE DEF piece
    <2> QED BY <1>1, <1>3, <1>4, ConcatProperties
  <1> QED BY <1>2, <1>3, <1>5 DEF n

(* The rest of what was not taken.                                          *)
LEMMA RestOf ==
    ASSUME NEW s \in Seq(Cell), NEW n \in 0 .. Len(s)
    PROVE  /\ SubSeq(s, n + 1, Len(s)) \in Seq(Cell)
           /\ Len(SubSeq(s, n + 1, Len(s))) = Len(s) - n
           /\ SubSeq(s, n + 1, Len(s)) = <<>> <=> Len(s) = n
           /\ \A i \in 1 .. Len(s) - n : SubSeq(s, n + 1, Len(s))[i] = s[n + i]
  <1> DEFINE r == SubSeq(s, n + 1, Len(s))
  <1>1. Len(s) \in Nat /\ n \in Nat
    BY LenProperties
  <1>2. /\ r \in Seq(Cell) /\ Len(r) = Len(s) - n
        /\ \A i \in 1 .. Len(s) - n : r[i] = s[n + i]
    <2>1. \A i \in n + 1 .. Len(s) : i \in 1 .. Len(s)
      BY <1>1
    <2>2. /\ r \in Seq(Cell) /\ Len(r) = IF n + 1 <= Len(s) THEN Len(s) - (n + 1) + 1 ELSE 0
          /\ \A i \in 1 .. Len(s) - (n + 1) + 1 : r[i] = s[(n + 1) + i - 1]
      BY <1>1, <2>1, SubSeqProperties
    <2> HIDE DEF r
    <2>3. Len(s) - (n + 1) + 1 = Len(s) - n
      BY <1>1
    <2>4. ASSUME NEW i \in 1 .. Len(s) - n PROVE r[i] = s[n + i]
      <3>1. (n + 1) + i - 1 = n + i
        BY <1>1
      <3> QED BY <2>2, <2>3, <3>1
    <2> QED BY <1>1, <2>2, <2>4
  <1> HIDE DEF r
  <1>3. r = <<>> <=> Len(s) = n
    BY <1>1, <1>2, EmptySeq
  <1> QED BY <1>2, <1>3 DEF r

(* Buffer::append grows the readable bytes by what it appends, which it     *)
(* puts over the first of them.                                             *)
LEMMA AppendedCells ==
    ASSUME NEW s \in Seq(Cell), NEW t \in Seq(Cell)
    PROVE  /\ Appended(s, t) \in Seq(Cell) /\ Len(Appended(s, t)) = Len(s) + Len(t)
           /\ \A i \in 1 .. Len(t) : Appended(s, t)[i] = t[i]
           /\ \A i \in 1 .. Len(s) : i > Len(t) => Appended(s, t)[i] = s[i]
  <1>1. /\ Len(s) \in Nat /\ Len(t) \in Nat
        /\ \A i \in 1 .. Len(s) : s[i] \in Cell
        /\ \A i \in 1 .. Len(t) : t[i] \in Cell
    BY LenProperties, ElementOfSeq
  <1> DEFINE n == Len(s) + Len(t)
             a == [i \in 1 .. n |->
                     CASE i <= Len(t) -> t[i]
                       [] i > Len(t) /\ i <= Len(s) -> s[i]
                       [] OTHER -> Stale]
  <1>2. n \in Nat /\ Stale \in Cell
    BY <1>1 DEF Cell
  <1>3. \A i \in 1 .. n : a[i] \in Cell
    <2>1. ASSUME NEW i \in 1 .. n PROVE a[i] \in Cell
      <3>1. CASE i <= Len(t)
        BY <1>1, <1>2, <3>1
      <3>2. CASE i > Len(t) /\ i <= Len(s)
        BY <1>1, <1>2, <3>2
      <3>3. CASE i > Len(t) /\ i > Len(s)
        BY <1>1, <1>2, <3>3
      <3> QED BY <1>1, <1>2, <3>1, <3>2, <3>3
    <2> QED BY <2>1
  <1>4. a = [i \in 1 .. n |-> a[i]]
    OBVIOUS
  <1>5. Appended(s, t) = a
    BY DEF Appended
  <1>6. ASSUME NEW i \in 1 .. Len(t) PROVE a[i] = t[i]
    <2>1. i \in 1 .. n /\ i <= Len(t)
      BY <1>1
    <2> QED BY <2>1
  <1>7. ASSUME NEW i \in 1 .. Len(s), i > Len(t) PROVE a[i] = s[i]
    <2>1. i \in 1 .. n /\ i <= Len(s) /\ ~(i <= Len(t))
      BY <1>1, <1>7
    <2> QED BY <1>7, <2>1
  <1> HIDE DEF a, n
  <1>8. a \in [1 .. n -> Cell]
    BY <1>3, <1>4
  <1>9. a \in Seq(Cell) /\ Len(a) = n
    BY <1>2, <1>8
  <1> QED BY <1>5, <1>6, <1>7, <1>9 DEF n

(* What a concatenation has where.                                          *)
LEMMA ConcatAt ==
    ASSUME NEW S, NEW s \in Seq(S), NEW t \in Seq(S)
    PROVE  /\ s \o t \in Seq(S) /\ Len(s \o t) = Len(s) + Len(t)
           /\ \A i \in 1 .. Len(s) : (s \o t)[i] = s[i]
           /\ \A i \in 1 .. Len(t) : (s \o t)[Len(s) + i] = t[i]
  <1> DEFINE u == s \o t
  <1>1. /\ u \in Seq(S) /\ Len(u) = Len(s) + Len(t)
        /\ \A i \in 1 .. Len(s) + Len(t) :
              u[i] = IF i <= Len(s) THEN s[i] ELSE t[i - Len(s)]
    BY ConcatProperties
  <1>2. Len(s) \in Nat /\ Len(t) \in Nat
    BY LenProperties
  <1> HIDE DEF u
  <1>3. ASSUME NEW i \in 1 .. Len(s) PROVE u[i] = s[i]
    <2>1. i \in 1 .. Len(s) + Len(t) /\ i <= Len(s)
      BY <1>2
    <2> QED BY <1>1, <2>1
  <1>4. ASSUME NEW i \in 1 .. Len(t) PROVE u[Len(s) + i] = t[i]
    <2>1. /\ Len(s) + i \in 1 .. Len(s) + Len(t) /\ ~(Len(s) + i <= Len(s))
          /\ (Len(s) + i) - Len(s) = i
      BY <1>2
    <2> QED BY <1>1, <2>1
  <1> QED BY <1>1, <1>3, <1>4 DEF u

(* Accounted, over any wire, buffer, cells given and places spoilt.         *)
InPlace(w, b, g, o) ==
    /\ Len(w) + Len(b) = Len(g)
    /\ \A i \in 1 .. Len(w) : i \in o \/ w[i] = g[i]
    /\ \A i \in 1 .. Len(b) : Len(w) + i \in o \/ b[i] = g[Len(w) + i]

LEMMA AccountedInPlace ==
    ASSUME NEW w \in Seq(Cell), NEW b \in Seq(Cell), NEW g, NEW o
    PROVE  InPlace(w, b, g, o) <=>
              /\ Len(w) + Len(b) = Len(g)
              /\ \A i \in DOMAIN w : i \in o \/ w[i] = g[i]
              /\ \A i \in DOMAIN b : Len(w) + i \in o \/ b[i] = g[Len(w) + i]
  <1>1. DOMAIN w = 1 .. Len(w) /\ DOMAIN b = 1 .. Len(b)
    BY LenProperties
  <1> QED BY <1>1 DEF InPlace

(* ::write takes cells from the buffer's front to the wire's end.           *)
LEMMA Drain ==
    ASSUME NEW w \in Seq(Cell), NEW b \in Seq(Cell), NEW g, NEW o,
           NEW n \in 0 .. Len(b), InPlace(w, b, g, o)
    PROVE  InPlace(w \o SubSeq(b, 1, n), SubSeq(b, n + 1, Len(b)), g, o)
  <1> DEFINE piece == SubSeq(b, 1, n)
             v     == w \o piece
             r     == SubSeq(b, n + 1, Len(b))
  <1>1. Len(w) \in Nat /\ Len(b) \in Nat /\ n \in Nat
    BY LenProperties
  <1>2. Len(r) = Len(b) - n /\ \A i \in 1 .. Len(b) - n : r[i] = b[n + i]
    BY RestOf
  <1>3. /\ piece \in Seq(Cell) /\ Len(piece) = n
        /\ \A i \in 1 .. n : piece[i] = b[i]
    <2>1. \A i \in 1 .. n : i \in 1 .. Len(b)
      BY <1>1
    <2>2. /\ piece \in Seq(Cell) /\ Len(piece) = IF 1 <= n THEN n - 1 + 1 ELSE 0
          /\ \A i \in 1 .. n - 1 + 1 : piece[i] = b[1 + i - 1]
      BY <1>1, <2>1, SubSeqProperties
    <2> HIDE DEF piece
    <2>3. n - 1 + 1 = n /\ \A i \in 1 .. n : 1 + i - 1 = i
      BY <1>1
    <2> QED BY <1>1, <2>2, <2>3
  <1> HIDE DEF piece, r
  <1>4. /\ Len(v) = Len(w) + n
        /\ \A i \in 1 .. Len(w) : v[i] = w[i]
        /\ \A i \in 1 .. n : v[Len(w) + i] = b[i]
    <2>1. /\ Len(v) = Len(w) + Len(piece)
          /\ \A i \in 1 .. Len(w) : v[i] = w[i]
          /\ \A i \in 1 .. Len(piece) : v[Len(w) + i] = piece[i]
      <3>1. w \in Seq(Cell) /\ piece \in Seq(Cell)
        BY <1>3
      <3> QED BY ONLY <3>1, ConcatAt
    <2> QED BY <1>3, <2>1
  <1> HIDE DEF v
  <1>5. /\ Len(w) + Len(b) = Len(g)
        /\ \A i \in 1 .. Len(w) : i \in o \/ w[i] = g[i]
        /\ \A i \in 1 .. Len(b) : Len(w) + i \in o \/ b[i] = g[Len(w) + i]
    BY DEF InPlace
  <1>6. Len(v) + Len(r) = Len(g)
    <2>1. Len(v) = Len(w) + n /\ Len(r) = Len(b) - n /\ Len(w) + Len(b) = Len(g)
      BY <1>2, <1>4, <1>5
    <2> QED BY ONLY <1>1, <2>1
  <1>7. ASSUME NEW i \in 1 .. Len(v) PROVE i \in o \/ v[i] = g[i]
    <2>1. CASE i <= Len(w)
      BY <1>1, <1>4, <1>5, <2>1
    <2>2. CASE i > Len(w)
      <3>1. i - Len(w) \in 1 .. n /\ i - Len(w) \in 1 .. Len(b) /\ Len(w) + (i - Len(w)) = i
        BY <1>1, <1>4, <2>2
      <3> QED BY <1>4, <1>5, <3>1
    <2> QED BY <1>1, <1>4, <2>1, <2>2
  <1>8. ASSUME NEW i \in 1 .. Len(r) PROVE Len(v) + i \in o \/ r[i] = g[Len(v) + i]
    <2>1. /\ n + i \in 1 .. Len(b) /\ Len(w) + (n + i) = Len(v) + i
          /\ i \in 1 .. Len(b) - n
      BY <1>1, <1>2, <1>4
    <2> QED BY <1>2, <1>5, <2>1
  <1>9. InPlace(v, r, g, o)
    BY <1>6, <1>7, <1>8 DEF InPlace
  <1> QED BY <1>9 DEF v, r, piece

(* What is given next is appended: only the places Spoilt names suffer.     *)
LEMMA Behind ==
    ASSUME NEW w \in Seq(Cell), NEW b \in Seq(Cell), NEW g \in Seq(Cell),
           NEW c \in Seq(Cell), NEW o, NEW p,
           InPlace(w, b, g, o),
           \A i \in o : i \in p,
           \A i \in 1 .. Len(b) + Len(c) :
              Len(b) > 0 /\ ~(Len(c) < i /\ i <= Len(b)) => Len(w) + i \in p
    PROVE  InPlace(w, Appended(b, c), g \o c, p)
  <1> DEFINE a == Appended(b, c)
             h == g \o c
  <1>1. Len(w) \in Nat /\ Len(b) \in Nat /\ Len(g) \in Nat /\ Len(c) \in Nat
    BY LenProperties
  <1>2. /\ Len(a) = Len(b) + Len(c)
        /\ \A i \in 1 .. Len(c) : a[i] = c[i]
        /\ \A i \in 1 .. Len(b) : i > Len(c) => a[i] = b[i]
    BY AppendedCells
  <1>3. /\ Len(h) = Len(g) + Len(c)
        /\ \A i \in 1 .. Len(g) : h[i] = g[i]
        /\ \A i \in 1 .. Len(c) : h[Len(g) + i] = c[i]
    BY ConcatAt
  <1> HIDE DEF a, h
  <1>4. /\ Len(w) + Len(b) = Len(g)
        /\ \A i \in 1 .. Len(w) : i \in o \/ w[i] = g[i]
        /\ \A i \in 1 .. Len(b) : Len(w) + i \in o \/ b[i] = g[Len(w) + i]
    BY DEF InPlace
  <1>5. Len(w) + Len(a) = Len(h)
    <2>1. /\ Len(a) = Len(b) + Len(c) /\ Len(h) = Len(g) + Len(c)
          /\ Len(w) + Len(b) = Len(g)
      BY <1>2, <1>3, <1>4
    <2>2. Len(w) + (Len(b) + Len(c)) = (Len(w) + Len(b)) + Len(c)
      BY <1>1
    <2> QED BY <2>1, <2>2
  <1>6. ASSUME NEW i \in 1 .. Len(w) PROVE i \in p \/ w[i] = h[i]
    <2>1. i \in 1 .. Len(g)
      BY <1>1, <1>4
    <2> QED BY <1>3, <1>4, <2>1
  <1>7. ASSUME NEW i \in 1 .. Len(a) PROVE Len(w) + i \in p \/ a[i] = h[Len(w) + i]
    <2>1. i \in 1 .. Len(b) + Len(c)
      BY <1>2
    <2>2. CASE Len(b) = 0
      <3>1. i \in 1 .. Len(c) /\ Len(w) + i = Len(g) + i
        BY <1>1, <1>4, <2>1, <2>2
      <3> QED BY <1>2, <1>3, <3>1
    <2>3. CASE Len(b) > 0 /\ ~(Len(c) < i /\ i <= Len(b))
      BY <2>1, <2>3
    <2>4. CASE Len(c) < i /\ i <= Len(b)
      <3>1. i \in 1 .. Len(b) /\ i > Len(c) /\ Len(w) + i \in 1 .. Len(g)
        BY <1>1, <1>4, <2>1, <2>4
      <3> QED BY <1>2, <1>3, <1>4, <3>1
    <2> QED BY <1>1, <2>2, <2>3, <2>4
  <1>8. InPlace(w, a, h, p)
    BY <1>5, <1>6, <1>7 DEF InPlace
  <1> QED BY <1>8 DEF a, h

(* An empty buffer is not spoilt.                                           *)
LEMMA AppendedToNone ==
    ASSUME NEW t \in Seq(Cell)
    PROVE  Appended(<<>>, t) = t
  <1> DEFINE a == Appended(<<>>, t)
  <1>1. <<>> \in Seq(Cell) /\ Len(<<>>) = 0 /\ Len(t) \in Nat
    BY LenProperties
  <1>2. a \in Seq(Cell) /\ Len(a) = 0 + Len(t) /\ \A i \in 1 .. Len(t) : a[i] = t[i]
    BY <1>1, AppendedCells
  <1> HIDE DEF a
  <1>3. Len(a) = Len(t)
    BY <1>1, <1>2
  <1>4. a = t
    BY <1>2, <1>3, SeqEqual
  <1> QED BY <1>4 DEF a

(* The cells of a message, which are not Stale.                             *)
LEMMA CellsOf ==
    ASSUME NEW m \in Message
    PROVE  /\ Cells(m) \in Seq(Message \X Nat) /\ Cells(m) \in Seq(Cell)
           /\ Len(Cells(m)) = Size[m] /\ Size[m] \in Nat \ {0}
           /\ \A i \in 1 .. Size[m] : Cells(m)[i][1] = m
  <1> DEFINE cells == Cells(m)
  <1>1. Size[m] \in Nat \ {0}
    BY TcpAssumption
  <1>2. cells \in [1 .. Size[m] -> Message \X Nat] /\ \A i \in 1 .. Size[m] : cells[i][1] = m
    BY <1>1 DEF Cells
  <1> HIDE DEF cells
  <1>3. cells \in Seq(Message \X Nat) /\ Len(cells) = Size[m]
    BY <1>1, <1>2
  <1>4. cells \in Seq(Cell)
    BY <1>3 DEF Cell
  <1> QED BY <1>1, <1>2, <1>3, <1>4 DEF cells

(* sendInLoop: what the kernel does not take goes to the buffer, and is     *)
(* written when there is room; the Poller's assert can only fail after      *)
(* connectionDestroyed.                                                     *)
LEMMA SendEffect ==
    ASSUME IInv, crash = "no", NEW m \in Message, sendInLoop(m)
    PROVE  /\ inflight' \in 0 .. SndBuf
           /\ wire' \in Seq(Cell) /\ given' \in Seq(Message \X Nat)
           /\ outputBuffer_' \in Seq(Cell) /\ overwritten' \in SUBSET Nat
           /\ events_' \in SUBSET {"IN", "OUT"}
           /\ crash' \in {"no", "updateChannel"}
           /\ crash' # "no" => entry = "removed"
           /\ \/ pendingFunctors_' = pendingFunctors_
              \/ pendingFunctors_' = Append(pendingFunctors_, FunctorOf("highWaterMark", None))
           /\ Accounted' /\ WritesWhilePending'
           /\ UNCHANGED <<state_, entry, closed, alive, wrShut, data, peer>>
  <1> DEFINE cells == Cells(m)
             direct == ~isWriting /\ outputBuffer_ = <<>>
             n == IF direct THEN Taken(Size[m]) ELSE 0
             rest == SubSeq(cells, n + 1, Len(cells))
             F1 == FunctorOf("highWaterMark", None)
  <1>1. /\ Types /\ outputBuffer_ \in Seq(Cell) /\ wire \in Seq(Cell)
        /\ given \in Seq(Message \X Nat) /\ given \in Seq(Cell)
        /\ inflight \in 0 .. SndBuf /\ events_ \in SUBSET {"IN", "OUT"}
        /\ overwritten \in SUBSET Nat
        /\ Len(outputBuffer_) \in Nat /\ Len(wire) \in Nat
    <2>1. Types
      BY DEF IInv, TypeOK
    <2>2. given \in Seq(Message \X Nat) /\ given \in Seq(Cell)
      BY <2>1 DEF Types, Cell
    <2> QED BY <2>1, <2>2, LenProperties DEF Types
  <1>2. /\ cells \in Seq(Message \X Nat) /\ cells \in Seq(Cell)
        /\ Len(cells) = Size[m] /\ Size[m] \in Nat \ {0}
    BY CellsOf
  <1>3. /\ given' = given \o cells
        /\ IF direct THEN write(cells) ELSE UNCHANGED <<inflight, wire>>
        /\ IF rest = <<>>
           THEN UNCHANGED <<outputBuffer_, events_, crash, pendingFunctors_, overwritten>>
           ELSE /\ outputBuffer_' = Appended(outputBuffer_, rest)
                /\ overwritten' = overwritten \cup Spoilt(Len(rest))
                /\ pendingFunctors_' \in {pendingFunctors_, Append(pendingFunctors_, F1)}
                /\ enableWriting
        /\ UNCHANGED <<state_, entry, closed, alive, wrShut, data, peer>>
    <2>1. Remaining(m, n) = rest
      BY <1>2 DEF Remaining
    <2>2. sendInLoop(m)
      OBVIOUS
    <2> QED BY <2>1, <2>2 DEF sendInLoop
  <1> HIDE DEF cells
  <1>4. given' \in Seq(Message \X Nat)
    BY <1>1, <1>2, <1>3, ConcatProperties
  <1>5. /\ inflight' \in 0 .. SndBuf /\ wire' \in Seq(Cell) /\ n \in 0 .. Len(cells)
        /\ direct => wire' = wire \o SubSeq(cells, 1, n)
        /\ ~direct => n = 0 /\ wire' = wire
    <2>1. CASE direct
      BY <1>1, <1>2, <1>3, <2>1, WriteEffect
    <2>2. CASE ~direct
      BY <1>1, <1>2, <1>3, <2>2
    <2> QED BY <2>1, <2>2
  <1>6. direct => ~isWriting /\ outputBuffer_ = <<>>
    OBVIOUS
  <1> HIDE DEF n, direct
  <1>7. /\ rest \in Seq(Cell) /\ Len(rest) = Size[m] - n
        /\ rest = <<>> <=> Size[m] = n
    <2>1. cells \in Seq(Cell) /\ n \in 0 .. Len(cells) /\ Len(cells) = Size[m]
      BY <1>2, <1>5
    <2>2. /\ rest \in Seq(Cell) /\ Len(rest) = Len(cells) - n
          /\ rest = <<>> <=> Len(cells) = n
      BY ONLY <2>1, RestOf
    <2> HIDE DEF rest
    <2> QED BY <2>1, <2>2
  <1>8. InPlace(wire, outputBuffer_, given, overwritten)
    BY <1>1, AccountedInPlace DEF IInv, Accounted
  <1>9. /\ outputBuffer_' \in Seq(Cell) /\ overwritten' \in SUBSET Nat
        /\ InPlace(wire', outputBuffer_', given', overwritten')
        /\ rest # <<>> => outputBuffer_' # <<>>
    <2>1. CASE direct
      <3>1. InPlace(wire, cells, given \o cells, overwritten)
        <4>1. Appended(<<>>, cells) = cells
          BY <1>2, AppendedToNone
        <4>2. <<>> \in Seq(Cell) /\ Len(<<>>) = 0
          OBVIOUS
        <4>3. InPlace(wire, <<>>, given, overwritten)
          BY <1>6, <1>8, <2>1
        <4>4. \A i \in 1 .. Len(<<>>) + Len(cells) :
                 Len(<<>>) > 0 /\ ~(Len(cells) < i /\ i <= Len(<<>>))
                    => Len(wire) + i \in overwritten
          BY <4>2
        <4>5. InPlace(wire, Appended(<<>>, cells), given \o cells, overwritten)
          BY <1>1, <1>2, <4>2, <4>3, <4>4, Behind
        <4> QED BY <4>1, <4>5
      <3>2. InPlace(wire', rest, given', overwritten)
        BY <1>1, <1>2, <1>3, <1>5, <2>1, <3>1, Drain
      <3>3. outputBuffer_' = rest /\ overwritten' = overwritten
        <4>1. CASE rest = <<>>
          BY <1>3, <1>6, <2>1, <4>1
        <4>2. CASE rest # <<>>
          <5>1. Appended(<<>>, rest) = rest
            BY <1>7, AppendedToNone
          <5>2. Spoilt(Len(rest)) = {}
            BY <1>6, <2>1 DEF Spoilt
          <5> QED BY <1>3, <1>6, <2>1, <4>2, <5>1, <5>2
        <4> QED BY <4>1, <4>2
      <3> QED BY <1>1, <1>7, <3>2, <3>3
    <2>2. CASE ~direct
      <3>1. rest = cells /\ rest # <<>>
        <4>1. n = 0
          BY <1>5, <2>2
        <4>2. \A i \in 1 .. Len(cells) : rest[i] = cells[i]
          BY <1>2, <4>1, RestOf
        <4>3. Len(rest) = Len(cells) /\ rest # <<>>
          BY <1>2, <1>7, <4>1
        <4> QED BY <1>2, <1>7, <4>2, <4>3, SeqEqual
      <3>2. /\ outputBuffer_' = Appended(outputBuffer_, cells)
            /\ overwritten' = overwritten \cup Spoilt(Len(cells))
            /\ wire' = wire /\ given' = given \o cells
        BY <1>3, <1>5, <2>2, <3>1
      <3>3. \A i \in 1 .. Len(outputBuffer_) + Len(cells) :
               Len(outputBuffer_) > 0 /\ ~(Len(cells) < i /\ i <= Len(outputBuffer_))
                  => Len(wire) + i \in Spoilt(Len(cells))
        BY DEF Spoilt
      <3>4. Spoilt(Len(cells)) \in SUBSET Nat
        BY <1>1, <1>2 DEF Spoilt
      <3>5. overwritten' \in SUBSET Nat
        BY <1>1, <3>2, <3>4
      <3>6. /\ outputBuffer_' \in Seq(Cell)
            /\ Len(outputBuffer_') = Len(outputBuffer_) + Len(cells)
        BY <1>1, <1>2, <3>2, AppendedCells
      <3>7. outputBuffer_' # <<>>
        <4>1. Len(outputBuffer_') > 0
          BY <1>1, <1>2, <3>6
        <4> QED BY <3>6, <4>1, EmptySeq
      <3>8. InPlace(wire, Appended(outputBuffer_, cells), given \o cells, overwritten')
        <4>1. \A i \in overwritten : i \in overwritten'
          BY <3>2
        <4>2. \A i \in 1 .. Len(outputBuffer_) + Len(cells) :
                 Len(outputBuffer_) > 0 /\ ~(Len(cells) < i /\ i <= Len(outputBuffer_))
                    => Len(wire) + i \in overwritten'
          BY <3>2, <3>3
        <4> HIDE DEF rest
        <4> QED BY <1>1, <1>2, <1>8, <4>1, <4>2, Behind
      <3> QED BY <3>2, <3>5, <3>6, <3>7, <3>8
    <2> QED BY <2>1, <2>2
  <1>10. Accounted'
    BY <1>5, <1>9, AccountedInPlace DEF Accounted
  <1>11. CASE rest = <<>>
    <2>1. UNCHANGED <<outputBuffer_, events_, crash, pendingFunctors_>>
      BY <1>3, <1>11
    <2>2. WritesWhilePending'
      BY <1>3, <2>1 DEF IInv, WritesWhilePending, isWriting
    <2> QED BY <1>1, <1>3, <1>4, <1>5, <1>9, <1>10, <2>1, <2>2
  <1>12. CASE rest # <<>>
    <2>1. /\ pendingFunctors_' \in {pendingFunctors_, Append(pendingFunctors_, F1)}
          /\ enableWriting
      BY <1>3, <1>12
    <2>2. events_' = events_ \cup {"OUT"} /\ events_' \in SUBSET {"IN", "OUT"}
      BY <1>1, <2>1 DEF enableWriting
    <2>3. /\ crash' \in {"no", "updateChannel"}
          /\ crash' # "no" => entry = "removed"
      BY <2>1 DEF enableWriting
    <2>4. WritesWhilePending'
      BY <1>9, <1>12, <2>2 DEF WritesWhilePending, isWriting
    <2> QED BY <1>3, <1>4, <1>5, <1>9, <1>10, <2>1, <2>2, <2>3, <2>4
  <1> QED BY <1>11, <1>12

-----------------------------------------------------------------------------
(* The invariant.                                                           *)

LEMMA InitInv == Init => IInv
  <1> SUFFICES ASSUME Init PROVE IInv
    OBVIOUS
  <1>1. <<>> \in Seq(Cell) /\ <<>> \in Seq(F) /\ <<>> \in Seq(Message \X Nat) /\ Len(<<>>) = 0
    OBVIOUS
  <1>2. Types
    <2>1. /\ tpc \in [Thread -> {"idle", "send", "set", "shutdown"}]
          /\ tmsg \in [Thread -> Message \cup {None}]
      BY DEF Init
    <2>2. inflight \in 0 .. SndBuf
      BY TcpAssumption DEF Init
    <2> QED BY <1>1, <2>1, <2>2 DEF Init, Types, F
  <1>3. PhaseConsistent /\ LoopPhase /\ ClosePhase
    BY DEF Init, PhaseConsistent, LoopPhase, ClosePhase
  <1>4. WritesWhilePending /\ SafeUnlessRaced
    BY DEF Init, WritesWhilePending, SafeUnlessRaced
  <1>5. Accounted
    BY <1>1 DEF Init, Accounted, Cell
  <1>6. QueueOrder
    BY <1>1 DEF Init, QueueOrder, InOrder, Named, Ordered, Has
  <1> QED BY <1>2, <1>3, <1>4, <1>5, <1>6 DEF IInv, TypeOK

(* The types of what the lemmas on queues are about.                        *)
LEMMA Queues ==
    ASSUME IInv
    PROVE  /\ functors \in Seq(F) /\ pendingFunctors_ \in Seq(F)
           /\ InOrder(functors, pendingFunctors_, entry, raced)
           /\ closed <=> entry \in {"ignored", "removed"}
           /\ raced \in BOOLEAN /\ closed \in BOOLEAN
           /\ state_ = "kConnecitng" <=> entry = "none"
           /\ entry \in {"none", "polled", "ignored", "removed"}
  BY DEF IInv, TypeOK, Types, PhaseConsistent, QueueOrder, ClosePhase, F

(* The peer, and a thread that has only looked.                             *)
LEMMA AsideInv ==
    ASSUME IInv, crash = "no",
           UNCHANGED <<connVars, loopVars, wrShut, given, wire, overwritten, raced>>,
           inflight' \in 0 .. SndBuf, data' \in BOOLEAN,
           peer' \in {"open", "finished", "reset", "resetRead"},
           sent' \in SUBSET Message,
           tpc' \in [Thread -> {"idle", "send", "set", "shutdown"}],
           tmsg' \in [Thread -> Message \cup {None}],
           state_ = "kConnecitng" => tpc' = tpc,
           \A t \in Thread : tpc'[t] = "send" => tmsg'[t] \in Message
    PROVE  IInv'
  <1> USE DEF connVars, loopVars
  <1>1. TypeOK'
    BY DEF IInv, TypeOK, Types, PhaseConsistent
  <1>2. WritesWhilePending' /\ Accounted' /\ SafeUnlessRaced'
    BY DEF IInv, WritesWhilePending, isWriting, Accounted, SafeUnlessRaced
  <1>3. QueueOrder' /\ LoopPhase' /\ ClosePhase'
    BY DEF IInv, QueueOrder, LoopPhase, ClosePhase
  <1> QED BY <1>1, <1>2, <1>3 DEF IInv

LEMMA PeerInv ==
    ASSUME IInv, crash = "no", PeerStep
    PROVE  IInv'
  <1>1. /\ inflight \in 0 .. SndBuf /\ SndBuf \in Nat /\ data \in BOOLEAN
        /\ peer \in {"open", "finished", "reset", "resetRead"}
        /\ sent \in SUBSET Message
        /\ tpc \in [Thread -> {"idle", "send", "set", "shutdown"}]
        /\ tmsg \in [Thread -> Message \cup {None}]
        /\ \A t \in Thread : tpc[t] = "send" => tmsg[t] \in Message
    BY TcpAssumption DEF IInv, TypeOK, Types, LoopPhase
  <1> USE DEF threadVars, history
  <1>2. CASE peerReads
    BY <1>1, <1>2, AsideInv DEF peerReads
  <1>3. CASE peerSends
    BY <1>1, <1>3, AsideInv DEF peerSends
  <1>4. CASE peerFinishes
    BY <1>1, <1>4, AsideInv DEF peerFinishes
  <1>5. CASE peerResets
    BY <1>1, <1>5, AsideInv DEF peerResets
  <1> QED BY <1>2, <1>3, <1>4, <1>5 DEF PeerStep

(* Only what the last conjuncts of the invariant read has changed.          *)
LEMMA ThreadInv ==
    ASSUME IInv, NEW t \in Thread,
           \/ \E m \in Message : threadSends(t, m)
           \/ threadShutsDown(t) \/ ThreadStep(t),
           crash = "no"
    PROVE  IInv'
  <1>1. /\ tpc \in [Thread -> {"idle", "send", "set", "shutdown"}]
        /\ tmsg \in [Thread -> Message \cup {None}]
        /\ \A u \in Thread : tpc[u] = "send" => tmsg[u] \in Message
        /\ inflight \in 0 .. SndBuf /\ data \in BOOLEAN
        /\ peer \in {"open", "finished", "reset", "resetRead"}
        /\ sent \in SUBSET Message
        /\ tpc[t] # "idle" => state_ # "kConnecitng"
    BY DEF IInv, TypeOK, Types, LoopPhase
  <1>2. /\ functors \in Seq(F) /\ pendingFunctors_ \in Seq(F)
        /\ InOrder(functors, pendingFunctors_, entry, raced)
        /\ closed <=> entry \in {"ignored", "removed"}
        /\ raced \in BOOLEAN /\ closed \in BOOLEAN
        /\ state_ = "kConnecitng" <=> entry = "none"
    BY Queues
  <1>3. ASSUME NEW m \in Message, threadSends(t, m) PROVE IInv'
    <2>1. /\ tpc' \in [Thread -> {"idle", "send", "set", "shutdown"}]
          /\ tmsg' \in [Thread -> Message \cup {None}]
          /\ \A u \in Thread : tpc'[u] = "send" => tmsg'[u] \in Message
          /\ state_ # "kConnecitng" /\ sent' \in SUBSET Message
      BY <1>1, <1>3 DEF threadSends
    <2> QED BY <1>1, <1>3, <2>1, AsideInv DEF threadSends, kernelVars
  <1>4. CASE threadShutsDown(t)
    <2>1. /\ tpc' \in [Thread -> {"idle", "send", "set", "shutdown"}]
          /\ \A u \in Thread : tpc'[u] = "send" => tmsg[u] \in Message
          /\ state_ # "kConnecitng"
      BY <1>1, <1>4 DEF threadShutsDown
    <2> QED BY <1>1, <1>4, <2>1, AsideInv DEF threadShutsDown, kernelVars, history
  <1>5. CASE threadQueuesSend(t)
    <2> DEFINE f == FunctorOf("sendInLoop", tmsg[t])
    <2>1. /\ tpc' \in [Thread -> {"idle", "send", "set", "shutdown"}]
          /\ tmsg' \in [Thread -> Message \cup {None}]
          /\ \A u \in Thread : tpc'[u] = "send" => tmsg'[u] \in Message
          /\ state_ # "kConnecitng" /\ tmsg[t] \in Message
      BY <1>1, <1>5 DEF threadQueuesSend
    <2>2. f \in F /\ f.op = "sendInLoop" /\ f.msg \in Message
      BY <2>1 DEF F, FunctorOf, Op
    <2>3. pendingFunctors_' = Append(pendingFunctors_, f) /\ raced' = (raced \/ closed)
      BY <1>5 DEF threadQueuesSend
    <2> HIDE DEF f
    <2>4. InOrder(functors, pendingFunctors_, entry, raced')
      BY <1>2, <2>3, InOrderLater
    <2>5. InOrder(functors, Append(pendingFunctors_, f), entry, raced')
      <3>1. entry \in {"ignored", "removed"} => raced'
        BY <1>2, <2>3
      <3> QED BY <1>2, <2>2, <2>4, <3>1, InOrderPush
    <2>6. pendingFunctors_' \in Seq(F)
      BY <1>2, <2>2, <2>3, HasAppend
    <2>7. TypeOK'
      BY <1>2, <1>5, <2>1, <2>3, <2>6
         DEF threadQueuesSend, connVars, kernelVars, IInv, TypeOK, Types, PhaseConsistent, F
    <2>8. QueueOrder'
      BY <1>5, <2>3, <2>5 DEF threadQueuesSend, connVars, QueueOrder
    <2>9. LoopPhase' /\ ClosePhase' /\ SafeUnlessRaced'
      BY <1>2, <1>5, <2>1, <2>3
         DEF threadQueuesSend, connVars, IInv, LoopPhase, ClosePhase, SafeUnlessRaced
    <2>10. WritesWhilePending' /\ Accounted'
      BY <1>5 DEF threadQueuesSend, connVars, IInv, WritesWhilePending, isWriting, Accounted
    <2> QED BY <2>7, <2>8, <2>9, <2>10 DEF IInv
  <1>6. CASE threadSetsState(t)
    <2>1. /\ tpc' \in [Thread -> {"idle", "send", "set", "shutdown"}]
          /\ \A u \in Thread : tpc'[u] = "send" => tmsg[u] \in Message
          /\ state_ # "kConnecitng" /\ state_' = "kDisconnecting"
          /\ raced' = (raced \/ closed)
      BY <1>1, <1>6 DEF threadSetsState
    <2>2. InOrder(functors, pendingFunctors_, entry, raced')
      BY <1>2, <2>1, InOrderLater
    <2>3. TypeOK'
      BY <1>2, <1>6, <2>1
         DEF threadSetsState, loopVars, kernelVars, IInv, TypeOK, Types, PhaseConsistent
    <2>4. QueueOrder'
      BY <1>6, <2>2 DEF threadSetsState, loopVars, QueueOrder
    <2>5. LoopPhase' /\ ClosePhase' /\ SafeUnlessRaced'
      BY <1>2, <1>6, <2>1
         DEF threadSetsState, loopVars, IInv, LoopPhase, ClosePhase, SafeUnlessRaced
    <2>6. WritesWhilePending' /\ Accounted'
      BY <1>6 DEF threadSetsState, IInv, WritesWhilePending, isWriting, Accounted
    <2> QED BY <2>3, <2>4, <2>5, <2>6 DEF IInv
  <1>7. CASE threadQueuesShutdown(t)
    <2> DEFINE f == FunctorOf("shutdonwInLoop", None)
    <2>1. /\ tpc' \in [Thread -> {"idle", "send", "set", "shutdown"}]
          /\ \A u \in Thread : tpc'[u] = "send" => tmsg[u] \in Message
          /\ state_ # "kConnecitng"
      BY <1>1, <1>7 DEF threadQueuesShutdown
    <2>2. f \in F /\ f.op = "shutdonwInLoop"
      BY DEF F, FunctorOf, Op
    <2>3. pendingFunctors_' = Append(pendingFunctors_, f)
      BY <1>7 DEF threadQueuesShutdown
    <2> HIDE DEF f
    <2>4. InOrder(functors, Append(pendingFunctors_, f), entry, raced)
      BY <1>2, <2>2, InOrderPush
    <2>5. pendingFunctors_' \in Seq(F)
      BY <1>2, <2>2, <2>3, HasAppend
    <2>6. TypeOK'
      BY <1>7, <2>1, <2>5
         DEF threadQueuesShutdown, connVars, kernelVars, history, IInv, TypeOK, Types,
             PhaseConsistent, F
    <2>7. QueueOrder'
      BY <1>7, <2>3, <2>4 DEF threadQueuesShutdown, connVars, history, QueueOrder
    <2>8. LoopPhase' /\ ClosePhase' /\ SafeUnlessRaced'
      BY <1>7, <2>1
         DEF threadQueuesShutdown, connVars, history, IInv, LoopPhase, ClosePhase,
             SafeUnlessRaced
    <2>9. WritesWhilePending' /\ Accounted'
      BY <1>7 DEF threadQueuesShutdown, connVars, history, IInv, WritesWhilePending,
                  isWriting, Accounted
    <2> QED BY <2>6, <2>7, <2>8, <2>9 DEF IInv
  <1> QED BY <1>3, <1>4, <1>5, <1>6, <1>7 DEF ThreadStep

(* The functors that sendInLoop may queue say nothing about the end.        *)
LEMMA HighWaterOrder ==
    ASSUME NEW b \in Seq(F), NEW w \in Seq(F), NEW v, NEW e, NEW r, InOrder(b, w, e, r),
           \/ v = w
           \/ v = Append(w, FunctorOf("highWaterMark", None))
    PROVE  InOrder(b, v, e, r) /\ v \in Seq(F)
  <1> DEFINE f == FunctorOf("highWaterMark", None)
  <1>1. f \in F /\ f.op = "highWaterMark"
    BY DEF F, FunctorOf, Op
  <1> HIDE DEF f
  <1>2. InOrder(b, Append(w, f), e, r) /\ Append(w, f) \in Seq(F)
    BY <1>1, InOrderPush, HasAppend
  <1> QED BY <1>2 DEF f

(* send and shutdown called on the loop thread.                             *)
LEMMA UserInv ==
    ASSUME IInv, crash = "no",
           (\E m \in Message : loopSend(m)) \/ loopShutdown
    PROVE  IInv'
  <1>1. /\ functors \in Seq(F) /\ pendingFunctors_ \in Seq(F)
        /\ InOrder(functors, pendingFunctors_, entry, raced)
        /\ closed <=> entry \in {"ignored", "removed"}
        /\ raced \in BOOLEAN /\ closed \in BOOLEAN
        /\ state_ = "kConnecitng" <=> entry = "none"
    BY Queues
  <1>2. ASSUME NEW m \in Message, loopSend(m) PROVE IInv'
    <2>1. /\ state_ = "kConnected" /\ sent' = sent \cup {m} /\ sendInLoop(m)
          /\ UNCHANGED <<pc, revents, functors, tpc, tmsg, raced>>
      BY <1>2 DEF loopSend, threadVars
    <2>2. /\ inflight' \in 0 .. SndBuf
          /\ wire' \in Seq(Cell) /\ given' \in Seq(Message \X Nat)
          /\ outputBuffer_' \in Seq(Cell) /\ overwritten' \in SUBSET Nat
          /\ events_' \in SUBSET {"IN", "OUT"}
          /\ crash' \in {"no", "updateChannel"}
          /\ crash' # "no" => entry = "removed"
          /\ \/ pendingFunctors_' = pendingFunctors_
             \/ pendingFunctors_' = Append(pendingFunctors_, FunctorOf("highWaterMark", None))
          /\ Accounted' /\ WritesWhilePending'
          /\ UNCHANGED <<state_, entry, closed, alive, wrShut, data, peer>>
      BY <2>1, SendEffect
    <2>3. InOrder(functors, pendingFunctors_', entry, raced) /\ pendingFunctors_' \in Seq(F)
      BY <1>1, <2>2, HighWaterOrder
    <2>4. TypeOK'
      BY <1>2, <2>1, <2>2, <2>3 DEF IInv, TypeOK, Types, PhaseConsistent, F
    <2>5. QueueOrder'
      BY <2>1, <2>2, <2>3 DEF QueueOrder
    <2>6. LoopPhase' /\ ClosePhase'
      BY <2>1, <2>2 DEF IInv, LoopPhase, ClosePhase
    <2>7. SafeUnlessRaced'
      BY <2>1, <2>2 DEF IInv, ClosePhase, SafeUnlessRaced
    <2> QED BY <2>2, <2>4, <2>5, <2>6, <2>7 DEF IInv
  <1>3. CASE loopShutdown
    <2>1. /\ state_ = "kConnected" /\ state_' = "kDisconnecting"
          /\ wrShut' = (wrShut \/ ~isWriting) /\ raced' = (raced \/ closed)
          /\ UNCHANGED <<events_, entry, outputBuffer_, closed, alive, crash, pc, revents,
                         pendingFunctors_, functors, tpc, tmsg, inflight, data, peer,
                         sent, given, wire, overwritten>>
      BY <1>3 DEF loopShutdown, endStream, loopVars, threadVars
    <2>2. InOrder(functors, pendingFunctors_, entry, raced')
      BY <1>1, <2>1, InOrderLater
    <2>3. TypeOK'
      BY <1>1, <2>1 DEF IInv, TypeOK, Types, PhaseConsistent
    <2>4. QueueOrder'
      BY <2>1, <2>2 DEF QueueOrder
    <2>5. LoopPhase' /\ ClosePhase' /\ SafeUnlessRaced'
      BY <1>1, <2>1 DEF IInv, LoopPhase, ClosePhase, SafeUnlessRaced
    <2>6. WritesWhilePending' /\ Accounted'
      BY <2>1 DEF IInv, WritesWhilePending, isWriting, Accounted
    <2> QED BY <2>3, <2>4, <2>5, <2>6 DEF IInv
  <1> QED BY <1>2, <1>3

LEMMA EstablishedInv ==
    ASSUME IInv, crash = "no", connectionEstablished
    PROVE  IInv'
  <1>1. /\ state_ = "kConnecitng" /\ state_' = "kConnected" /\ events_' = {"IN"}
        /\ entry' = "polled"
        /\ UNCHANGED <<outputBuffer_, closed, alive, crash, pc, revents, pendingFunctors_,
                       functors, tpc, tmsg, inflight, wrShut, data, peer,
                       sent, given, wire, overwritten, raced>>
    BY DEF connectionEstablished, loopVars, threadVars, kernelVars, history
  <1>2. entry = "none" /\ outputBuffer_ = <<>> /\ InOrder(functors, pendingFunctors_, entry, raced)
    BY <1>1, Queues DEF IInv, LoopPhase
  <1>3. TypeOK'
    BY <1>1, <1>2 DEF IInv, TypeOK, Types, PhaseConsistent
  <1>4. QueueOrder'
    BY <1>1, <1>2 DEF QueueOrder, InOrder
  <1>5. LoopPhase' /\ ClosePhase' /\ SafeUnlessRaced'
    BY <1>1, <1>2 DEF IInv, LoopPhase, ClosePhase, SafeUnlessRaced
  <1>6. WritesWhilePending' /\ Accounted'
    BY <1>1, <1>2 DEF IInv, WritesWhilePending, isWriting, Accounted
  <1> QED BY <1>3, <1>4, <1>5, <1>6 DEF IInv

(* Input, an error, or the end: handleClose queues the destruction.         *)
LEMMA HandleReadInv ==
    ASSUME IInv, crash = "no", handleRead
    PROVE  IInv'
  <1>1. /\ pc = "handle" /\ "IN" \in revents /\ revents' = revents \ {"IN"}
        /\ UNCHANGED <<outputBuffer_, alive, crash, pc, functors, tpc, tmsg, inflight,
                       wrShut, sent, given, wire, overwritten, raced>>
        /\ entry = "polled" /\ state_ # "kConnecitng" /\ ~closed
    BY DEF handleRead, threadVars, history, IInv, LoopPhase, TypeOK, PhaseConsistent
  <1>2. /\ functors \in Seq(F) /\ pendingFunctors_ \in Seq(F)
        /\ InOrder(functors, pendingFunctors_, entry, raced)
    BY Queues
  <1>3. CASE UNCHANGED <<state_, events_, entry, closed, pendingFunctors_>>
             /\ data' \in BOOLEAN /\ peer' \in {"open", "finished", "reset", "resetRead"}
    <2>1. TypeOK'
      BY <1>1, <1>3 DEF IInv, TypeOK, Types, PhaseConsistent
    <2>2. QueueOrder'
      BY <1>1, <1>2, <1>3 DEF QueueOrder
    <2>3. LoopPhase' /\ ClosePhase' /\ SafeUnlessRaced'
      BY <1>1, <1>3 DEF IInv, LoopPhase, ClosePhase, SafeUnlessRaced
    <2>4. WritesWhilePending' /\ Accounted'
      BY <1>1, <1>3 DEF IInv, WritesWhilePending, isWriting, Accounted
    <2> QED BY <2>1, <2>2, <2>3, <2>4 DEF IInv
  <1>4. CASE handleClose /\ UNCHANGED <<data, peer>>
    <2> DEFINE f == FunctorOf("connectionDestroyed", None)
    <2>1. /\ state_' = "kConnected" /\ events_' = {} /\ entry' = "ignored" /\ closed' = TRUE
          /\ pendingFunctors_' = Append(pendingFunctors_, f)
      BY <1>4 DEF handleClose
    <2>2. f \in F /\ f.op = "connectionDestroyed"
      BY DEF F, FunctorOf, Op
    <2> HIDE DEF f
    <2>3. InOrder(functors, Append(pendingFunctors_, f), "ignored", raced)
      BY <1>1, <1>2, <2>2, InOrderPush
    <2>4. pendingFunctors_' \in Seq(F)
      BY <1>2, <2>1, <2>2, HasAppend
    <2>5. TypeOK'
      BY <1>1, <1>4, <2>1, <2>4 DEF IInv, TypeOK, Types, PhaseConsistent, F
    <2>6. QueueOrder'
      BY <1>1, <2>1, <2>3 DEF QueueOrder
    <2>7. LoopPhase' /\ ClosePhase' /\ SafeUnlessRaced'
      BY <1>1, <2>1 DEF IInv, LoopPhase, ClosePhase, SafeUnlessRaced
    <2>8. WritesWhilePending' /\ Accounted'
      BY <1>1, <2>1 DEF IInv, WritesWhilePending, Accounted
    <2> QED BY <2>5, <2>6, <2>7, <2>8 DEF IInv
  <1>5. \/ /\ UNCHANGED <<state_, events_, entry, closed, pendingFunctors_>>
           /\ data' \in BOOLEAN /\ peer' \in {"open", "finished", "reset", "resetRead"}
        \/ handleClose /\ UNCHANGED <<data, peer>>
    BY DEF handleRead, IInv, TypeOK, Types
  <1> QED BY <1>3, <1>4, <1>5

(* A partial write leaves the rest; a whole one stops the watching.         *)
LEMMA HandleWriteInv ==
    ASSUME IInv, crash = "no", handleWrite
    PROVE  IInv'
  <1> DEFINE n == Taken(Len(outputBuffer_))
             rest == SubSeq(outputBuffer_, n + 1, Len(outputBuffer_))
  <1>1. /\ pc = "handle" /\ revents = {"OUT"} /\ revents' = {}
        /\ UNCHANGED <<state_, entry, closed, alive, crash, pendingFunctors_, functors,
                       tpc, tmsg, wrShut, data, peer, sent, given, overwritten, raced>>
    BY DEF handleWrite, threadVars
  <1>2. /\ Types /\ outputBuffer_ \in Seq(Cell) /\ Len(outputBuffer_) \in Nat
        /\ wire \in Seq(Cell) /\ Len(wire) \in Nat
        /\ InPlace(wire, outputBuffer_, given, overwritten)
        /\ InOrder(functors, pendingFunctors_, entry, raced)
        /\ events_ \in SUBSET {"IN", "OUT"} /\ inflight \in 0 .. SndBuf
        /\ state_ # "kConnecitng"
    <2>1. Types /\ Accounted
      BY DEF IInv, TypeOK
    <2>2. /\ outputBuffer_ \in Seq(Cell) /\ Len(outputBuffer_) \in Nat
          /\ wire \in Seq(Cell) /\ Len(wire) \in Nat
          /\ events_ \in SUBSET {"IN", "OUT"} /\ inflight \in 0 .. SndBuf
      BY <2>1, LenProperties DEF Types
    <2>3. InPlace(wire, outputBuffer_, given, overwritten)
      BY <2>1, <2>2, AccountedInPlace DEF Accounted
    <2>4. state_ # "kConnecitng"
      BY <1>1 DEF IInv, LoopPhase
    <2> QED BY <2>1, <2>2, <2>3, <2>4, Queues
  <1>3. /\ inflight' \in 0 .. SndBuf /\ wire' \in Seq(Cell) /\ outputBuffer_' \in Seq(Cell)
        /\ events_' \in SUBSET {"IN", "OUT"} /\ pc' \in {"handle", "complete"}
        /\ Accounted' /\ WritesWhilePending'
    <2>1. CASE isWriting /\ n > 0
      <3>1. /\ write(outputBuffer_) /\ outputBuffer_' = rest
            /\ events_' = IF rest = <<>> THEN events_ \ {"OUT"} ELSE events_
            /\ pc' = IF rest = <<>> THEN "complete" ELSE pc
        BY <2>1 DEF handleWrite
      <3>2. /\ inflight' \in 0 .. SndBuf /\ wire' \in Seq(Cell)
            /\ n \in 0 .. Len(outputBuffer_)
            /\ wire' = wire \o SubSeq(outputBuffer_, 1, n)
        BY <1>2, <3>1, WriteEffect
      <3> HIDE DEF n
      <3>3. rest \in Seq(Cell) /\ InPlace(wire', rest, given, overwritten)
        BY <1>2, <3>2, RestOf, Drain
      <3> HIDE DEF rest
      <3>4. Accounted'
        <4>1. outputBuffer_' \in Seq(Cell) /\ InPlace(wire', outputBuffer_', given', overwritten')
          BY <1>1, <3>1, <3>3
        <4>2. wire' \in Seq(Cell)
          BY <3>2
        <4> QED BY <4>1, <4>2, AccountedInPlace DEF Accounted
      <3>5. WritesWhilePending'
        BY <2>1, <3>1 DEF WritesWhilePending, isWriting
      <3> QED BY <1>1, <1>2, <3>1, <3>2, <3>3, <3>4, <3>5
    <2>2. CASE ~(isWriting /\ n > 0)
      <3>1. UNCHANGED <<inflight, wire, outputBuffer_, events_, pc>>
        BY <2>2 DEF handleWrite
      <3>2. Accounted' /\ WritesWhilePending'
        BY <1>1, <3>1 DEF IInv, Accounted, WritesWhilePending, isWriting
      <3> QED BY <1>1, <1>2, <3>1, <3>2
    <2> QED BY <2>1, <2>2
  <1>4. TypeOK'
    BY <1>1, <1>3 DEF IInv, TypeOK, Types, PhaseConsistent
  <1>5. QueueOrder'
    BY <1>1, <1>2 DEF QueueOrder
  <1>6. LoopPhase' /\ ClosePhase' /\ SafeUnlessRaced'
    BY <1>1, <1>2, <1>3 DEF IInv, LoopPhase, ClosePhase, SafeUnlessRaced
  <1> QED BY <1>3, <1>4, <1>5, <1>6 DEF IInv

(* The loop between the handlers, the end of a handler and the destructor:  *)
(* the connection itself does not change.                                   *)
LEMMA LoopInv ==
    ASSUME IInv, crash = "no",
           handleWriteReturns \/ poll \/ swapFunctors \/ functorsDone \/ destructs
    PROVE  IInv'
  <1>1. /\ functors \in Seq(F) /\ pendingFunctors_ \in Seq(F)
        /\ InOrder(functors, pendingFunctors_, entry, raced)
        /\ state_ = "kConnecitng" <=> entry = "none"
    BY Queues
  <1>2. /\ UNCHANGED <<state_, events_, entry, outputBuffer_, closed, crash>>
        /\ UNCHANGED <<tpc, tmsg, inflight, data, peer, sent, given, wire, overwritten, raced>>
        /\ wrShut' \in BOOLEAN
    <2> USE DEF connVars, threadVars, kernelVars, history
    <2>1. wrShut \in BOOLEAN
      BY DEF IInv, TypeOK, Types
    <2>2. CASE handleWriteReturns
      BY <2>1, <2>2 DEF handleWriteReturns, shutdonwInLoop, endStream
    <2>3. CASE poll \/ swapFunctors \/ functorsDone
      BY <2>1, <2>3 DEF poll, swapFunctors, functorsDone
    <2>4. CASE destructs
      BY <2>1, <2>4 DEF destructs
    <2> QED BY <2>2, <2>3, <2>4
  <1>3. WritesWhilePending' /\ Accounted' /\ SafeUnlessRaced' /\ ClosePhase'
    BY <1>2 DEF IInv, WritesWhilePending, isWriting, Accounted, SafeUnlessRaced, ClosePhase
  <1>4. CASE destructs
    <2>1. TypeOK'
      BY <1>2, <1>4 DEF destructs, loopVars, IInv, TypeOK, Types, PhaseConsistent
    <2>2. QueueOrder' /\ LoopPhase'
      BY <1>1, <1>2, <1>4 DEF destructs, loopVars, IInv, QueueOrder, LoopPhase
    <2> QED BY <1>3, <2>1, <2>2 DEF IInv
  <1>5. CASE handleWriteReturns \/ functorsDone
    <2>1. /\ pc \in {"complete", "run"} /\ pc' \in {"handle", "poll"}
          /\ functors = <<>> /\ revents = {} /\ alive' = alive
          /\ UNCHANGED <<revents, pendingFunctors_, functors>>
      BY <1>5 DEF handleWriteReturns, functorsDone, shutdonwInLoop, connVars, IInv, LoopPhase
    <2>2. TypeOK'
      BY <1>2, <2>1 DEF IInv, TypeOK, Types, PhaseConsistent
    <2>3. QueueOrder' /\ LoopPhase'
      BY <1>1, <1>2, <2>1 DEF IInv, QueueOrder, LoopPhase
    <2> QED BY <1>3, <2>2, <2>3 DEF IInv
  <1>6. CASE poll
    <2>1. /\ pc = "poll" /\ pc' = "handle" /\ alive' = alive
          /\ revents' = IF entry = "polled" THEN Ready \cap events_ ELSE {}
          /\ UNCHANGED <<pendingFunctors_, functors>>
      BY <1>6 DEF poll, connVars
    <2>2. revents' \in SUBSET {"IN", "OUT"} /\ ("IN" \in revents' => entry = "polled")
      BY <2>1 DEF IInv, TypeOK, Types
    <2>3. TypeOK'
      BY <1>2, <2>1, <2>2 DEF IInv, TypeOK, Types, PhaseConsistent
    <2>4. QueueOrder' /\ LoopPhase'
      BY <1>1, <1>2, <2>1, <2>2 DEF IInv, QueueOrder, LoopPhase
    <2> QED BY <1>3, <2>3, <2>4 DEF IInv
  <1>7. CASE swapFunctors
    <2>1. /\ pc = "handle" /\ revents = {} /\ state_ # "kConnecitng" /\ pc' = "run"
          /\ functors' = pendingFunctors_ /\ pendingFunctors_' = <<>>
          /\ revents' = revents /\ alive' = alive
      BY <1>7 DEF swapFunctors, connVars
    <2>2. TypeOK'
      <3>1. <<>> \in Seq(F)
        OBVIOUS
      <3> QED BY <1>1, <1>2, <2>1, <3>1 DEF IInv, TypeOK, Types, PhaseConsistent, F
    <2>3. QueueOrder'
      <3>1. Named(<<>>) /\ Ordered(<<>>, raced) /\ \A op : ~Has(<<>>, op)
        BY DEF Named, Ordered, Has
      <3>2. InOrder(pendingFunctors_, <<>>, entry, raced)
        BY <1>1, <3>1 DEF InOrder
      <3> QED BY <1>2, <2>1, <3>2 DEF QueueOrder
    <2>4. LoopPhase'
      BY <1>2, <2>1 DEF IInv, LoopPhase
    <2> QED BY <1>3, <2>2, <2>3, <2>4 DEF IInv
  <1> QED BY <1>4, <1>5, <1>6, <1>7

(* A functor runs.  The asserts, and the bare pointer of sendInLoop, fail   *)
(* only for somebody who was late.                                          *)
LEMMA RunFunctorInv ==
    ASSUME IInv, crash = "no", runFunctor
    PROVE  IInv'
  <1> DEFINE f == Head(functors)
             b == Tail(functors)
  <1>1. /\ functors \in Seq(F) /\ pendingFunctors_ \in Seq(F)
        /\ InOrder(functors, pendingFunctors_, entry, raced)
        /\ closed <=> entry \in {"ignored", "removed"}
        /\ state_ = "kConnecitng" <=> entry = "none"
        /\ raced \in BOOLEAN
    BY Queues
  <1>2. /\ pc = "run" /\ functors # <<>> /\ functors' = b /\ state_ # "kConnecitng"
        /\ UNCHANGED <<pc, revents, tpc, tmsg, sent, raced>>
        /\ revents = {}
    BY DEF runFunctor, threadVars, IInv, LoopPhase
  <1>3. /\ f \in F /\ b \in Seq(F)
        /\ InOrder(b, pendingFunctors_, entry, raced)
        /\ f.op = "sendInLoop" => f.msg \in Message /\ (entry = "removed" => raced)
        /\ f.op = "connectionDestroyed"
              => entry = "ignored" /\ InOrder(b, pendingFunctors_, "removed", raced)
    BY <1>1, <1>2, InOrderPop
  <1>4. \/ f.op = "sendInLoop" /\ alive /\ sendInLoop(f.msg)
        \/ /\ f.op = "sendInLoop" /\ ~alive /\ crash' = "destructed"
           /\ UNCHANGED <<state_, events_, entry, outputBuffer_, closed, alive,
                          pendingFunctors_, kernelVars, given, wire, overwritten>>
        \/ shutdonwInLoop /\ UNCHANGED pendingFunctors_
        \/ f.op = "connectionDestroyed" /\ connectionDestroyed
        \/ UNCHANGED <<connVars, pendingFunctors_, kernelVars, given, wire, overwritten>>
    BY DEF runFunctor
  <1> HIDE DEF f, b
  <1>5. CASE f.op = "sendInLoop" /\ alive /\ sendInLoop(f.msg)
    <2> DEFINE m == f.msg
    <2>1. m \in Message /\ sendInLoop(m)
      BY <1>3, <1>5
    <2> HIDE DEF m
    <2>2. /\ inflight' \in 0 .. SndBuf
          /\ wire' \in Seq(Cell) /\ given' \in Seq(Message \X Nat)
          /\ outputBuffer_' \in Seq(Cell) /\ overwritten' \in SUBSET Nat
          /\ events_' \in SUBSET {"IN", "OUT"}
          /\ crash' \in {"no", "updateChannel"}
          /\ crash' # "no" => entry = "removed"
          /\ \/ pendingFunctors_' = pendingFunctors_
             \/ pendingFunctors_' = Append(pendingFunctors_, FunctorOf("highWaterMark", None))
          /\ Accounted' /\ WritesWhilePending'
          /\ UNCHANGED <<state_, entry, closed, alive, wrShut, data, peer>>
      BY <2>1, SendEffect
    <2>3. InOrder(b, pendingFunctors_', entry, raced) /\ pendingFunctors_' \in Seq(F)
      BY <1>1, <1>3, <2>2, HighWaterOrder
    <2>4. TypeOK'
      BY <1>2, <1>3, <2>2, <2>3 DEF IInv, TypeOK, Types, PhaseConsistent, F
    <2>5. QueueOrder'
      BY <1>2, <2>2, <2>3 DEF QueueOrder
    <2>6. LoopPhase' /\ ClosePhase' /\ SafeUnlessRaced'
      BY <1>2, <1>3, <1>5, <2>2 DEF IInv, LoopPhase, ClosePhase, SafeUnlessRaced
    <2> QED BY <2>2, <2>4, <2>5, <2>6 DEF IInv
  <1>6. CASE /\ f.op = "sendInLoop" /\ ~alive /\ crash' = "destructed"
             /\ UNCHANGED <<state_, events_, entry, outputBuffer_, closed, alive,
                            pendingFunctors_, kernelVars, given, wire, overwritten>>
    <2>1. raced
      BY <1>3, <1>6 DEF IInv, TypeOK, PhaseConsistent
    <2>2. TypeOK'
      BY <1>2, <1>3, <1>6 DEF kernelVars, IInv, TypeOK, Types, PhaseConsistent, F
    <2>3. QueueOrder'
      BY <1>2, <1>3, <1>6 DEF QueueOrder
    <2>4. LoopPhase' /\ ClosePhase' /\ SafeUnlessRaced'
      BY <1>2, <1>6, <2>1 DEF IInv, LoopPhase, ClosePhase, SafeUnlessRaced
    <2>5. WritesWhilePending' /\ Accounted'
      BY <1>6 DEF IInv, WritesWhilePending, Accounted
    <2> QED BY <2>2, <2>3, <2>4, <2>5 DEF IInv
  <1>7. CASE \/ shutdonwInLoop /\ UNCHANGED pendingFunctors_
             \/ UNCHANGED <<connVars, pendingFunctors_, kernelVars, given, wire, overwritten>>
    <2>1. /\ UNCHANGED <<state_, events_, entry, outputBuffer_, closed, alive, crash,
                         pendingFunctors_, inflight, data, peer, given, wire, overwritten>>
          /\ wrShut' \in BOOLEAN
      BY <1>7 DEF shutdonwInLoop, endStream, connVars, kernelVars, IInv, TypeOK, Types
    <2>2. TypeOK'
      BY <1>2, <1>3, <2>1 DEF IInv, TypeOK, Types, PhaseConsistent, F
    <2>3. QueueOrder'
      BY <1>2, <1>3, <2>1 DEF QueueOrder
    <2>4. LoopPhase' /\ ClosePhase' /\ SafeUnlessRaced'
      BY <1>2, <2>1 DEF IInv, LoopPhase, ClosePhase, SafeUnlessRaced
    <2>5. WritesWhilePending' /\ Accounted'
      BY <2>1 DEF IInv, WritesWhilePending, isWriting, Accounted
    <2> QED BY <2>2, <2>3, <2>4, <2>5 DEF IInv
  <1>8. CASE f.op = "connectionDestroyed" /\ connectionDestroyed
    <2>1. /\ UNCHANGED <<outputBuffer_, closed, alive, pendingFunctors_, inflight, wrShut,
                         data, peer, given, wire, overwritten>>
          /\ entry = "ignored" /\ closed
      BY <1>1, <1>3, <1>8 DEF connectionDestroyed, kernelVars
    <2>2. CASE state_ = "kConnected"
      <3>1. state_' = "kDisconnected" /\ events_' = {} /\ entry' = "removed" /\ crash' = crash
        BY <1>8, <2>2 DEF connectionDestroyed
      <3>2. TypeOK'
        BY <1>2, <1>3, <2>1, <3>1 DEF IInv, TypeOK, Types, PhaseConsistent, F
      <3>3. QueueOrder'
        BY <1>2, <1>3, <1>8, <2>1, <3>1 DEF QueueOrder
      <3>4. LoopPhase' /\ ClosePhase' /\ SafeUnlessRaced'
        BY <1>2, <2>1, <3>1 DEF IInv, LoopPhase, ClosePhase, SafeUnlessRaced
      <3>5. WritesWhilePending' /\ Accounted'
        BY <2>1, <3>1 DEF IInv, WritesWhilePending, Accounted
      <3> QED BY <3>2, <3>3, <3>4, <3>5 DEF IInv
    <2>3. CASE state_ # "kConnected"
      <3>1. crash' = "connectionDestroyed" /\ UNCHANGED <<state_, events_, entry>>
        BY <1>8, <2>3 DEF connectionDestroyed
      <3>2. raced
        BY <2>1, <2>3 DEF IInv, ClosePhase
      <3>3. TypeOK'
        BY <1>2, <1>3, <2>1, <3>1 DEF IInv, TypeOK, Types, PhaseConsistent, F
      <3>4. QueueOrder'
        BY <1>2, <1>3, <2>1, <3>1 DEF QueueOrder
      <3>5. LoopPhase' /\ ClosePhase' /\ SafeUnlessRaced'
        BY <1>2, <2>1, <3>1, <3>2 DEF IInv, LoopPhase, ClosePhase, SafeUnlessRaced
      <3>6. WritesWhilePending' /\ Accounted'
        BY <2>1, <3>1 DEF IInv, WritesWhilePending, Accounted
      <3> QED BY <3>3, <3>4, <3>5, <3>6 DEF IInv
    <2> QED BY <2>2, <2>3
  <1> QED BY <1>4, <1>5, <1>6, <1>7, <1>8

LEMMA StepInv ==
    ASSUME IInv, [Next]_vars
    PROVE  IInv'
  <1>1. CASE UNCHANGED vars
    BY <1>1 DEF vars, connVars, loopVars, threadVars, kernelVars, history, IInv, TypeOK,
                Types, PhaseConsistent, WritesWhilePending, isWriting, Accounted,
                SafeUnlessRaced, QueueOrder, LoopPhase, ClosePhase
  <1>2. CASE Next
    <2>1. crash = "no"
      BY <1>2 DEF Next
    <2>2. CASE LoopStep
      BY <2>1, <2>2, EstablishedInv, HandleReadInv, HandleWriteInv, LoopInv, RunFunctorInv
         DEF LoopStep
    <2>3. CASE (\E m \in Message : loopSend(m)) \/ loopShutdown
      BY <2>1, <2>3, UserInv
    <2>4. ASSUME NEW t \in Thread,
                 \/ \E m \in Message : threadSends(t, m)
                 \/ threadShutsDown(t) \/ ThreadStep(t)
          PROVE  IInv'
      BY <2>1, <2>4, ThreadInv
    <2>5. CASE destructs
      BY <2>1, <2>5, LoopInv
    <2>6. CASE PeerStep
      BY <2>1, <2>6, PeerInv
    <2> QED BY <1>2, <2>2, <2>3, <2>4, <2>5, <2>6 DEF Next
  <1> QED BY <1>1, <1>2

-----------------------------------------------------------------------------
(* Sends: from the caller's thread to the output.                           *)

Sends(s, m) == \E i \in 1 .. Len(s) : s[i].op = "sendInLoop" /\ s[i].msg = m

HasGot(g, m) == \E i \in 1 .. Len(g) : g[i][1] = m

Kept(m) ==
    \/ HasGot(given, m)
    \/ Sends(functors, m) \/ Sends(pendingFunctors_, m)
    \/ \E t \in Thread : tpc[t] = "send" /\ tmsg[t] = m

(* A message passed to send has come to sendInLoop or is on its way.        *)
SendsKept == crash = "no" => \A m \in sent : Kept(m)

LEMMA SendsAppend ==
    ASSUME NEW s \in Seq(F), NEW f \in F, NEW m
    PROVE  Sends(Append(s, f), m) <=> Sends(s, m) \/ (f.op = "sendInLoop" /\ f.msg = m)
  <1>1. /\ Len(s) \in Nat /\ Len(Append(s, f)) = Len(s) + 1
        /\ \A i \in 1 .. Len(s) : Append(s, f)[i] = s[i]
        /\ Append(s, f)[Len(s) + 1] = f
    BY AppendProperties, LenProperties
  <1> DEFINE t == Append(s, f)
  <1> HIDE DEF t
  <1>2. Sends(t, m) <=> Sends(s, m) \/ (f.op = "sendInLoop" /\ f.msg = m)
    BY <1>1 DEF Sends, t
  <1> QED BY <1>2 DEF t

LEMMA SendsTail ==
    ASSUME NEW s \in Seq(F), s # <<>>, NEW m, Sends(s, m)
    PROVE  Sends(Tail(s), m) \/ (Head(s).op = "sendInLoop" /\ Head(s).msg = m)
  <1>1. /\ Len(s) \in Nat \ {0} /\ Head(s) = s[1] /\ Len(Tail(s)) = Len(s) - 1
        /\ \A i \in 1 .. Len(s) - 1 : Tail(s)[i] = s[i + 1]
    BY HeadTailProperties, LenProperties, EmptySeq
  <1>2. PICK i \in 1 .. Len(s) : s[i].op = "sendInLoop" /\ s[i].msg = m
    BY DEF Sends
  <1>3. CASE i = 1
    BY <1>1, <1>2, <1>3
  <1>4. CASE i # 1
    <2>1. i - 1 \in 1 .. Len(s) - 1 /\ (i - 1) + 1 = i
      BY <1>1, <1>4
    <2>2. i - 1 \in 1 .. Len(Tail(s)) /\ Tail(s)[i - 1] = s[i]
      BY <1>1, <2>1
    <2> QED BY <1>2, <2>2 DEF Sends
  <1> QED BY <1>3, <1>4

LEMMA GotMore ==
    ASSUME NEW g \in Seq(Message \X Nat), NEW k \in Message, NEW m, HasGot(g, m) \/ m = k
    PROVE  HasGot(g \o Cells(k), m)
  <1> DEFINE c == Cells(k)
             h == g \o c
  <1>1. /\ c \in Seq(Message \X Nat) /\ Len(c) = Size[k] /\ Size[k] \in Nat \ {0}
        /\ \A i \in 1 .. Size[k] : c[i][1] = k
    BY CellsOf
  <1> HIDE DEF c
  <1>2. /\ Len(h) = Len(g) + Len(c)
        /\ \A i \in 1 .. Len(g) : h[i] = g[i]
        /\ \A i \in 1 .. Len(c) : h[Len(g) + i] = c[i]
    <2>1. g \in Seq(Message \X Nat) /\ c \in Seq(Message \X Nat)
      BY <1>1
    <2> QED BY ONLY <2>1, ConcatAt
  <1> HIDE DEF h
  <1>3. Len(g) \in Nat
    BY LenProperties
  <1>4. CASE HasGot(g, m)
    <2>1. PICK i \in 1 .. Len(g) : g[i][1] = m
      BY <1>4 DEF HasGot
    <2>2. i \in 1 .. Len(h) /\ h[i] = g[i]
      BY <1>1, <1>2, <1>3
    <2> QED BY <2>1, <2>2 DEF HasGot, h, c
  <1>5. CASE m = k
    <2>1. 1 \in 1 .. Len(c) /\ c[1][1] = k
      BY <1>1
    <2>2. Len(g) + 1 \in 1 .. Len(h) /\ h[Len(g) + 1] = c[1]
      BY <1>1, <1>2, <1>3, <2>1
    <2> QED BY <1>5, <2>1, <2>2 DEF HasGot, h, c
  <1> QED BY <1>4, <1>5

(* A thread inside send queues the functor; the batch takes the queue over; *)
(* its front is given to sendInLoop.                                        *)
LEMMA KeptStep ==
    ASSUME IInv, SendsKept, [Next]_vars
    PROVE  SendsKept'
  <1>1. CASE UNCHANGED vars
    BY <1>1 DEF vars, connVars, loopVars, threadVars, history, SendsKept, Kept
  <1>2. CASE Next
    <2> SUFFICES ASSUME crash' = "no", NEW m \in sent' PROVE Kept(m)'
      BY DEF SendsKept
    <2>1. /\ crash = "no" /\ \A k \in sent : Kept(k)
          /\ functors \in Seq(F) /\ pendingFunctors_ \in Seq(F)
          /\ given \in Seq(Message \X Nat)
          /\ tpc \in [Thread -> {"idle", "send", "set", "shutdown"}]
          /\ tmsg \in [Thread -> Message \cup {None}]
          /\ pc # "run" => functors = <<>>
      BY <1>2, Queues DEF Next, SendsKept, IInv, TypeOK, Types, LoopPhase
    <2> DEFINE More == \/ pendingFunctors_' = pendingFunctors_
                       \/ \E f \in F : pendingFunctors_' = Append(pendingFunctors_, f)
    <2>2. ASSUME More, Sends(pendingFunctors_, m) PROVE Sends(pendingFunctors_', m)
      <3>1. CASE pendingFunctors_' = pendingFunctors_
        BY <2>2, <3>1
      <3>2. CASE \E f \in F : pendingFunctors_' = Append(pendingFunctors_, f)
        <4>1. PICK f \in F : pendingFunctors_' = Append(pendingFunctors_, f)
          BY <3>2
        <4>2. Sends(Append(pendingFunctors_, f), m)
          BY <2>1, <2>2, SendsAppend
        <4> QED BY <4>1, <4>2
      <3> QED BY <2>2, <3>1, <3>2
    <2>3. ASSUME More, m \in sent, UNCHANGED <<given, functors, tpc, tmsg>> PROVE Kept(m)'
      <3>1. Kept(m)
        BY <2>1, <2>3
      <3>2. Sends(pendingFunctors_, m) => Sends(pendingFunctors_', m)
        BY <2>3, <2>2
      <3> HIDE DEF More
      <3> QED BY <2>3, <3>1, <3>2 DEF Kept
    <2>4. ASSUME NEW op \in Op PROVE FunctorOf(op, None) \in F
      BY DEF F, FunctorOf
    <2>5. ASSUME NEW k \in Message, sendInLoop(k), HasGot(given, m) \/ m = k
          PROVE  HasGot(given', m)
      <3>1. given' = given \o Cells(k)
        BY <2>5 DEF sendInLoop
      <3> QED BY <2>1, <2>5, <3>1, GotMore
    <2>6. ASSUME NEW k \in Message, sendInLoop(k) PROVE More
      BY <2>1, <2>4, <2>6, SendEffect DEF Op
    <2>7. CASE runFunctor
      <3> DEFINE f == Head(functors)
      <3>1. /\ functors # <<>> /\ functors' = Tail(functors)
            /\ UNCHANGED <<tpc, tmsg>> /\ m \in sent
        BY <2>7 DEF runFunctor, threadVars
      <3>2. f.op = "sendInLoop" => f.msg \in Message
        BY <2>1, <3>1, Queues, InOrderPop
      <3>3. \A k : Sends(functors, k)
                      => Sends(functors', k) \/ (f.op = "sendInLoop" /\ f.msg = k)
        BY <2>1, <3>1, SendsTail
      <3>4. \/ f.op = "sendInLoop" /\ sendInLoop(f.msg)
            \/ f.op # "sendInLoop" /\ UNCHANGED <<given, pendingFunctors_>>
        BY <2>7 DEF runFunctor, shutdonwInLoop, connectionDestroyed
      <3> HIDE DEF f
      <3>5. CASE f.op = "sendInLoop" /\ sendInLoop(f.msg)
        <4>1. More
          BY <2>6, <3>2, <3>5
        <4>2. HasGot(given, m) \/ m = f.msg => HasGot(given', m)
          BY <2>5, <3>2, <3>5
        <4>3. Sends(pendingFunctors_, m) => Sends(pendingFunctors_', m)
          BY <2>2, <4>1
        <4> HIDE DEF More
        <4> QED BY <2>1, <3>1, <3>3, <4>2, <4>3 DEF Kept
      <3>6. CASE f.op # "sendInLoop" /\ UNCHANGED <<given, pendingFunctors_>>
        BY <2>1, <3>1, <3>3, <3>6 DEF Kept
      <3> QED BY <3>4, <3>5, <3>6
    <2>8. ASSUME NEW k \in Message, loopSend(k) PROVE Kept(m)'
      <3>1. /\ sendInLoop(k) /\ sent' = sent \cup {k} /\ UNCHANGED <<functors, tpc, tmsg>>
        BY <2>8 DEF loopSend, threadVars
      <3>2. HasGot(given, m) \/ m = k => HasGot(given', m)
        BY <2>5, <3>1
      <3>3. Sends(pendingFunctors_, m) => Sends(pendingFunctors_', m)
        BY <2>6, <2>2, <3>1
      <3> QED BY <2>1, <3>1, <3>2, <3>3 DEF Kept
    <2>9. ASSUME NEW t \in Thread, NEW k \in Message, threadSends(t, k) PROVE Kept(m)'
      <3>1. /\ tpc[t] = "idle" /\ sent' = sent \cup {k}
            /\ tpc' = [tpc EXCEPT ![t] = "send"] /\ tmsg' = [tmsg EXCEPT ![t] = k]
            /\ UNCHANGED <<functors, pendingFunctors_, given>>
        BY <2>9 DEF threadSends, loopVars
      <3> QED BY <2>1, <3>1 DEF Kept
    <2>10. ASSUME NEW t \in Thread, threadQueuesSend(t) PROVE Kept(m)'
      <3> DEFINE f == FunctorOf("sendInLoop", tmsg[t])
      <3>1. /\ tpc[t] = "send" /\ pendingFunctors_' = Append(pendingFunctors_, f)
            /\ tpc' = [tpc EXCEPT ![t] = "idle"] /\ tmsg' = [tmsg EXCEPT ![t] = None]
            /\ UNCHANGED <<functors, given>> /\ m \in sent
        BY <2>10 DEF threadQueuesSend
      <3>2. f \in F /\ f.op = "sendInLoop" /\ f.msg = tmsg[t]
        BY <2>1 DEF F, FunctorOf, Op
      <3> HIDE DEF f
      <3>3. Sends(pendingFunctors_, m) \/ m = tmsg[t] => Sends(pendingFunctors_', m)
        BY <2>1, <3>1, <3>2, SendsAppend
      <3> QED BY <2>1, <3>1, <3>3 DEF Kept
    <2>11. ASSUME NEW t \in Thread,
                  threadShutsDown(t) \/ threadSetsState(t) \/ threadQueuesShutdown(t)
           PROVE  Kept(m)'
      <3>1. /\ tpc[t] # "send" /\ \E v \in {"set", "shutdown", "idle"} :
                                     tpc' = [tpc EXCEPT ![t] = v]
            /\ UNCHANGED <<tmsg, functors, given>> /\ m \in sent
        BY <2>11 DEF threadShutsDown, threadSetsState, threadQueuesShutdown, loopVars, history
      <3>2. Sends(pendingFunctors_, m) => Sends(pendingFunctors_', m)
        <4>1. More
          BY <2>4, <2>11
             DEF threadShutsDown, threadSetsState, threadQueuesShutdown, loopVars, Op
        <4> QED BY <2>2, <4>1
      <3> QED BY <2>1, <3>1, <3>2 DEF Kept
    <2>12. CASE swapFunctors
      <3>1. /\ functors = <<>> /\ functors' = pendingFunctors_ /\ m \in sent
            /\ UNCHANGED <<given, tpc, tmsg>>
        BY <2>1, <2>12 DEF swapFunctors, threadVars, history
      <3>2. ~Sends(functors, m)
        BY <3>1 DEF Sends
      <3> QED BY <2>1, <3>1, <3>2 DEF Kept
    <2>13. CASE handleRead
      <3>1. UNCHANGED <<given, functors, tpc, tmsg>> /\ m \in sent
        BY <2>13 DEF handleRead, threadVars, history
      <3>2. More
        BY <2>4, <2>13 DEF handleRead, handleClose, Op
      <3> QED BY <2>3, <3>1, <3>2
    <2>14. CASE \/ connectionEstablished \/ handleWrite \/ handleWriteReturns \/ poll
                \/ functorsDone \/ loopShutdown \/ destructs \/ PeerStep
      <3>1. UNCHANGED <<given, functors, pendingFunctors_, tpc, tmsg>> /\ m \in sent
        <4> USE DEF connVars, loopVars, threadVars, kernelVars, history
        <4>1. CASE connectionEstablished \/ handleWrite
          BY <4>1 DEF connectionEstablished, handleWrite
        <4>2. CASE handleWriteReturns \/ poll \/ functorsDone \/ loopShutdown
          BY <4>2 DEF handleWriteReturns, shutdonwInLoop, poll, functorsDone, loopShutdown
        <4>3. CASE destructs \/ PeerStep
          BY <4>3 DEF destructs, PeerStep, peerReads, peerSends, peerFinishes, peerResets
        <4> QED BY <2>14, <4>1, <4>2, <4>3
      <3> QED BY <2>3, <3>1
    <2> HIDE DEF More
    <2> QED BY <1>2, <2>7, <2>8, <2>9, <2>10, <2>11, <2>12, <2>13, <2>14
            DEF Next, LoopStep, ThreadStep
  <1> QED BY <1>1, <1>2

-----------------------------------------------------------------------------
(* The end of the stream.                                                   *)

(* Whoever ends the stream of an open connection finds nothing waiting.     *)
LEMMA EndFindsNothing ==
    ASSUME IInv, crash = "no", ~closed, ~isWriting
    PROVE  outputBuffer_ = <<>>
  <1>1. entry \in {"none", "polled"}
    BY DEF IInv, TypeOK, Types, PhaseConsistent, ClosePhase
  <1> QED BY <1>1 DEF IInv, TypeOK, PhaseConsistent, LoopPhase, WritesWhilePending

LEMMA KeptMeans ==
    ASSUME IInv, SendsKept, crash = "no"
    PROVE  sent \subseteq Given \cup Underway
  <1>1. ASSUME NEW s \in Seq(F), NEW m, Sends(s, m) PROVE m \in Carried(s)
    <2>1. DOMAIN s = 1 .. Len(s)
      BY LenProperties
    <2> QED BY <1>1, <2>1 DEF Sends, Carried
  <1>2. ASSUME NEW m, HasGot(given, m) PROVE m \in Given
    <2>1. DOMAIN given = 1 .. Len(given)
      BY LenProperties DEF IInv, TypeOK, Types
    <2> QED BY <1>2, <2>1 DEF HasGot, Given
  <1> QED BY <1>1, <1>2, Queues DEF SendsKept, Kept, Underway

(* SHUT_WR is only done by endStream, which writes nothing.                 *)
LEMMA EndedBy ==
    ASSUME [Next]_vars, wrShut' # wrShut
    PROVE  crash = "no" /\ endStream
  <1> USE DEF connVars, loopVars, threadVars, kernelVars, history
  <1>1. Next
    BY DEF vars
  <1>2. CASE LoopStep
    <2>1. ~connectionEstablished /\ ~poll /\ ~swapFunctors /\ ~functorsDone
      BY DEF connectionEstablished, poll, swapFunctors, functorsDone
    <2>2. ~handleRead /\ ~handleWrite
      BY DEF handleRead, handleWrite
    <2>3. CASE handleWriteReturns
      BY <1>1, <2>3 DEF Next, handleWriteReturns, shutdonwInLoop
    <2>4. CASE runFunctor
      BY <1>1, <2>4 DEF Next, runFunctor, sendInLoop, shutdonwInLoop, connectionDestroyed
    <2> QED BY <1>2, <2>1, <2>2, <2>3, <2>4 DEF LoopStep
  <1>3. CASE loopShutdown
    BY <1>1, <1>3 DEF Next, loopShutdown
  <1>4. \A m \in Message : ~loopSend(m)
    BY DEF loopSend, sendInLoop
  <1>5. \A t \in Thread : /\ \A m \in Message : ~threadSends(t, m)
                          /\ ~threadShutsDown(t) /\ ~ThreadStep(t)
    BY DEF threadSends, threadShutsDown, ThreadStep, threadQueuesSend, threadSetsState,
           threadQueuesShutdown
  <1>6. ~destructs /\ ~PeerStep
    BY DEF destructs, PeerStep, peerReads, peerSends, peerFinishes, peerResets
  <1> QED BY <1>1, <1>2, <1>3, <1>4, <1>5, <1>6 DEF Next

-----------------------------------------------------------------------------
(* The theorems.                                                            *)

(* The invariant holds whatever the users, the peer and the loop do in      *)
(* whatever order, until an assert fails.                                   *)
THEOREM Invariance == Spec => []IInv
  <1>1. Init => IInv
    BY InitInv
  <1>2. IInv /\ [Next]_vars => IInv'
    BY StepInv
  <1> QED BY <1>1, <1>2, PTL DEF Spec

(* The types, and the phases of a connection: in the Poller from            *)
(* connectionEstablished to connectionDestroyed, reported until handleClose.*)
THEOREM TypeCorrect == Spec => []TypeOK
  <1>1. IInv => TypeOK
    BY DEF IInv
  <1> QED BY <1>1, Invariance, PTL

(* The Channel watches for room to write exactly while output waits.        *)
THEOREM WatchesWhilePending == Spec => []WritesWhilePending
  <1>1. IInv => WritesWhilePending
    BY DEF IInv
  <1> QED BY <1>1, Invariance, PTL

(* Every cell given to sendInLoop keeps its place, on the wire or behind it *)
(* in the buffer, but for the places that append to waiting cells spoilt.   *)
THEOREM OutputAccounted == Spec => []Accounted
  <1>1. IInv => Accounted
    BY DEF IInv
  <1> QED BY <1>1, Invariance, PTL

(* No order of sends, shutdowns, reads, writes and destructions fails an    *)
(* assert or uses a destructed connection, unless a user's call took effect *)
(* after handleClose.                                                       *)
THEOREM OnlyRacesCrash == Spec => []SafeUnlessRaced
  <1>1. IInv => SafeUnlessRaced
    BY DEF IInv
  <1> QED BY <1>1, Invariance, PTL

(* No send is lost between its thread and sendInLoop, while the program     *)
(* runs. (send, sendInLoop, the functors of the loop)                       *)
THEOREM EverySendKept == Spec => []SendsKept
  <1>1. Init => SendsKept
    BY DEF Init, SendsKept
  <1>2. IInv /\ SendsKept /\ [Next]_vars => SendsKept'
    BY KeptStep
  <1> QED BY <1>1, <1>2, Invariance, PTL DEF Spec

(* shutdown, shutdonwInLoop and handleWrite end the stream of an open       *)
(* connection only when nothing waits in its output buffer, and what was    *)
(* sent before has then been given to sendInLoop, or is another thread's    *)
(* send that has not come there yet.                                        *)
THEOREM StreamEndsAfterOutput == Spec => EndsAfterOutput
  <1> DEFINE Ends == wrShut' /\ ~wrShut /\ ~closed
                        => outputBuffer_ = <<>> /\ sent \subseteq Given \cup Underway
  <1>1. IInv /\ SendsKept /\ [Next]_vars => [Ends]_vars
    <2> SUFFICES ASSUME IInv, SendsKept, [Next]_vars, wrShut', ~wrShut, ~closed
                 PROVE  outputBuffer_ = <<>> /\ sent \subseteq Given \cup Underway
      OBVIOUS
    <2>1. crash = "no" /\ endStream
      BY EndedBy
    <2>2. ~isWriting
      BY <2>1 DEF endStream
    <2> QED BY <2>1, <2>2, EndFindsNothing, KeptMeans
  <1>2. [][Ends]_vars => EndsAfterOutput
    BY DEF EndsAfterOutput
  <1> HIDE DEF Ends
  <1> QED BY <1>1, <1>2, Invariance, EverySendKept, PTL DEF Spec
=============================================================================
