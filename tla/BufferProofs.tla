---------------------------- MODULE BufferProofs -----------------------------
(***************************************************************************)
(* Proofs about Buffer for every gap, initial size and length of call.     *)
(*                                                                         *)
(* What append does to the indexes and the bytes is stated once            *)
(* (EnsureEnoughSpaceFacts, AppendAtFacts), by cases on whether the bytes  *)
(* fit, are moved down, or need a longer vector; append and readFd follow  *)
(* from it.  The inductive invariant joins the types with the count and,   *)
(* index by index, with the bytes of BufferView; that the vector never gets *)
(* shorter than the gap is what retrieveAll needs.                          *)
(***************************************************************************)
EXTENDS Buffer, TLAPS

Matches == \A i \in 1 .. writerIndex_ - readerIndex_ :
              seen[i] \in {Stale, buffer_[readerIndex_ + i]}

IInv ==
    /\ TypeOK
    /\ kCheapPrepend <= Len(buffer_)
    /\ Len(stored) = writerIndex_ - readerIndex_
    /\ Len(seen) = writerIndex_ - readerIndex_
    /\ Matches

View == Byte \cup {Stale}

-----------------------------------------------------------------------------
(* Operators.                                                               *)

(* What callers pass is a sequence of bytes.                                *)
LEMMA ChunkIsSeq == ASSUME NEW str \in Chunk PROVE str \in Seq(Byte)
BY BufferAssumption DEF Chunk

(* The length and the elements of a concatenation.                          *)
LEMMA ConcatFacts ==
    ASSUME NEW S, NEW s \in Seq(S), NEW t \in Seq(S)
    PROVE  /\ s \o t \in Seq(S)
           /\ Len(s \o t) = Len(s) + Len(t)
           /\ \A i \in 1 .. Len(s) + Len(t) :
                 (s \o t)[i] = IF i <= Len(s) THEN s[i] ELSE t[i - Len(s)]
OBVIOUS

(* std::copy keeps the length of the vector and changes what it covers.     *)
LEMMA CopiedFacts ==
    ASSUME NEW mem \in Seq(Cell), NEW at \in Nat, NEW str \in Seq(Cell)
    PROVE  /\ Copied(mem, at, str) \in Seq(Cell)
           /\ Len(Copied(mem, at, str)) = Len(mem)
           /\ \A i \in 1 .. Len(mem) :
                 Copied(mem, at, str)[i] = IF i \in at + 1 .. at + Len(str)
                                           THEN str[i - at] ELSE mem[i]
<1>1. Len(mem) \in Nat /\ Len(str) \in Nat
  OBVIOUS
<1>2. ASSUME NEW i \in 1 .. Len(mem)
      PROVE  (IF i \in at + 1 .. at + Len(str) THEN str[i - at] ELSE mem[i]) \in Cell
  <2>1. CASE i \in at + 1 .. at + Len(str)
    <3>1. i - at \in 1 .. Len(str)
      BY <1>1, <2>1
    <3> QED  BY <2>1, <3>1
  <2>2. CASE i \notin at + 1 .. at + Len(str)
    BY <2>2
  <2> QED  BY <2>1, <2>2
<1>3. Copied(mem, at, str) \in [1 .. Len(mem) -> Cell]
  BY <1>2 DEF Copied
<1>4. Copied(mem, at, str) \in Seq(Cell)
  BY <1>1, <1>3
<1>5. Len(Copied(mem, at, str)) = Len(mem)
  BY <1>1, <1>3
<1> QED  BY <1>4, <1>5 DEF Copied

(* Whether room was there, made by moving or made by growing, the readable  *)
(* bytes are the same and there is room behind them.                        *)
LEMMA EnsureEnoughSpaceFacts ==
    ASSUME NEW mem \in Seq(Cell), NEW writer \in Nat, NEW len \in Nat,
           readerIndex_ \in Nat, readerIndex_ <= writer, writer <= Len(mem)
    PROVE  LET room == ensureEnoughSpace(mem, writer, len)
           IN  /\ room.mem \in Seq(Cell)
               /\ room.reader \in Nat /\ room.writer \in Nat
               /\ room.writer - room.reader = writer - readerIndex_
               /\ room.writer + len <= Len(room.mem)
               /\ \A i \in 1 .. writer - readerIndex_ :
                     room.mem[room.reader + i] = mem[readerIndex_ + i]
               /\ Len(room.mem) >= Len(mem)
               /\ Len(room.mem) > Len(mem)
                     => kCheapPrepend + (writer - readerIndex_) + len > Len(mem)
<1> DEFINE room == ensureEnoughSpace(mem, writer, len)
<1>1. kCheapPrepend \in Nat /\ Len(mem) \in Nat
  BY BufferAssumption
<1>2. CASE Fits(mem, writer, len)
  <2>1. room = [mem |-> mem, reader |-> readerIndex_, writer |-> writer]
    BY <1>2 DEF ensureEnoughSpace
  <2> QED  BY <1>1, <1>2, <2>1 DEF Fits
<1>3. CASE ~Fits(mem, writer, len) /\ Roomy(mem, writer, len)
  <2> DEFINE bytes == SubSeq(mem, readerIndex_ + 1, writer)
             moved == Copied(mem, kCheapPrepend, bytes)
  <2>1. room = [mem    |-> moved,
                reader |-> kCheapPrepend,
                writer |-> kCheapPrepend + (writer - readerIndex_)]
    BY <1>3 DEF ensureEnoughSpace, MovedDown
  <2>2. kCheapPrepend < readerIndex_
    BY <1>1, <1>3 DEF Fits, Roomy
  <2>3. /\ bytes \in Seq(Cell) /\ Len(bytes) = writer - readerIndex_
        /\ \A i \in 1 .. writer - readerIndex_ : bytes[i] = mem[readerIndex_ + i]
    BY <1>1
  <2> HIDE DEF bytes
  <2>4. /\ moved \in Seq(Cell) /\ Len(moved) = Len(mem)
        /\ \A i \in 1 .. Len(mem) :
              moved[i] = IF i \in kCheapPrepend + 1 .. kCheapPrepend + Len(bytes)
                         THEN bytes[i - kCheapPrepend] ELSE mem[i]
    BY <1>1, <2>3, CopiedFacts
  <2> HIDE DEF moved
  <2>5. ASSUME NEW i \in 1 .. writer - readerIndex_
        PROVE  moved[kCheapPrepend + i] = mem[readerIndex_ + i]
    <3>1. /\ kCheapPrepend + i \in 1 .. Len(mem)
          /\ kCheapPrepend + i \in kCheapPrepend + 1 .. kCheapPrepend + Len(bytes)
          /\ (kCheapPrepend + i) - kCheapPrepend = i
      BY <1>1, <2>2, <2>3
    <3> QED  BY <2>3, <2>4, <3>1
  <2>6. kCheapPrepend + (writer - readerIndex_) + len <= Len(moved)
    BY <1>1, <1>3, <2>4 DEF Roomy
  <2> QED  BY <1>1, <2>1, <2>4, <2>5, <2>6
<1>4. CASE ~Fits(mem, writer, len) /\ ~Roomy(mem, writer, len)
  <2> DEFINE more == Zeros(writer + len - Len(mem))
  <2>1. room = [mem |-> mem \o more, reader |-> readerIndex_, writer |-> writer]
    BY <1>4 DEF ensureEnoughSpace, Grown
  <2>2. writer + len - Len(mem) \in Nat
    BY <1>1, <1>4 DEF Fits
  <2>3. more \in Seq(Cell) /\ Len(more) = writer + len - Len(mem)
    BY <2>2 DEF Zeros, Cell
  <2> HIDE DEF more
  <2>4. /\ mem \o more \in Seq(Cell) /\ Len(mem \o more) = writer + len
        /\ \A i \in 1 .. Len(mem) : (mem \o more)[i] = mem[i]
    BY <1>1, <2>3
  <2>5. ASSUME NEW i \in 1 .. writer - readerIndex_
        PROVE  (mem \o more)[readerIndex_ + i] = mem[readerIndex_ + i]
    BY <1>1, <2>4
  <2>6. kCheapPrepend + (writer - readerIndex_) + len > Len(mem)
    BY <1>1, <1>4 DEF Roomy
  <2> QED  BY <1>1, <1>4, <2>1, <2>2, <2>4, <2>5, <2>6
<1> QED  BY <1>2, <1>3, <1>4

(* append changes the indexes as if it wrote behind the writer, and the     *)
(* bytes as BufferView says.                                                *)
LEMMA AppendAtFacts ==
    ASSUME NEW mem \in Seq(Cell), NEW writer \in Nat, NEW str \in Seq(Byte),
           readerIndex_ \in Nat, readerIndex_ <= writer, writer <= Len(mem),
           appendAt(mem, writer, str)
    PROVE  /\ buffer_' \in Seq(Cell)
           /\ readerIndex_' \in Nat /\ writerIndex_' \in Nat
           /\ readerIndex_' <= writerIndex_' /\ writerIndex_' <= Len(buffer_')
           /\ writerIndex_' - readerIndex_' = writer - readerIndex_ + Len(str)
           /\ \A i \in 1 .. Len(str) : buffer_'[readerIndex_' + i] = str[i]
           /\ \A i \in Len(str) + 1 .. writer - readerIndex_ :
                 buffer_'[readerIndex_' + i] = mem[readerIndex_ + i]
           /\ Len(buffer_') >= Len(mem)
           /\ Len(buffer_') > Len(mem)
                 => kCheapPrepend + (writer - readerIndex_) + Len(str) > Len(mem)
<1> DEFINE room == ensureEnoughSpace(mem, writer, Len(str))
           M == room.mem
           R == room.reader
           W == room.writer
<1>1. /\ buffer_' = Copied(M, R, str)
      /\ readerIndex_' = R
      /\ writerIndex_' = W + Len(str)
  BY DEF appendAt, CopiedTo
<1>2. Len(str) \in Nat /\ str \in Seq(Cell)
  BY DEF Cell
<1>3. /\ M \in Seq(Cell)
      /\ R \in Nat /\ W \in Nat
      /\ W - R = writer - readerIndex_
      /\ W + Len(str) <= Len(M)
      /\ \A i \in 1 .. writer - readerIndex_ :
            M[R + i] = mem[readerIndex_ + i]
      /\ Len(M) >= Len(mem)
      /\ Len(M) > Len(mem)
            => kCheapPrepend + (writer - readerIndex_) + Len(str) > Len(mem)
  BY <1>2, EnsureEnoughSpaceFacts
<1> HIDE DEF room, M, R, W
<1>4. /\ buffer_' \in Seq(Cell) /\ Len(buffer_') = Len(M)
      /\ \A i \in 1 .. Len(M) :
            buffer_'[i] = IF i \in R + 1 .. R + Len(str)
                          THEN str[i - R] ELSE M[i]
  BY <1>1, <1>2, <1>3, CopiedFacts
<1>5. Len(mem) \in Nat /\ Len(M) \in Nat
  BY <1>3
<1>6. ASSUME NEW i \in 1 .. Len(str)
      PROVE  buffer_'[readerIndex_' + i] = str[i]
  <2>1. /\ R + i \in 1 .. Len(M)
        /\ R + i \in R + 1 .. R + Len(str)
        /\ (R + i) - R = i
    BY <1>2, <1>3, <1>5
  <2> QED  BY <1>1, <1>4, <2>1
<1>7. ASSUME NEW i \in Len(str) + 1 .. writer - readerIndex_
      PROVE  buffer_'[readerIndex_' + i] = mem[readerIndex_ + i]
  <2>1. /\ R + i \in 1 .. Len(M)
        /\ R + i \notin R + 1 .. R + Len(str)
        /\ i \in 1 .. writer - readerIndex_
    BY <1>2, <1>3, <1>5
  <2> QED  BY <1>1, <1>3, <1>4, <2>1
<1>8. /\ readerIndex_' \in Nat /\ writerIndex_' \in Nat
      /\ readerIndex_' <= writerIndex_' /\ writerIndex_' <= Len(buffer_')
      /\ writerIndex_' - readerIndex_' = writer - readerIndex_ + Len(str)
  BY <1>1, <1>2, <1>3, <1>4, <1>5
<1>9. /\ Len(buffer_') >= Len(mem)
      /\ Len(buffer_') > Len(mem)
            => kCheapPrepend + (writer - readerIndex_) + Len(str) > Len(mem)
  BY <1>3, <1>4
<1> QED  BY <1>4, <1>6, <1>7, <1>8, <1>9

(* What a reader sees when append writes at the reader.                     *)
LEMMA AppendedFacts ==
    ASSUME NEW bytes \in Seq(View), NEW more \in Seq(View)
    PROVE  /\ Appended(bytes, more) \in Seq(View)
           /\ Len(Appended(bytes, more)) = Len(bytes) + Len(more)
           /\ \A i \in 1 .. Len(bytes) + Len(more) :
                 Appended(bytes, more)[i] =
                    IF i <= Len(more) THEN more[i]
                    ELSE IF i <= Len(bytes) THEN bytes[i] ELSE Stale
<1>1. Len(bytes) \in Nat /\ Len(more) \in Nat
  OBVIOUS
<1> DEFINE at(i) == IF i <= Len(more) THEN more[i]
                    ELSE IF i <= Len(bytes) THEN bytes[i] ELSE Stale
<1>2. Appended(bytes, more) = [i \in 1 .. Len(bytes) + Len(more) |-> at(i)]
  BY <1>1 DEF Appended
<1>3. ASSUME NEW i \in 1 .. Len(bytes) + Len(more) PROVE at(i) \in View
  BY <1>1 DEF View
<1>4. \A i \in 1 .. Len(bytes) + Len(more) : at(i) \in View
  BY <1>3
<1> QED
  <2> HIDE DEF at
  <2>1. Appended(bytes, more) \in [1 .. Len(bytes) + Len(more) -> View]
    BY <1>2, <1>4
  <2>2. /\ Appended(bytes, more) \in Seq(View)
        /\ Len(Appended(bytes, more)) = Len(bytes) + Len(more)
    BY <1>1, <2>1
  <2>3. \A i \in 1 .. Len(bytes) + Len(more) : Appended(bytes, more)[i] = at(i)
    BY <1>2
  <2> QED  BY <2>2, <2>3 DEF at

-----------------------------------------------------------------------------
(* The inductive invariant.                                                 *)

(* The constructor establishes the invariant.                               *)
LEMMA InitInvariant == Init => IInv
<1> SUFFICES ASSUME Init PROVE IInv
  OBVIOUS
<1>1. kCheapPrepend + kInitialSize \in Nat /\ kCheapPrepend \in Nat /\ kInitialSize \in Nat
  BY BufferAssumption
<1>2. buffer_ \in Seq(Cell) /\ Len(buffer_) = kCheapPrepend + kInitialSize
  BY <1>1 DEF Init, Zeros, Cell
<1> QED  BY <1>1, <1>2 DEF Init, IInv, TypeOK, Matches

(* append, at any place readFd or the caller has reached: the invariant     *)
(* with mem, writer and view for the vector, the writer and what is seen.   *)
LEMMA AppendInvariant ==
    ASSUME NEW mem \in Seq(Cell), NEW writer \in Nat, NEW str \in Seq(Byte),
           NEW view \in Seq(View),
           readerIndex_ \in Nat, readerIndex_ <= writer, writer <= Len(mem),
           kCheapPrepend <= Len(mem),
           Len(view) = writer - readerIndex_,
           \A i \in 1 .. Len(view) : view[i] \in {Stale, mem[readerIndex_ + i]},
           appendAt(mem, writer, str),
           seen' = Appended(view, str),
           stored' \in Seq(Byte),
           Len(stored') = writer - readerIndex_ + Len(str)
    PROVE  IInv'
<1>1. /\ buffer_' \in Seq(Cell)
      /\ readerIndex_' \in Nat /\ writerIndex_' \in Nat
      /\ readerIndex_' <= writerIndex_' /\ writerIndex_' <= Len(buffer_')
      /\ writerIndex_' - readerIndex_' = writer - readerIndex_ + Len(str)
      /\ \A i \in 1 .. Len(str) : buffer_'[readerIndex_' + i] = str[i]
      /\ \A i \in Len(str) + 1 .. writer - readerIndex_ :
            buffer_'[readerIndex_' + i] = mem[readerIndex_ + i]
      /\ Len(buffer_') >= Len(mem)
  BY AppendAtFacts
<1>2. str \in Seq(View) /\ Len(str) \in Nat /\ Len(view) \in Nat
  BY DEF View
<1>3. /\ seen' \in Seq(View)
      /\ Len(seen') = Len(view) + Len(str)
      /\ \A i \in 1 .. Len(view) + Len(str) :
            seen'[i] = IF i <= Len(str) THEN str[i]
                       ELSE IF i <= Len(view) THEN view[i] ELSE Stale
  BY <1>2, AppendedFacts
<1>4. ASSUME NEW i \in 1 .. writerIndex_' - readerIndex_'
      PROVE  seen'[i] \in {Stale, buffer_'[readerIndex_' + i]}
  <2>1. i \in 1 .. Len(view) + Len(str)
    BY <1>1
  <2>2. CASE i <= Len(str)
    <3>1. i \in 1 .. Len(str)
      BY <1>2, <2>1, <2>2
    <3>2. seen'[i] = str[i] /\ buffer_'[readerIndex_' + i] = str[i]
      BY <1>1, <1>3, <2>1, <2>2, <3>1
    <3> QED  BY <3>2
  <2>3. CASE i > Len(str) /\ i <= Len(view)
    <3>1. i \in Len(str) + 1 .. writer - readerIndex_ /\ i \in 1 .. Len(view)
      BY <1>2, <2>1, <2>3
    <3>2. seen'[i] = view[i]
      BY <1>2, <1>3, <2>1, <2>3
    <3>3. buffer_'[readerIndex_' + i] = mem[readerIndex_ + i]
      BY <1>1, <3>1
    <3>4. view[i] \in {Stale, mem[readerIndex_ + i]}
      BY <3>1
    <3> QED  BY <3>2, <3>3, <3>4
  <2>4. CASE i > Len(str) /\ i > Len(view)
    <3>1. seen'[i] = Stale
      BY <1>2, <1>3, <2>1, <2>4
    <3> QED  BY <3>1
  <2> QED  BY <1>2, <2>1, <2>2, <2>3, <2>4
<1>5. TypeOK'
  BY <1>1, <1>3 DEF TypeOK, View
<1>6. Len(stored') = writerIndex_' - readerIndex_' /\ Len(seen') = writerIndex_' - readerIndex_'
  BY <1>1, <1>3
<1>7. kCheapPrepend <= Len(buffer_')
  <2>1. kCheapPrepend \in Nat /\ Len(mem) \in Nat /\ Len(buffer_') \in Nat
    BY <1>1, BufferAssumption
  <2> QED  BY <1>1, <2>1
<1> QED  BY <1>4, <1>5, <1>6, <1>7 DEF IInv, Matches

(* append keeps the invariant.                                              *)
LEMMA AppendStep ==
    ASSUME IInv, NEW str \in Seq(Byte), append(str) PROVE IInv'
<1>1. /\ buffer_ \in Seq(Cell) /\ readerIndex_ \in Nat /\ writerIndex_ \in Nat
      /\ readerIndex_ <= writerIndex_ /\ writerIndex_ <= Len(buffer_)
      /\ kCheapPrepend <= Len(buffer_)
      /\ stored \in Seq(Byte) /\ seen \in Seq(View)
      /\ Len(stored) = writerIndex_ - readerIndex_
      /\ Len(seen) = writerIndex_ - readerIndex_
      /\ \A i \in 1 .. Len(seen) : seen[i] \in {Stale, buffer_[readerIndex_ + i]}
  BY DEF IInv, TypeOK, Matches, View
<1>2. /\ appendAt(buffer_, writerIndex_, str)
      /\ seen' = Appended(seen, str)
      /\ stored' = stored \o str
  BY DEF append
<1>3. stored' \in Seq(Byte) /\ Len(stored') = writerIndex_ - readerIndex_ + Len(str)
  <2>1. /\ stored \o str \in Seq(Byte)
        /\ Len(stored \o str) = Len(stored) + Len(str)
    BY <1>1, ConcatFacts
  <2> QED  BY <1>1, <1>2, <2>1
<1> QED  BY <1>1, <1>2, <1>3, AppendInvariant

(* readFd keeps it, in the room behind the writer and past it.              *)
LEMMA ReadFdStep ==
    ASSUME IInv, NEW str \in Seq(Byte), readFd(str) PROVE IInv'
<1> DEFINE here  == SubSeq(str, 1, writableBytes)
           extra == SubSeq(str, writableBytes + 1, Len(str))
<1>0. \A i \in 1 .. writerIndex_ - readerIndex_ :
         seen[i] \in {Stale, buffer_[readerIndex_ + i]}
  BY DEF IInv, Matches
<1>1. /\ buffer_ \in Seq(Cell) /\ readerIndex_ \in Nat /\ writerIndex_ \in Nat
      /\ readerIndex_ <= writerIndex_ /\ writerIndex_ <= Len(buffer_)
      /\ kCheapPrepend <= Len(buffer_)
      /\ stored \in Seq(Byte) /\ seen \in Seq(View)
      /\ Len(stored) = writerIndex_ - readerIndex_
      /\ Len(seen) = writerIndex_ - readerIndex_
      /\ Len(buffer_) \in Nat
      /\ writableBytes \in Nat /\ writableBytes = Len(buffer_) - writerIndex_
  BY DEF IInv, TypeOK, View, writableBytes
<1>2. str \in Seq(Cell) /\ str \in Seq(View) /\ Len(str) \in Nat
  BY DEF Cell, View
<1>3. stored' = stored \o str
  BY DEF readFd
<1>4. stored' \in Seq(Byte) /\ Len(stored') = writerIndex_ - readerIndex_ + Len(str)
  <2>1. /\ stored \o str \in Seq(Byte)
        /\ Len(stored \o str) = Len(stored) + Len(str)
    BY <1>1, ConcatFacts
  <2> QED  BY <1>1, <1>3, <2>1
<1>5. CASE Len(str) <= writableBytes
  <2>1. /\ buffer_' = Copied(buffer_, writerIndex_, str)
        /\ writerIndex_' = writerIndex_ + Len(str)
        /\ readerIndex_' = readerIndex_
        /\ seen' = seen \o str
    BY <1>5 DEF readFd
  <2>2. /\ buffer_' \in Seq(Cell) /\ Len(buffer_') = Len(buffer_)
        /\ \A i \in 1 .. Len(buffer_) :
              buffer_'[i] = IF i \in writerIndex_ + 1 .. writerIndex_ + Len(str)
                            THEN str[i - writerIndex_] ELSE buffer_[i]
    <3>1. buffer_ \in Seq(Cell) /\ writerIndex_ \in Nat
      BY <1>1
    <3> QED  BY <1>2, <2>1, <3>1, CopiedFacts
  <2>3. /\ seen' \in Seq(View) /\ Len(seen') = Len(seen) + Len(str)
        /\ \A i \in 1 .. Len(seen) + Len(str) :
              seen'[i] = IF i <= Len(seen) THEN seen[i] ELSE str[i - Len(seen)]
    <3>1. seen \in Seq(View)
      BY <1>1
    <3> QED  BY <1>2, <2>1, <3>1, ConcatFacts
  <2>4. ASSUME NEW i \in 1 .. writerIndex_' - readerIndex_'
        PROVE  seen'[i] \in {Stale, buffer_'[readerIndex_' + i]}
    <3>1. /\ i \in 1 .. Len(seen) + Len(str)
          /\ readerIndex_ + i \in 1 .. Len(buffer_)
      BY <1>1, <1>2, <1>5, <2>1
    <3>2. CASE i <= Len(seen)
      <4>1. /\ i \in 1 .. writerIndex_ - readerIndex_
            /\ readerIndex_ + i \notin writerIndex_ + 1 .. writerIndex_ + Len(str)
        BY <1>1, <1>2, <3>1, <3>2
      <4>2. seen'[i] = seen[i] /\ buffer_'[readerIndex_ + i] = buffer_[readerIndex_ + i]
        BY <2>2, <2>3, <3>1, <3>2, <4>1
      <4> QED  BY <1>0, <2>1, <4>1, <4>2
    <3>3. CASE i > Len(seen)
      <4>1. /\ readerIndex_ + i \in writerIndex_ + 1 .. writerIndex_ + Len(str)
            /\ (readerIndex_ + i) - writerIndex_ = i - Len(seen)
        BY <1>1, <1>2, <3>1, <3>3
      <4>2. buffer_'[readerIndex_ + i] = str[i - Len(seen)]
        BY <2>2, <3>1, <4>1
      <4>3. seen'[i] = str[i - Len(seen)]
        BY <1>1, <2>3, <3>1, <3>3
      <4> QED  BY <2>1, <4>2, <4>3
    <3> QED  BY <1>1, <3>1, <3>2, <3>3
  <2>5. TypeOK'
    <3>1. /\ readerIndex_' \in Nat /\ writerIndex_' \in Nat
          /\ readerIndex_' <= writerIndex_' /\ writerIndex_' <= Len(buffer_')
      BY <1>1, <1>2, <1>5, <2>1, <2>2
    <3> QED  BY <1>4, <2>2, <2>3, <3>1 DEF TypeOK, View
  <2>6. Len(stored') = writerIndex_' - readerIndex_' /\ Len(seen') = writerIndex_' - readerIndex_'
    BY <1>1, <1>2, <1>4, <2>1, <2>3
  <2> QED  BY <1>1, <2>2, <2>4, <2>5, <2>6 DEF IInv, Matches
<1>6. CASE Len(str) > writableBytes
  <2> DEFINE mem  == Copied(buffer_, writerIndex_, here)
             view == seen \o here
  <2>1. appendAt(mem, Len(buffer_), extra) /\ seen' = Appended(view, extra)
    BY <1>1, <1>2, <1>6 DEF readFd
  <2>2. /\ here \in Seq(Byte) /\ Len(here) = Len(buffer_) - writerIndex_
        /\ extra \in Seq(Byte) /\ Len(extra) = Len(str) - (Len(buffer_) - writerIndex_)
    BY <1>1, <1>2, <1>6
  <2> HIDE DEF here, extra
  <2>3. here \in Seq(Cell) /\ here \in Seq(View)
    BY <2>2 DEF Cell, View
  <2>4. /\ mem \in Seq(Cell) /\ Len(mem) = Len(buffer_)
        /\ \A i \in 1 .. Len(buffer_) :
              mem[i] = IF i \in writerIndex_ + 1 .. writerIndex_ + Len(here)
                       THEN here[i - writerIndex_] ELSE buffer_[i]
    <3>1. buffer_ \in Seq(Cell) /\ writerIndex_ \in Nat
      BY <1>1
    <3> QED  BY <2>3, <3>1, CopiedFacts
  <2>5. /\ view \in Seq(View) /\ Len(view) = Len(seen) + Len(here)
        /\ \A i \in 1 .. Len(seen) + Len(here) :
              view[i] = IF i <= Len(seen) THEN seen[i] ELSE here[i - Len(seen)]
    <3>1. seen \in Seq(View)
      BY <1>1
    <3> QED  BY <2>3, <3>1, ConcatFacts
  <2> HIDE DEF mem, view
  <2>6. Len(view) = Len(buffer_) - readerIndex_
    BY <1>1, <2>2, <2>5
  <2>7. ASSUME NEW i \in 1 .. Len(view)
        PROVE  view[i] \in {Stale, mem[readerIndex_ + i]}
    <3>1. /\ i \in 1 .. Len(seen) + Len(here)
          /\ readerIndex_ + i \in 1 .. Len(buffer_)
      <4>1. /\ Len(seen) \in Nat /\ Len(here) \in Nat /\ readerIndex_ \in Nat
            /\ Len(buffer_) \in Nat /\ writerIndex_ \in Nat
        BY <1>1, <2>2
      <4> QED  BY <2>5, <2>6, <4>1
    <3>2. CASE i <= Len(seen)
      <4>1. /\ i \in 1 .. writerIndex_ - readerIndex_
            /\ readerIndex_ + i \notin writerIndex_ + 1 .. writerIndex_ + Len(here)
        BY <1>1, <2>2, <3>1, <3>2
      <4>2. view[i] = seen[i] /\ mem[readerIndex_ + i] = buffer_[readerIndex_ + i]
        BY <2>4, <2>5, <3>1, <3>2, <4>1
      <4> QED  BY <1>0, <4>1, <4>2
    <3>3. CASE i > Len(seen)
      <4>1. /\ readerIndex_ + i \in writerIndex_ + 1 .. writerIndex_ + Len(here)
            /\ (readerIndex_ + i) - writerIndex_ = i - Len(seen)
        BY <1>1, <2>2, <3>1, <3>3
      <4>2. mem[readerIndex_ + i] = here[i - Len(seen)]
        BY <2>4, <3>1, <4>1
      <4>3. view[i] = here[i - Len(seen)]
        BY <1>1, <2>5, <3>1, <3>3
      <4> QED  BY <4>2, <4>3
    <3> QED  BY <1>1, <3>1, <3>2, <3>3
  <2>8. Len(stored') = Len(buffer_) - readerIndex_ + Len(extra)
    BY <1>1, <1>2, <1>4, <2>2
  <2>9. /\ readerIndex_ <= Len(buffer_) /\ Len(buffer_) <= Len(mem)
        /\ kCheapPrepend <= Len(mem)
    BY <1>1, <2>4
  <2> QED  BY <1>1, <1>4, <2>1, <2>2, <2>4, <2>5, <2>6, <2>7, <2>8, <2>9, AppendInvariant
<1> QED  BY <1>1, <1>2, <1>5, <1>6

(* retrive keeps it.                                                        *)
LEMMA RetriveStep ==
    ASSUME IInv, NEW len \in Nat, retrive(len) PROVE IInv'
<1>0. \A i \in 1 .. writerIndex_ - readerIndex_ :
         seen[i] \in {Stale, buffer_[readerIndex_ + i]}
  BY DEF IInv, Matches
<1>1. /\ buffer_ \in Seq(Cell) /\ readerIndex_ \in Nat /\ writerIndex_ \in Nat
      /\ readerIndex_ <= writerIndex_ /\ writerIndex_ <= Len(buffer_)
      /\ kCheapPrepend <= Len(buffer_)
      /\ stored \in Seq(Byte) /\ seen \in Seq(View)
      /\ Len(stored) = writerIndex_ - readerIndex_
      /\ Len(seen) = writerIndex_ - readerIndex_
  BY DEF IInv, TypeOK, View
<1>2. /\ len <= writerIndex_ - readerIndex_
      /\ readerIndex_' = readerIndex_ + len
      /\ stored' = SubSeq(stored, len + 1, Len(stored))
      /\ seen' = SubSeq(seen, len + 1, Len(seen))
      /\ buffer_' = buffer_ /\ writerIndex_' = writerIndex_
  BY DEF retrive, readableBytes
<1>3. stored' \in Seq(Byte) /\ Len(stored') = Len(stored) - len
  BY <1>1, <1>2
<1>4. /\ seen' \in Seq(View) /\ Len(seen') = Len(seen) - len
      /\ \A i \in 1 .. Len(seen) - len : seen'[i] = seen[len + i]
  BY <1>1, <1>2
<1>5. ASSUME NEW i \in 1 .. writerIndex_' - readerIndex_'
      PROVE  seen'[i] \in {Stale, buffer_'[readerIndex_' + i]}
  <2>1. /\ i \in 1 .. Len(seen) - len
        /\ len + i \in 1 .. writerIndex_ - readerIndex_
        /\ readerIndex_' + i = readerIndex_ + (len + i)
    BY <1>1, <1>2
  <2> QED  BY <1>0, <1>2, <1>4, <2>1
<1>6. TypeOK'
  <2>1. /\ readerIndex_' \in Nat /\ writerIndex_' \in Nat
        /\ readerIndex_' <= writerIndex_' /\ writerIndex_' <= Len(buffer_')
    BY <1>1, <1>2
  <2> QED  BY <1>1, <1>2, <1>3, <1>4, <2>1 DEF TypeOK, View
<1>7. Len(stored') = writerIndex_' - readerIndex_' /\ Len(seen') = writerIndex_' - readerIndex_'
  BY <1>1, <1>2, <1>3, <1>4
<1> QED  BY <1>1, <1>2, <1>5, <1>6, <1>7 DEF IInv, Matches

(* retrieveAll keeps it.                                                    *)
LEMMA RetrieveAllStep ==
    ASSUME IInv, retrieveAll PROVE IInv'
<1>1. kCheapPrepend \in Nat /\ kCheapPrepend <= Len(buffer_)
  BY BufferAssumption DEF IInv
<1>2. TypeOK'
  BY <1>1 DEF IInv, TypeOK, retrieveAll
<1>3. /\ buffer_' = buffer_ /\ stored' = <<>> /\ seen' = <<>>
      /\ readerIndex_' = kCheapPrepend /\ writerIndex_' = kCheapPrepend
  BY DEF retrieveAll
<1> QED  BY <1>1, <1>2, <1>3 DEF IInv, Matches

(* prepend keeps it.                                                        *)
LEMMA PrependStep ==
    ASSUME IInv, NEW data \in Seq(Byte), prepend(data) PROVE IInv'
<1>0. \A i \in 1 .. writerIndex_ - readerIndex_ :
         seen[i] \in {Stale, buffer_[readerIndex_ + i]}
  BY DEF IInv, Matches
<1>1. /\ buffer_ \in Seq(Cell) /\ readerIndex_ \in Nat /\ writerIndex_ \in Nat
      /\ readerIndex_ <= writerIndex_ /\ writerIndex_ <= Len(buffer_)
      /\ kCheapPrepend <= Len(buffer_)
      /\ stored \in Seq(Byte) /\ seen \in Seq(View)
      /\ Len(stored) = writerIndex_ - readerIndex_
      /\ Len(seen) = writerIndex_ - readerIndex_
      /\ Len(buffer_) \in Nat
  BY DEF IInv, TypeOK, View
<1>2. data \in Seq(Cell) /\ data \in Seq(View) /\ Len(data) \in Nat
  BY DEF Cell, View
<1>3. /\ Len(data) <= readerIndex_
      /\ readerIndex_' = readerIndex_ - Len(data)
      /\ buffer_' = Copied(buffer_, readerIndex_', data)
      /\ stored' = data \o stored
      /\ seen' = data \o seen
      /\ writerIndex_' = writerIndex_
  BY DEF prepend, prependableBytes
<1>4. readerIndex_' \in Nat
  BY <1>1, <1>2, <1>3
<1>5. /\ buffer_' \in Seq(Cell) /\ Len(buffer_') = Len(buffer_)
      /\ \A i \in 1 .. Len(buffer_) :
            buffer_'[i] = IF i \in readerIndex_' + 1 .. readerIndex_' + Len(data)
                          THEN data[i - readerIndex_'] ELSE buffer_[i]
  <2>1. buffer_ \in Seq(Cell) /\ data \in Seq(Cell)
    BY <1>1, <1>2
  <2>2. buffer_' = Copied(buffer_, readerIndex_', data)
    BY <1>3
  <2> DEFINE r == readerIndex_'
             c == Copied(buffer_, r, data)
  <2>3. r \in Nat
    BY <1>4
  <2> HIDE DEF r
  <2>4. /\ c \in Seq(Cell) /\ Len(c) = Len(buffer_)
        /\ \A i \in 1 .. Len(buffer_) :
              c[i] = IF i \in r + 1 .. r + Len(data) THEN data[i - r] ELSE buffer_[i]
    BY <2>1, <2>3, CopiedFacts
  <2> HIDE DEF c
  <2>5. buffer_' = c
    BY <2>2 DEF c, r
  <2> QED  BY <2>4, <2>5 DEF r
<1>6. stored' \in Seq(Byte) /\ Len(stored') = Len(data) + Len(stored)
  BY <1>1, <1>3, ConcatFacts
<1>7. /\ seen' \in Seq(View) /\ Len(seen') = Len(data) + Len(seen)
      /\ \A i \in 1 .. Len(data) + Len(seen) :
            seen'[i] = IF i <= Len(data) THEN data[i] ELSE seen[i - Len(data)]
  BY <1>1, <1>2, <1>3, ConcatFacts
<1>8. ASSUME NEW i \in 1 .. writerIndex_' - readerIndex_'
      PROVE  seen'[i] \in {Stale, buffer_'[readerIndex_' + i]}
  <2>1. /\ i \in 1 .. Len(data) + Len(seen)
        /\ readerIndex_' + i \in 1 .. Len(buffer_)
    BY <1>1, <1>2, <1>3
  <2>2. CASE i <= Len(data)
    <3>1. /\ readerIndex_' + i \in readerIndex_' + 1 .. readerIndex_' + Len(data)
          /\ (readerIndex_' + i) - readerIndex_' = i
      BY <1>1, <1>2, <1>3, <1>4, <2>1, <2>2
    <3> QED  BY <1>5, <1>7, <2>1, <2>2, <3>1
  <2>3. CASE i > Len(data)
    <3>1. /\ readerIndex_' + i \notin readerIndex_' + 1 .. readerIndex_' + Len(data)
          /\ i - Len(data) \in 1 .. writerIndex_ - readerIndex_
          /\ readerIndex_ + (i - Len(data)) = readerIndex_' + i
      BY <1>1, <1>2, <1>3, <2>1, <2>3
    <3>2. seen'[i] = seen[i - Len(data)]
      BY <1>2, <1>7, <2>1, <2>3
    <3>3. buffer_'[readerIndex_' + i] = buffer_[readerIndex_' + i]
      BY <1>5, <2>1, <3>1
    <3> QED  BY <1>0, <3>1, <3>2, <3>3
  <2> QED  BY <1>2, <2>1, <2>2, <2>3
<1>9. TypeOK'
  <2>1. readerIndex_' <= writerIndex_' /\ writerIndex_' <= Len(buffer_') /\ writerIndex_' \in Nat
    BY <1>1, <1>2, <1>3, <1>5
  <2> QED  BY <1>4, <1>5, <1>6, <1>7, <2>1 DEF TypeOK, View
<1>10. Len(stored') = writerIndex_' - readerIndex_' /\ Len(seen') = writerIndex_' - readerIndex_'
  BY <1>1, <1>2, <1>3, <1>6, <1>7
<1> QED  BY <1>1, <1>5, <1>8, <1>9, <1>10 DEF IInv, Matches

(* Every operation keeps it.                                                *)
LEMMA NextInvariant == IInv /\ [Next]_vars => IInv'
<1> SUFFICES ASSUME IInv, [Next]_vars PROVE IInv'
  OBVIOUS
<1>1. ASSUME NEW str \in Chunk, append(str) PROVE IInv'
  BY <1>1, ChunkIsSeq, AppendStep
<1>2. ASSUME NEW str \in Chunk, readFd(str) PROVE IInv'
  BY <1>2, ChunkIsSeq, ReadFdStep
<1>3. ASSUME NEW str \in Chunk, prepend(str) PROVE IInv'
  BY <1>3, ChunkIsSeq, PrependStep
<1>4. ASSUME NEW len \in 1 .. MaxStored, retrive(len) PROVE IInv'
  <2>1. len \in Nat
    BY BufferAssumption
  <2> QED  BY <1>4, <2>1, RetriveStep
<1>5. CASE retrieveAll
  BY <1>5, RetrieveAllStep
<1>6. CASE UNCHANGED vars
  BY <1>6 DEF vars, IInv, TypeOK, Matches
<1> QED  BY <1>1, <1>2, <1>3, <1>4, <1>5, <1>6 DEF Next

(* The invariant holds in every reachable state.                            *)
LEMMA Invariance == Spec => []IInv
BY InitInvariant, NextInvariant, PTL DEF Spec

-----------------------------------------------------------------------------
(* The theorems.                                                            *)

(* The indexes stay in order and inside the vector, whatever is appended,   *)
(* read, taken out and prepended. (append, readFd, retrive, prepend)        *)
THEOREM TypeSafety == Spec => []TypeOK
<1>1. IInv => TypeOK
  BY DEF IInv
<1> QED  BY <1>1, Invariance, PTL

(* There is as much to read as was put in and not taken out. (makeSpace,    *)
(* readFd)                                                                  *)
THEOREM CountSafety == Spec => []CountRight
<1>1. IInv => CountRight
  BY DEF IInv, TypeOK, CountRight, readableBytes
<1> QED  BY <1>1, Invariance, PTL

(* A Buffer implements BufferView: the moves, the growth and the second     *)
(* buffer of readFd never show in what is read. (append, makeSpace, readFd) *)
THEOREM ContentSafety == Spec => []ContentRight
<1>1. IInv => ContentRight
  <2> SUFFICES ASSUME IInv PROVE ContentRight
    OBVIOUS
  <2>1. /\ buffer_ \in Seq(Cell) /\ readerIndex_ \in Nat /\ writerIndex_ \in Nat
        /\ readerIndex_ <= writerIndex_ /\ writerIndex_ <= Len(buffer_)
        /\ seen \in Seq(View) /\ Len(seen) = writerIndex_ - readerIndex_
    BY DEF IInv, TypeOK, View
  <2>2. /\ Len(Readable) = writerIndex_ - readerIndex_
        /\ \A i \in 1 .. writerIndex_ - readerIndex_ : Readable[i] = buffer_[readerIndex_ + i]
    BY <2>1 DEF Readable
  <2>3. \A i \in 1 .. writerIndex_ - readerIndex_ :
           seen[i] \in {Stale, buffer_[readerIndex_ + i]}
    BY DEF IInv, Matches
  <2>4. DOMAIN seen = 1 .. writerIndex_ - readerIndex_
    BY <2>1
  <2> HIDE DEF Readable
  <2> QED  BY <2>1, <2>2, <2>3, <2>4 DEF ContentRight
<1> QED  BY <1>1, Invariance, PTL

(* makeSpace's assert holds. (Buffer.h:155)                                 *)
THEOREM MovesDownSafety == Spec => []MovesDown
<1>1. IInv => MovesDown
  BY BufferAssumption DEF IInv, TypeOK, MovesDown, Fits, Roomy, MakeSpaceAsserts
<1> QED  BY <1>1, Invariance, PTL

(* The vector grows only for bytes that would not fit without the gap, and  *)
(* never shrinks. (makeSpace)                                               *)
THEOREM GrowthSafety == Spec => GrowsOnlyWhenFull
<1> DEFINE Growth == /\ Len(buffer_') >= Len(buffer_)
                     /\ Len(buffer_') > Len(buffer_)
                           => kCheapPrepend + Len(stored') > Len(buffer_)
<1>1. ASSUME IInv, [Next]_vars PROVE [Growth]_vars
  <2>1. /\ buffer_ \in Seq(Cell) /\ readerIndex_ \in Nat /\ writerIndex_ \in Nat
        /\ readerIndex_ <= writerIndex_ /\ writerIndex_ <= Len(buffer_)
        /\ stored \in Seq(Byte) /\ Len(stored) = writerIndex_ - readerIndex_
        /\ Len(buffer_) \in Nat
    BY <1>1 DEF IInv, TypeOK
  <2>2. ASSUME NEW str \in Seq(Byte), append(str) PROVE Growth
    <3>1. /\ Len(buffer_') >= Len(buffer_)
          /\ Len(buffer_') > Len(buffer_)
                => kCheapPrepend + (writerIndex_ - readerIndex_) + Len(str) > Len(buffer_)
      BY <2>1, <2>2, AppendAtFacts DEF append
    <3>2. Len(stored') = Len(stored) + Len(str) /\ Len(str) \in Nat
      BY <2>1, <2>2, ConcatFacts DEF append
    <3> QED  BY <2>1, <3>1, <3>2, BufferAssumption
  <2>3. ASSUME NEW str \in Seq(Byte), readFd(str) PROVE Growth
    <3> DEFINE here  == SubSeq(str, 1, writableBytes)
               extra == SubSeq(str, writableBytes + 1, Len(str))
               mem   == Copied(buffer_, writerIndex_, here)
    <3>1. writableBytes \in Nat /\ writableBytes = Len(buffer_) - writerIndex_
      BY <2>1 DEF writableBytes
    <3>2. str \in Seq(Cell) /\ Len(str) \in Nat
      BY DEF Cell
    <3>3. Len(stored') = Len(stored) + Len(str)
      BY <2>1, <2>3, ConcatFacts DEF readFd
    <3>4. CASE Len(str) <= writableBytes
      BY <2>1, <2>3, <3>2, <3>4, CopiedFacts DEF readFd
    <3>5. CASE Len(str) > writableBytes
      <4>1. appendAt(mem, Len(buffer_), extra)
        BY <2>3, <3>1, <3>2, <3>5 DEF readFd
      <4>2. /\ here \in Seq(Cell)
            /\ extra \in Seq(Byte) /\ Len(extra) = Len(str) - writableBytes
        BY <3>1, <3>2, <3>5
      <4> HIDE DEF here, extra
      <4>3. mem \in Seq(Cell) /\ Len(mem) = Len(buffer_)
        BY <2>1, <4>2, CopiedFacts
      <4> HIDE DEF mem
      <4>4. readerIndex_ <= Len(buffer_) /\ Len(buffer_) <= Len(mem)
        BY <2>1, <4>3
      <4>5. /\ Len(buffer_') >= Len(mem)
            /\ Len(buffer_') > Len(mem)
                  => kCheapPrepend + (Len(buffer_) - readerIndex_) + Len(extra) > Len(mem)
        BY <2>1, <4>1, <4>2, <4>3, <4>4, AppendAtFacts
      <4> QED  BY <2>1, <3>1, <3>2, <3>3, <4>2, <4>3, <4>5, BufferAssumption
    <3> QED  BY <3>1, <3>2, <3>4, <3>5
  <2>4. ASSUME NEW data \in Seq(Byte), prepend(data) PROVE Growth
    <3>1. data \in Seq(Cell) /\ readerIndex_' \in Nat
      BY <2>1, <2>4 DEF Cell, prepend, prependableBytes
    <3>2. Len(buffer_') = Len(buffer_)
      BY <2>1, <2>4, <3>1, CopiedFacts DEF prepend
    <3> QED  BY <2>1, <3>2
  <2>5. ASSUME NEW str \in Chunk, append(str) \/ readFd(str) \/ prepend(str) PROVE Growth
    BY <2>2, <2>3, <2>4, <2>5, ChunkIsSeq
  <2>6. ASSUME NEW len \in 1 .. MaxStored, retrive(len) PROVE Growth
    BY <2>1, <2>6 DEF retrive
  <2>7. CASE retrieveAll
    BY <2>1, <2>7 DEF retrieveAll
  <2> QED  BY <1>1, <2>5, <2>6, <2>7 DEF Next
<1>2. IInv /\ [Next]_vars => [Growth]_vars
  BY <1>1
<1> QED  BY <1>2, Invariance, PTL DEF Spec, GrowsOnlyWhenFull
=============================================================================
