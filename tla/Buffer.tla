------------------------------- MODULE Buffer -------------------------------
(***************************************************************************)
(* RN::Buffer: a vector of bytes with a gap in front, what can be read in  *)
(* the middle and room to write behind.  Appending makes room by moving    *)
(* the readable bytes to the front or by growing the vector, and reading   *)
(* from a descriptor continues in a second buffer when the room runs out.  *)
(*                                                                         *)
(* A Buffer belongs to one connection and is used on its loop thread only. *)
(***************************************************************************)
EXTENDS BufferView

CONSTANTS Byte,          \* the bytes callers put in
          Zero,          \* what vector<char>::resize fills with
          kCheapPrepend, \* 8 in the code
          kInitialSize,  \* 1024 in the code
          MaxLen,        \* bound: bytes in one call
          MaxStored      \* bound: bytes stored and not yet taken out

ASSUME BufferAssumption ==
    /\ Zero \notin Byte /\ Stale \notin Byte
    /\ kCheapPrepend \in Nat /\ kInitialSize \in Nat
    /\ MaxLen \in Nat /\ MaxStored \in Nat

VARIABLES
    buffer_,      \* the vector
    readerIndex_, \* both counted from 0 as in the code
    writerIndex_,
    stored,       \* history: what was put in and not yet taken out
    seen          \* history: what BufferView lets a reader see of it

vars == <<buffer_, readerIndex_, writerIndex_, stored, seen>>

Cell    == Byte \cup {Zero}
Chunk   == UNION {[1 .. n -> Byte] : n \in 1 .. MaxLen}
Zeros(n) == [i \in 1 .. n |-> Zero]

readableBytes    == writerIndex_ - readerIndex_
prependableBytes == readerIndex_
writableBytes    == Len(buffer_) - writerIndex_
Readable         == SubSeq(buffer_, readerIndex_ + 1, writerIndex_)

TypeOK ==
    /\ buffer_ \in Seq(Cell)
    /\ readerIndex_ \in Nat /\ writerIndex_ \in Nat
    /\ readerIndex_ <= writerIndex_ /\ writerIndex_ <= Len(buffer_)
    /\ stored \in Seq(Byte)
    /\ seen \in Seq(Byte \cup {Stale})

Init ==
    /\ buffer_ = Zeros(kCheapPrepend + kInitialSize)
    /\ readerIndex_ = kCheapPrepend
    /\ writerIndex_ = kCheapPrepend
    /\ stored = <<>>
    /\ seen = <<>>

-----------------------------------------------------------------------------
(* std::copy of str to position at of the vector mem.                       *)
Copied(mem, at, str) ==
    [i \in 1 .. Len(mem) |-> IF i \in at + 1 .. at + Len(str) THEN str[i - at] ELSE mem[i]]

(* What makeSpace leaves, as [mem, reader, writer], when the vector is mem  *)
(* and the writer is at writer: the readable bytes moved down to the gap,   *)
(* or a longer vector.                                                      *)
MakeSpaceAsserts == kCheapPrepend < readerIndex_

(* Mutation: the indexes are moved and the bytes are not.                   *)
MovedIndexesOnly(mem, writer) ==
    [mem    |-> mem,
     reader |-> kCheapPrepend,
     writer |-> kCheapPrepend + (writer - readerIndex_)]

MovedDown(mem, writer) ==
    [mem    |-> Copied(mem, kCheapPrepend, SubSeq(mem, readerIndex_ + 1, writer)),
     reader |-> kCheapPrepend,
     writer |-> kCheapPrepend + (writer - readerIndex_)]

Grown(mem, writer, len) ==
    [mem    |-> mem \o Zeros(writer + len - Len(mem)),
     reader |-> readerIndex_,
     writer |-> writer]

Fits(mem, writer, len)  == Len(mem) - writer >= len

Roomy(mem, writer, len) == (Len(mem) - writer) + readerIndex_ >= len + kCheapPrepend

ensureEnoughSpace(mem, writer, len) ==
    IF Fits(mem, writer, len)
    THEN [mem |-> mem, reader |-> readerIndex_, writer |-> writer]
    ELSE IF Roomy(mem, writer, len) THEN MovedDown(mem, writer) ELSE Grown(mem, writer, len)

(* append writes over the bytes at the reader, not behind the writer.       *)
CopiedTo(room) == room.reader

appendAt(mem, writer, str) ==
    LET room == ensureEnoughSpace(mem, writer, Len(str))
    IN  /\ buffer_' = Copied(room.mem, CopiedTo(room), str)
        /\ readerIndex_' = room.reader
        /\ writerIndex_' = room.writer + Len(str)

-----------------------------------------------------------------------------
(* The operations.                                                          *)

append(str) ==
    /\ appendAt(buffer_, writerIndex_, str)
    /\ stored' = stored \o str
    /\ seen' = Appended(seen, str)

(* readv into the room behind the writer and then into a second buffer,     *)
(* whose bytes are appended.                                                *)
readFd(str) ==
    LET writeable == writableBytes
        here      == SubSeq(str, 1, writeable)
        extra     == SubSeq(str, writeable + 1, Len(str))
    IN  /\ IF Len(str) <= writeable
           THEN /\ buffer_' = Copied(buffer_, writerIndex_, str)
                /\ writerIndex_' = writerIndex_ + Len(str)
                /\ seen' = seen \o str
                /\ UNCHANGED readerIndex_
           ELSE /\ appendAt(Copied(buffer_, writerIndex_, here), Len(buffer_), extra)
                /\ seen' = Appended(seen \o here, extra)
        /\ stored' = stored \o str

(* Mutation: no check against what is readable.                             *)
RetriveUnchecked(len) ==
    /\ readerIndex_' = readerIndex_ + len
    /\ stored' = SubSeq(stored, len + 1, Len(stored))
    /\ seen' = SubSeq(seen, len + 1, Len(seen))
    /\ UNCHANGED <<buffer_, writerIndex_>>

(* retirveUtil is the same with a pointer for a length.                     *)
retrive(len) ==
    /\ len <= readableBytes
    /\ readerIndex_' = readerIndex_ + len
    /\ stored' = SubSeq(stored, len + 1, Len(stored))
    /\ seen' = SubSeq(seen, len + 1, Len(seen))
    /\ UNCHANGED <<buffer_, writerIndex_>>

retrieveAll ==
    /\ writerIndex_' = kCheapPrepend
    /\ readerIndex_' = kCheapPrepend
    /\ stored' = <<>>
    /\ seen' = <<>>
    /\ UNCHANGED buffer_

prepend(data) ==
    /\ Len(data) <= prependableBytes
    /\ readerIndex_' = readerIndex_ - Len(data)
    /\ buffer_' = Copied(buffer_, readerIndex_', data)
    /\ stored' = data \o stored
    /\ seen' = data \o seen
    /\ UNCHANGED writerIndex_

Next ==
    \/ \E str \in Chunk : /\ Len(stored) + Len(str) <= MaxStored
                          /\ append(str) \/ readFd(str) \/ prepend(str)
    \/ \E len \in 1 .. MaxStored : retrive(len)
    \/ retrieveAll

Spec == Init /\ [][Next]_vars

-----------------------------------------------------------------------------
(* Properties.                                                              *)

(* However the readable bytes are moved and the vector grown, there are as  *)
(* many of them as were put in and not taken out. (makeSpace, readFd)       *)
CountRight == readableBytes = Len(stored)

(* What is read is what BufferView says: moving down, growing and the       *)
(* second buffer of readFd never show.  Appending to a drained buffer       *)
(* therefore loses nothing, and appending to any other writes over the      *)
(* oldest bytes in it and over no others. (append, makeSpace, readFd)       *)
ContentRight ==
    /\ Len(Readable) = Len(seen)
    /\ \A i \in DOMAIN seen : seen[i] \in {Stale, Readable[i]}

(* makeSpace's assert holds whenever it is reached: the bytes it moves down *)
(* do move down. (Buffer.h:155)                                             *)
MovesDown ==
    \A len \in 1 .. MaxLen :
        /\ ~Fits(buffer_, writerIndex_, len) /\ Roomy(buffer_, writerIndex_, len)
              => MakeSpaceAsserts
        /\ ~Fits(buffer_, Len(buffer_), len) /\ Roomy(buffer_, Len(buffer_), len)
              => MakeSpaceAsserts

(* The vector grows only when the bytes would not fit with the gap in       *)
(* front, and never shrinks. (makeSpace)                                    *)
GrowsOnlyWhenFull ==
    [][/\ Len(buffer_') >= Len(buffer_)
       /\ Len(buffer_') > Len(buffer_)
             => kCheapPrepend + Len(stored') > Len(buffer_)]_vars

(* What is read is what was put in (testConnection.cpp:17-18 sends a second *)
(* message while the first may still be waiting).                           *)
ReadsBack == Readable = stored
=============================================================================
