------------------------------ MODULE BufferView -----------------------------
(***************************************************************************)
(* What a reader of a RN::Buffer sees, without the vector it is kept in:   *)
(* Buffer is shown to give this view, TcpConnection is built on it.        *)
(***************************************************************************)
EXTENDS Integers, Sequences

CONSTANT Stale   \* a byte nobody put in: memory the writer has passed

(* The readable bytes after Buffer::append, which copies over the bytes at  *)
(* the reader and then moves the writer.                                    *)
Appended(bytes, more) ==
    [i \in 1 .. Len(bytes) + Len(more) |->
        CASE i <= Len(more) -> more[i]
          [] i > Len(more) /\ i <= Len(bytes) -> bytes[i]
          [] OTHER -> Stale]
=============================================================================
