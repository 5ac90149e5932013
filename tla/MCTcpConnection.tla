-------------------------- MODULE MCTcpConnection ---------------------------
(* TcpConnection with one thread besides the loop's and messages that do    *)
(* not fit into the kernel's buffer in one write. The third is appended     *)
(* when two cells wait, of which the second then keeps its place.           *)
EXTENDS TcpConnection, TLC
CONSTANTS m1, m2, m3
MCSize == (m1 :> 2) @@ (m2 :> 1) @@ (m3 :> 1)
=============================================================================
