----------------------------- MODULE MCTcpServer -----------------------------
(* Connections 1 to 3 have names of their own, 4 is called 2 again, and     *)
(* there is no descriptor for a fifth.                                      *)
EXTENDS TcpServer
=============================================================================
