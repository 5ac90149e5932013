------------------------- MODULE MCEventLoopThread --------------------------
(* EventLoopThread with its owner and a second user of the loop.            *)
EXTENDS EventLoopThread
=============================================================================
