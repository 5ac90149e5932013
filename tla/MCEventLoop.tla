---------------------------- MODULE MCEventLoop -----------------------------
(* EventLoop with two foreign threads, three functors and one I/O channel.  *)
EXTENDS EventLoop
=============================================================================
