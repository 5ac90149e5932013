------------------------------ MODULE MCPoller ------------------------------
(* Poller on a handful of channels: the descriptors start at 0, whose       *)
(* encoding when ignored, -1, is the boundary of the sign test.             *)
EXTENDS Poller, TLC
CONSTANTS c0, c1, c2
MCFdOf == (c0 :> 0) @@ (c1 :> 1) @@ (c2 :> 2)
=============================================================================
