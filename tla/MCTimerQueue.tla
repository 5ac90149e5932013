---------------------------- MODULE MCTimerQueue ----------------------------
(* TimerQueue with two timers that run once and one that is repeated.       *)
EXTENDS TimerQueue, TLC
CONSTANTS once1, once2, every
MCInterval == (once1 :> 0) @@ (once2 :> 0) @@ (every :> 2)
=============================================================================
