----------------------------- MODULE EventLoop ------------------------------
(***************************************************************************)
(* RN::EventLoop with its IOWakeupTrigger: the loop thread, which blocks   *)
(* in ::poll, handles what became readable and then runs the functors it   *)
(* was sent, and the other threads, which send functors and ask it to quit.*)
(* queueInLoop and quit are each two steps, for another thread can run     *)
(* between the change of state and the write to the eventfd.               *)
(*                                                                         *)
(* A handler or a functor is whatever the loop thread does between being   *)
(* called and returning; runInLoop on the loop thread is part of it.       *)
(***************************************************************************)
EXTENDS Integers, Sequences

CONSTANTS Thread,    \* the threads other than the loop's own
          Functor,   \* the functors, each queued at most once
          Channel,   \* the channels of the loop, without the eventfd's
          wakeupChannel

ASSUME WakeupAssumption == wakeupChannel \notin Channel

VARIABLES
    pc,                     \* the loop thread: outside loop(), or where in it
    quit_,
    pendingFunctors_,
    functors,               \* the vector doPendingFunctors swapped in, its
                            \* finished elements dropped
    callingPendingFunctors_,
    wakeupfd,               \* the eventfd's counter is not zero
    readable,               \* channels with input waiting
    activeChannels_,        \* reported by poll and not yet handled
    tpc,                    \* [Thread -> "idle" or about to write the eventfd]
    queued,                 \* history: every functor queued, in order
    executed,               \* history: every functor finished, in order
    early                   \* history: queued by the loop thread outside loop()

loopVars   == <<pc, quit_, wakeupfd, readable, activeChannels_>>
queueVars  == <<pendingFunctors_, functors, callingPendingFunctors_>>
history    == <<queued, executed, early>>
vars       == <<loopVars, queueVars, tpc, history>>

Elements(s) == {s[i] : i \in DOMAIN s}
looping_    == pc # "out"
Waking      == \E t \in Thread : tpc[t] = "wake"

Types ==
    /\ pc \in {"out", "test", "poll", "handle", "run"}
    /\ quit_ \in BOOLEAN
    /\ pendingFunctors_ \in Seq(Functor)
    /\ functors \in Seq(Functor)
    /\ callingPendingFunctors_ \in BOOLEAN
    /\ wakeupfd \in BOOLEAN
    /\ readable \in SUBSET Channel
    /\ activeChannels_ \in SUBSET (Channel \cup {wakeupChannel})
    /\ tpc \in [Thread -> {"idle", "wake"}]
    /\ queued \in Seq(Functor)
    /\ executed \in Seq(Functor)
    /\ early \in SUBSET Functor

(* Which variables are in use where the loop thread is.                     *)
PhaseConsistent ==
    /\ functors # <<>> => pc = "run"
    /\ callingPendingFunctors_ <=> pc = "run"

TypeOK == Types /\ PhaseConsistent

Init ==
    /\ pc = "out"
    /\ quit_ = FALSE
    /\ pendingFunctors_ = <<>>
    /\ functors = <<>>
    /\ callingPendingFunctors_ = FALSE
    /\ wakeupfd = FALSE
    /\ readable = {}
    /\ activeChannels_ = {}
    /\ tpc = [t \in Thread |-> "idle"]
    /\ queued = <<>>
    /\ executed = <<>>
    /\ early = {}

-----------------------------------------------------------------------------
(* queueInLoop and quit.                                                    *)

push(f) ==
    /\ f \notin Elements(queued)
    /\ pendingFunctors_' = Append(pendingFunctors_, f)
    /\ queued' = Append(queued, f)

wakeup == wakeupfd' = TRUE

(* Mutation: no wakeup after the push.                                      *)
QueueSilently(t, f) ==
    /\ tpc[t] = "idle"
    /\ push(f)
    /\ UNCHANGED <<loopVars, functors, callingPendingFunctors_, tpc, executed, early>>

(* Another thread: the push under mutex_, and later the wakeup.  runInLoop  *)
(* on another thread is the same.                                           *)
queueInLoop(t, f) ==
    /\ tpc[t] = "idle"
    /\ push(f)
    /\ tpc' = [tpc EXCEPT ![t] = "wake"]
    /\ UNCHANGED <<loopVars, functors, callingPendingFunctors_, executed, early>>

(* Mutation: no wakeup after quit_ has been set.                            *)
QuitSilently(t) ==
    /\ tpc[t] = "idle"
    /\ quit_' = TRUE
    /\ UNCHANGED <<pc, wakeupfd, readable, activeChannels_, queueVars, tpc, history>>

quit(t) ==
    /\ tpc[t] = "idle"
    /\ quit_' = TRUE
    /\ tpc' = [tpc EXCEPT ![t] = "wake"]
    /\ UNCHANGED <<pc, wakeupfd, readable, activeChannels_, queueVars, history>>

threadWakes(t) ==
    /\ tpc[t] = "wake"
    /\ wakeup
    /\ tpc' = [tpc EXCEPT ![t] = "idle"]
    /\ UNCHANGED <<pc, quit_, readable, activeChannels_, queueVars, history>>

(* The loop thread itself: before or after loop(), in a handler, or in a    *)
(* functor.  Only a functor's queueInLoop wakes the loop.                   *)
InUserCode ==
    \/ pc = "out"
    \/ pc = "handle" /\ activeChannels_ # {}
    \/ pc = "run" /\ functors # <<>>

(* Mutation: the loop thread never wakes itself, not even from a functor.   *)
QueueInOwnLoopSilently(f) ==
    /\ InUserCode
    /\ push(f)
    /\ early' = IF looping_ THEN early ELSE early \cup {f}
    /\ UNCHANGED <<loopVars, functors, callingPendingFunctors_, tpc, executed>>

queueInOwnLoop(f) ==
    /\ InUserCode
    /\ push(f)
    /\ IF callingPendingFunctors_ THEN wakeup ELSE UNCHANGED wakeupfd
    /\ early' = IF looping_ THEN early ELSE early \cup {f}
    /\ UNCHANGED <<pc, quit_, readable, activeChannels_, functors,
                   callingPendingFunctors_, tpc, executed>>

quitOwnLoop ==
    /\ InUserCode
    /\ quit_' = TRUE
    /\ UNCHANGED <<pc, wakeupfd, readable, activeChannels_, queueVars, tpc, history>>

-----------------------------------------------------------------------------
(* EventLoop::loop.                                                         *)

loop ==
    /\ pc = "out"
    /\ pc' = "test"
    /\ quit_' = FALSE
    /\ UNCHANGED <<wakeupfd, readable, activeChannels_, queueVars, tpc, history>>

testQuit ==
    /\ pc = "test"
    /\ pc' = IF quit_ THEN "out" ELSE "poll"
    /\ UNCHANGED <<quit_, wakeupfd, readable, activeChannels_, queueVars, tpc, history>>

Ready == readable \cup (IF wakeupfd THEN {wakeupChannel} ELSE {})

pollReturns ==
    /\ pc = "poll" /\ Ready # {}
    /\ activeChannels_' = Ready
    /\ pc' = "handle"
    /\ UNCHANGED <<quit_, wakeupfd, readable, queueVars, tpc, history>>

pollTimesOut ==
    /\ pc = "poll" /\ Ready = {}
    /\ activeChannels_' = {}
    /\ pc' = "handle"
    /\ UNCHANGED <<quit_, wakeupfd, readable, queueVars, tpc, history>>

(* The eventfd reports POLLIN, but IOWakeupTrigger registers its handleRead *)
(* as the write callback: the counter is never read back to zero.           *)
wakeupCallback == "write"

handleEvent(c) ==
    /\ pc = "handle" /\ c \in activeChannels_
    /\ activeChannels_' = activeChannels_ \ {c}
    /\ readable' = readable \ {c}
    /\ wakeupfd' = (wakeupfd /\ ~(c = wakeupChannel /\ wakeupCallback = "read"))
    /\ UNCHANGED <<pc, quit_, queueVars, tpc, history>>

(* Mutation: the functors are run from the back of the vector.              *)
LastFunctorReturns ==
    /\ pc = "run" /\ functors # <<>>
    /\ executed' = Append(executed, functors[Len(functors)])
    /\ functors' = SubSeq(functors, 1, Len(functors) - 1)
    /\ UNCHANGED <<loopVars, pendingFunctors_, callingPendingFunctors_, tpc, queued, early>>

(* Mutation: callingPendingFunctors_ stays up.                              *)
FunctorsDoneKeepsFlag ==
    /\ pc = "run" /\ functors = <<>>
    /\ pc' = "test"
    /\ UNCHANGED <<quit_, wakeupfd, readable, activeChannels_, queueVars, tpc, history>>

(* doPendingFunctors: the swap, the calls, the return.                      *)
swapFunctors ==
    /\ pc = "handle" /\ activeChannels_ = {}
    /\ callingPendingFunctors_' = TRUE
    /\ functors' = pendingFunctors_
    /\ pendingFunctors_' = <<>>
    /\ pc' = "run"
    /\ UNCHANGED <<quit_, wakeupfd, readable, activeChannels_, tpc, history>>

functorReturns ==
    /\ pc = "run" /\ functors # <<>>
    /\ executed' = Append(executed, Head(functors))
    /\ functors' = Tail(functors)
    /\ UNCHANGED <<loopVars, pendingFunctors_, callingPendingFunctors_, tpc, queued, early>>

functorsDone ==
    /\ pc = "run" /\ functors = <<>>
    /\ callingPendingFunctors_' = FALSE
    /\ pc' = "test"
    /\ UNCHANGED <<quit_, wakeupfd, readable, activeChannels_, pendingFunctors_, functors,
                   tpc, history>>

(* The kernel: input arrives.                                               *)
inputArrives(c) ==
    /\ readable' = readable \cup {c}
    /\ UNCHANGED <<pc, quit_, wakeupfd, activeChannels_, queueVars, tpc, history>>

LoopStep ==
    \/ testQuit
    \/ pollReturns
    \/ \E c \in Channel \cup {wakeupChannel} : handleEvent(c)
    \/ swapFunctors
    \/ functorReturns
    \/ functorsDone

Next ==
    \/ \E t \in Thread : \/ \E f \in Functor : queueInLoop(t, f)
                         \/ quit(t)
                         \/ threadWakes(t)
    \/ \E f \in Functor : queueInOwnLoop(f)
    \/ quitOwnLoop
    \/ loop
    \/ LoopStep
    \/ pollTimesOut
    \/ \E c \in Channel : inputArrives(c)

Spec == Init /\ [][Next]_vars

(* Threads that are inside a call go on, and a loop that is not blocked     *)
(* goes on.  A poll with nothing to report need not return: the liveness    *)
(* below does not lean on the ten seconds' time-out.                        *)
Fairness == /\ WF_vars(LoopStep)
            /\ \A t \in Thread : WF_vars(threadWakes(t))

FairSpec == Spec /\ Fairness

-----------------------------------------------------------------------------
(* Properties.                                                              *)

(* What was queued is exactly what has run, what is being run and what      *)
(* waits, in this order: no functor is lost, run twice or overtaken, across *)
(* the swap and whichever threads queue. (queueInLoop, doPendingFunctors)   *)
FifoOnce == queued = executed \o functors \o pendingFunctors_

(* A loop blocked in poll with a functor waiting or with quit asked for has *)
(* a wakeup to return for, or one on its way.  Only a functor queued by the *)
(* loop thread before loop() may wait in silence, until the time-out.       *)
NoLostWakeup ==
    pc = "poll" /\ (quit_ \/ ~(Elements(pendingFunctors_) \subseteq early))
        => wakeupfd \/ Waking

(* FunctorQueue's promise, kept by the two vectors together.                *)
Promise == INSTANCE FunctorQueue WITH todo <- functors \o pendingFunctors_,
                                      done <- executed
KeepsPromise == Promise!Spec

(* A functor queued for a running loop runs without waiting for a time-out, *)
(* unless the loop is left first.                                           *)
QueuedRuns ==
    \A f \in Functor :
        f \in Elements(pendingFunctors_) \ early /\ looping_
            ~> f \in Elements(executed) \/ ~looping_

(* Asked to quit while it runs, from any thread, the loop is left.          *)
QuitLeaves == quit_ /\ looping_ ~> ~looping_
=============================================================================
