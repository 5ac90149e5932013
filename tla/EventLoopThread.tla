-------------------------- MODULE EventLoopThread ---------------------------
(***************************************************************************)
(* RN::EventLoopThread around RN::EventLoop: an owner starts a thread,     *)
(* waits until the thread has published the address of the EventLoop on    *)
(* its stack, uses the loop, and in the destructor asks it to quit and     *)
(* joins the thread.                                                       *)
(*                                                                         *)
(* startLoop and threadFunc write MutexLock lock(mutex_), which copies the *)
(* mutex instead of locking it: between the owner's test of loop_ and its  *)
(* wait on the condition the thread may publish and notify.                *)
(***************************************************************************)
EXTENDS EventLoop

CONSTANT Owner

ASSUME OwnerAssumption == Owner \in Thread

VARIABLES
    opc,    \* the owner
    thr,    \* the started thread
    loop_   \* loop_ has been assigned; it is never set back to NULL

etVars == <<opc, thr, loop_>>
allVars == <<vars, etVars>>

ETInit ==
    /\ Init
    /\ opc = "new"
    /\ thr = "none"
    /\ loop_ = FALSE

-----------------------------------------------------------------------------
(* The owner: startLoop.                                                    *)

(* Thread::start creates the thread and waits on the latch ...              *)
startLoop ==
    /\ opc = "new"
    /\ opc' = "latch"
    /\ thr' = "starting"
    /\ UNCHANGED <<vars, loop_>>

(* ... until ThreadData::runInThread has counted it down.                   *)
latchOpens ==
    /\ opc = "latch" /\ thr # "starting"
    /\ opc' = "test"
    /\ UNCHANGED <<vars, thr, loop_>>

testsLoop ==
    /\ opc = "test"
    /\ opc' = IF loop_ THEN "got" ELSE "park"
    /\ UNCHANGED <<vars, thr, loop_>>

parks ==
    /\ opc = "park"
    /\ opc' = "waiting"
    /\ UNCHANGED <<vars, thr, loop_>>

spuriousWakeup ==
    /\ opc = "waiting"
    /\ opc' = "test"
    /\ UNCHANGED <<vars, thr, loop_>>

(* The owner: the destructor.  loop_->quit() is quit(Owner) and the write   *)
(* to the eventfd that follows it.                                          *)
destructor ==
    /\ opc = "got"
    /\ quit(Owner)
    /\ opc' = "dtor"
    /\ UNCHANGED <<thr, loop_>>

quitReturns ==
    /\ opc = "dtor" /\ tpc[Owner] = "idle"
    /\ opc' = "join"
    /\ UNCHANGED <<vars, thr, loop_>>

joins ==
    /\ opc = "join" /\ thr = "gone"
    /\ opc' = "joined"
    /\ UNCHANGED <<vars, thr, loop_>>

-----------------------------------------------------------------------------
(* The thread: runInThread, then threadFunc.                                *)

countsDown ==
    /\ thr = "starting"
    /\ thr' = "building"
    /\ UNCHANGED <<vars, opc, loop_>>

publishes ==
    /\ thr = "building"
    /\ loop_' = TRUE
    /\ thr' = "notify"
    /\ UNCHANGED <<vars, opc>>

notifies ==
    /\ thr = "notify"
    /\ opc' = IF opc = "waiting" THEN "test" ELSE opc
    /\ thr' = "enter"
    /\ UNCHANGED <<vars, loop_>>

entersLoop ==
    /\ thr = "enter"
    /\ loop
    /\ thr' = "looping"
    /\ UNCHANGED <<opc, loop_>>

loops ==
    /\ thr = "looping"
    /\ LoopStep
    /\ thr' = IF pc' = "out" THEN "leaving" ELSE "looping"
    /\ UNCHANGED <<opc, loop_>>

(* The EventLoop on the stack is destroyed and the thread ends.             *)
leaves ==
    /\ thr = "leaving"
    /\ thr' = "gone"
    /\ UNCHANGED <<vars, opc, loop_>>

(* What the handlers and functors that run in the thread do.                *)
userCode ==
    /\ thr = "looping"
    /\ quitOwnLoop \/ \E f \in Functor : queueInOwnLoop(f)
    /\ UNCHANGED etVars

-----------------------------------------------------------------------------
(* The users of the loop startLoop returned, and the world outside.         *)

uses ==
    /\ opc = "got"
    /\ \E t \in Thread : \E f \in Functor : queueInLoop(t, f)
    /\ UNCHANGED etVars

wakes ==
    /\ \E t \in Thread : threadWakes(t)
    /\ UNCHANGED etVars

environment ==
    /\ thr = "looping"
    /\ pollTimesOut \/ \E c \in Channel : inputArrives(c)
    /\ UNCHANGED etVars

OwnerStep  == latchOpens \/ testsLoop \/ parks \/ quitReturns \/ joins
ThreadStep == countsDown \/ publishes \/ notifies \/ entersLoop \/ loops \/ leaves

ETNext ==
    \/ startLoop \/ spuriousWakeup \/ destructor \/ OwnerStep
    \/ ThreadStep
    \/ userCode \/ uses \/ wakes \/ environment

(* Both threads go on unless they are blocked.  Nobody has to destroy the   *)
(* object, time out, or wake up for no reason.                              *)
ETSpec == /\ ETInit /\ [][ETNext]_allVars
          /\ WF_allVars(OwnerStep)
          /\ WF_allVars(ThreadStep)
          /\ WF_allVars(wakes)

-----------------------------------------------------------------------------
(* Properties.                                                              *)

(* What is sent to the loop startLoop returned runs, even when it was sent  *)
(* before the thread had entered loop(), unless the loop is left.           *)
SentRuns ==
    \A f \in Functor : f \in Elements(pendingFunctors_)
                          ~> f \in Elements(executed) \/ thr \in {"leaving", "gone"}

(* The destructor returns if its quit reached a loop that had been entered, *)
(* wherever in the iteration the loop was, blocked in poll included.        *)
QuitInLoopJoins == opc = "dtor" /\ quit_ /\ looping_ ~> opc = "joined"

(* startLoop returns (test3.cpp:14 goes on to use its result).              *)
StartLoopReturns == opc = "test" ~> opc = "got"
=============================================================================
