---------------------------- MODULE FunctorQueue ----------------------------
(***************************************************************************)
(* What EventLoop promises to whoever calls queueInLoop: the functors are  *)
(* run one at a time, each once, in the order in which they were queued,   *)
(* whatever thread queued them.  No lock, no swap, no wakeup.              *)
(***************************************************************************)
EXTENDS Sequences

CONSTANT Functor

VARIABLES todo,   \* queued and not yet finished, oldest first
          done    \* finished, oldest first

Init == todo = <<>> /\ done = <<>>

Queue(f) == /\ todo' = Append(todo, f)
            /\ UNCHANGED done

Run == /\ todo # <<>>
       /\ done' = Append(done, Head(todo))
       /\ todo' = Tail(todo)

Next == (\E f \in Functor : Queue(f)) \/ Run

Spec == Init /\ [][Next]_<<todo, done>>
=============================================================================
