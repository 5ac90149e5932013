------------------------------ MODULE TaskQueue ------------------------------
(***************************************************************************)
(* What ThreadPool promises of its queue: a task is put in once, waits     *)
(* with no more than size others (0: any number), and is taken out once,   *)
(* after those put in before it.                                           *)
(***************************************************************************)
EXTENDS Naturals, Sequences, Functions

CONSTANT Task

VARIABLES size, queue, taken

Init == size \in Nat /\ queue = <<>> /\ taken = <<>>

Put(t) ==
    /\ t \notin Range(queue) \cup Range(taken)
    /\ size = 0 \/ Len(queue) < size
    /\ queue' = Append(queue, t)
    /\ UNCHANGED <<size, taken>>

Take ==
    /\ queue # <<>>
    /\ taken' = Append(taken, Head(queue))
    /\ queue' = Tail(queue)
    /\ UNCHANGED size

Next == Take \/ \E t \in Task : Put(t)

Spec == Init /\ [][Next]_<<size, queue, taken>>
=============================================================================
