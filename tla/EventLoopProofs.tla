-------------------------- MODULE EventLoopProofs ---------------------------
(* EventLoop for every set of threads, functors and channels: the order in  *)
(* which functors run, the wakeups, and the refinement of FunctorQueue.     *)
EXTENDS EventLoop, TLAPS, SequenceTheorems

(* Outside the handlers, whatever waits was announced.  The handlers are    *)
(* the exception: what they queue is run in the same iteration.             *)
Announced ==
    pc # "handle" /\ ~(Elements(pendingFunctors_) \subseteq early) => wakeupfd \/ Waking

QuitAnnounced == pc = "poll" /\ quit_ => wakeupfd \/ Waking

IInv == /\ Types
        /\ FifoOnce
        /\ PhaseConsistent
        /\ Announced
        /\ QuitAnnounced

-----------------------------------------------------------------------------
(* Sequences.                                                               *)

LEMMA ConcatAppend ==
    ASSUME NEW S, NEW s \in Seq(S), NEW t \in Seq(S), NEW e \in S
    PROVE  s \o Append(t, e) = Append(s \o t, e)
  <1>1. <<e>> \in Seq(S)
    OBVIOUS
  <1>2. Append(t, e) = t \o <<e>>
    BY AppendIsConcat
  <1>3. s \o t \in Seq(S)
    BY ConcatProperties
  <1>4. Append(s \o t, e) = (s \o t) \o <<e>>
    BY <1>3, AppendIsConcat
  <1>5. (s \o t) \o <<e>> = s \o (t \o <<e>>)
    BY <1>1, ConcatAssociative
  <1> QED BY <1>2, <1>4, <1>5

LEMMA ConcatHeadTail ==
    ASSUME NEW S, NEW s \in Seq(S), NEW t \in Seq(S), s # <<>>
    PROVE  /\ s \o t # <<>>
           /\ Head(s \o t) = Head(s)
           /\ Tail(s \o t) = Tail(s) \o t
  <1> DEFINE l == Tail(s \o t)
             r == Tail(s) \o t
  <1>1. Len(s) \in Nat /\ Len(t) \in Nat /\ Len(s) > 0
    BY LenProperties, EmptySeq
  <1>2. /\ s \o t \in Seq(S) /\ Len(s \o t) = Len(s) + Len(t)
        /\ \A i \in 1 .. Len(s) + Len(t) :
              (s \o t)[i] = IF i <= Len(s) THEN s[i] ELSE t[i - Len(s)]
    BY ConcatProperties
  <1>3. s \o t # <<>>
    BY <1>1, <1>2, EmptySeq
  <1>4. Head(s \o t) = Head(s)
    BY <1>1, <1>2
  <1>5. /\ Tail(s) \in Seq(S) /\ Len(Tail(s)) = Len(s) - 1
        /\ \A i \in 1 .. Len(s) - 1 : Tail(s)[i] = s[i + 1]
    BY HeadTailProperties
  <1>6. /\ l \in Seq(S) /\ Len(l) = Len(s) + Len(t) - 1
        /\ \A i \in 1 .. Len(s) + Len(t) - 1 : l[i] = (s \o t)[i + 1]
    BY <1>1, <1>2, <1>3, HeadTailProperties
  <1>7. /\ r \in Seq(S) /\ Len(r) = Len(s) + Len(t) - 1
        /\ \A i \in 1 .. Len(s) + Len(t) - 1 :
              r[i] = IF i <= Len(s) - 1 THEN Tail(s)[i] ELSE t[i - (Len(s) - 1)]
    BY <1>1, <1>5, ConcatProperties
  <1> HIDE DEF l, r
  <1>8. ASSUME NEW i \in 1 .. Len(l) PROVE l[i] = r[i]
    <2>1. CASE i <= Len(s) - 1
      BY <1>1, <1>2, <1>5, <1>6, <1>7, <1>8, <2>1
    <2>2. CASE i > Len(s) - 1
      <3>1. l[i] = t[i + 1 - Len(s)]
        BY <1>1, <1>2, <1>6, <1>8, <2>2
      <3>2. r[i] = t[i - (Len(s) - 1)]
        BY <1>1, <1>6, <1>7, <1>8, <2>2
      <3>3. i + 1 - Len(s) = i - (Len(s) - 1)
        BY <1>1, <1>6, <1>8
      <3> QED BY <3>1, <3>2, <3>3
    <2> QED BY <1>1, <1>6, <1>8, <2>1, <2>2
  <1>9. l = r
    BY <1>6, <1>7, <1>8, SeqEqual
  <1> QED BY <1>3, <1>4, <1>9 DEF l, r

(* Moving the head of the second part to the end of the first.              *)
LEMMA ShiftHead ==
    ASSUME NEW S, NEW s \in Seq(S), NEW t \in Seq(S), t # <<>>
    PROVE  Append(s, Head(t)) \o Tail(t) = s \o t
  <1> DEFINE h == Head(t)
             u == Tail(t)
  <1>1. h \in S /\ u \in Seq(S) /\ t = <<h>> \o u /\ <<h>> \in Seq(S)
    <2>1. h \in S /\ u \in Seq(S) /\ Len(u) = Len(t) - 1 /\ Len(t) \in Nat /\ Len(t) > 0
          /\ \A i \in 1 .. Len(u) : u[i] = t[i + 1]
      BY HeadTailProperties, LenProperties, EmptySeq
    <2>2. <<h>> \in Seq(S) /\ Len(<<h>>) = 1 /\ <<h>>[1] = h
      BY <2>1
    <2>3. /\ <<h>> \o u \in Seq(S) /\ Len(<<h>> \o u) = 1 + Len(u)
          /\ \A i \in 1 .. 1 + Len(u) :
                (<<h>> \o u)[i] = IF i <= 1 THEN <<h>>[i] ELSE u[i - 1]
      BY <2>1, <2>2, ConcatProperties
    <2>4. t[1] = h
      OBVIOUS
    <2> HIDE DEF h, u
    <2>5. ASSUME NEW i \in 1 .. Len(t) PROVE t[i] = (<<h>> \o u)[i]
      <3>1. CASE i = 1
        BY <2>1, <2>2, <2>3, <2>4, <3>1
      <3>2. CASE i # 1
        <4>1. (<<h>> \o u)[i] = u[i - 1] /\ i - 1 \in 1 .. Len(u) /\ i - 1 + 1 = i
          BY <2>1, <2>3, <2>5, <3>2
        <4> QED BY <2>1, <4>1
      <3> QED BY <3>1, <3>2
    <2>6. Len(t) = Len(<<h>> \o u)
      BY <2>1, <2>3
    <2>7. t = <<h>> \o u
      BY <2>3, <2>5, <2>6, SeqEqual
    <2> QED BY <2>1, <2>2, <2>7
  <1> HIDE DEF h, u
  <1>2. Append(s, h) = s \o <<h>>
    BY <1>1, AppendIsConcat
  <1>3. (s \o <<h>>) \o u = s \o (<<h>> \o u)
    BY <1>1, ConcatAssociative
  <1> QED BY <1>1, <1>2, <1>3 DEF h, u

LEMMA ElementsAppend ==
    ASSUME NEW S, NEW s \in Seq(S), NEW e \in S
    PROVE  Elements(Append(s, e)) = Elements(s) \cup {e}
  <1>1. /\ Len(s) \in Nat /\ DOMAIN s = 1 .. Len(s)
        /\ DOMAIN Append(s, e) = 1 .. Len(s) + 1
        /\ \A i \in 1 .. Len(s) : Append(s, e)[i] = s[i]
        /\ Append(s, e)[Len(s) + 1] = e
    BY AppendProperties, LenProperties
  <1> QED BY <1>1 DEF Elements

-----------------------------------------------------------------------------
(* The invariant.                                                           *)

LEMMA InitInv == Init => IInv
  <1> SUFFICES ASSUME Init PROVE IInv
    OBVIOUS
  <1>1. Types
    <2>1. <<>> \in Seq(Functor)
      BY EmptySeq
    <2>2. [t \in Thread |-> "idle"] \in [Thread -> {"idle", "wake"}]
      OBVIOUS
    <2> QED BY <2>1, <2>2 DEF Init, Types
  <1>2. FifoOnce
    <2>1. <<>> \in Seq(Functor)
      OBVIOUS
    <2>2. <<>> \o <<>> = <<>>
      BY <2>1, ConcatEmptySeq
    <2> QED BY <2>2 DEF Init, FifoOnce
  <1>3. PhaseConsistent /\ QuitAnnounced
    BY DEF Init, PhaseConsistent, QuitAnnounced
  <1>4. Announced
    BY DEF Init, Announced, Elements
  <1> QED BY <1>1, <1>2, <1>3, <1>4 DEF IInv

(* Queueing, by any thread, is an append at the end of the whole line.      *)
LEMMA PushKeepsOrder ==
    ASSUME IInv, NEW f \in Functor, push(f), UNCHANGED <<functors, executed>>
    PROVE  /\ FifoOnce'
           /\ pendingFunctors_' \in Seq(Functor) /\ queued' \in Seq(Functor)
           /\ functors' \o pendingFunctors_' = Append(functors \o pendingFunctors_, f)
           /\ Elements(pendingFunctors_') = Elements(pendingFunctors_) \cup {f}
  <1>1. /\ executed \in Seq(Functor) /\ functors \in Seq(Functor)
        /\ pendingFunctors_ \in Seq(Functor) /\ queued \in Seq(Functor)
        /\ queued = executed \o functors \o pendingFunctors_
    BY DEF IInv, Types, FifoOnce
  <1>2. executed \o functors \in Seq(Functor)
    BY <1>1, ConcatProperties
  <1>3. pendingFunctors_' = Append(pendingFunctors_, f) /\ queued' = Append(queued, f)
    BY DEF push
  <1>4. (executed \o functors) \o Append(pendingFunctors_, f) = Append(queued, f)
    BY <1>1, <1>2, ConcatAppend
  <1>5. functors \o Append(pendingFunctors_, f) = Append(functors \o pendingFunctors_, f)
    BY <1>1, ConcatAppend
  <1>6. Elements(pendingFunctors_') = Elements(pendingFunctors_) \cup {f}
    BY <1>1, <1>3, ElementsAppend
  <1>7. pendingFunctors_' \in Seq(Functor) /\ queued' \in Seq(Functor)
    BY <1>1, <1>3, AppendProperties
  <1> QED BY <1>3, <1>4, <1>5, <1>6, <1>7 DEF FifoOnce

(* The swap moves the waiting functors without changing the line.           *)
LEMMA SwapKeepsOrder ==
    ASSUME IInv, swapFunctors
    PROVE  /\ FifoOnce'
           /\ functors' \o pendingFunctors_' = functors \o pendingFunctors_
  <1>1. /\ executed \in Seq(Functor) /\ pendingFunctors_ \in Seq(Functor)
        /\ functors = <<>> /\ queued = executed \o functors \o pendingFunctors_
    BY DEF IInv, Types, FifoOnce, PhaseConsistent, swapFunctors
  <1>2. /\ functors' = pendingFunctors_ /\ pendingFunctors_' = <<>>
        /\ executed' = executed /\ queued' = queued
    BY DEF swapFunctors, history
  <1>3. /\ executed \o <<>> = executed
        /\ <<>> \o pendingFunctors_ = pendingFunctors_
        /\ pendingFunctors_ \o <<>> = pendingFunctors_
    BY <1>1, ConcatEmptySeq
  <1>4. /\ executed \o pendingFunctors_ \in Seq(Functor)
    BY <1>1, ConcatProperties
  <1>5. (executed \o pendingFunctors_) \o <<>> = executed \o pendingFunctors_
    BY <1>4, ConcatEmptySeq
  <1> QED BY <1>1, <1>2, <1>3, <1>5 DEF FifoOnce

(* A functor that returns leaves from the front.                            *)
LEMMA ReturnKeepsOrder ==
    ASSUME IInv, functorReturns
    PROVE  /\ FifoOnce'
           /\ executed' \in Seq(Functor) /\ functors' \in Seq(Functor)
           /\ functors \o pendingFunctors_ # <<>>
           /\ executed' = Append(executed, Head(functors \o pendingFunctors_))
           /\ functors' \o pendingFunctors_' = Tail(functors \o pendingFunctors_)
  <1>1. /\ executed \in Seq(Functor) /\ functors \in Seq(Functor)
        /\ pendingFunctors_ \in Seq(Functor) /\ functors # <<>>
        /\ queued = executed \o functors \o pendingFunctors_
    BY DEF IInv, Types, FifoOnce, functorReturns
  <1>2. /\ executed' = Append(executed, Head(functors)) /\ functors' = Tail(functors)
        /\ pendingFunctors_' = pendingFunctors_ /\ queued' = queued
    BY DEF functorReturns
  <1>3. Append(executed, Head(functors)) \o Tail(functors) = executed \o functors
    BY <1>1, ShiftHead
  <1>4. /\ functors \o pendingFunctors_ # <<>>
        /\ Head(functors \o pendingFunctors_) = Head(functors)
        /\ Tail(functors \o pendingFunctors_) = Tail(functors) \o pendingFunctors_
    BY <1>1, ConcatHeadTail
  <1>5. Head(functors) \in Functor /\ Tail(functors) \in Seq(Functor)
    BY <1>1, HeadTailProperties
  <1>6. executed' \in Seq(Functor)
    BY <1>1, <1>2, <1>5, AppendProperties
  <1> QED BY <1>1, <1>2, <1>3, <1>4, <1>5, <1>6 DEF FifoOnce

LEMMA StepInv ==
    ASSUME IInv, [Next]_vars
    PROVE  IInv'
  <1> USE DEF loopVars, queueVars, history
  <1>1. ASSUME NEW t \in Thread, NEW f \in Functor, queueInLoop(t, f) PROVE IInv'
    <2>1. push(f) /\ UNCHANGED <<functors, executed>>
      BY <1>1 DEF queueInLoop
    <2>2. /\ FifoOnce'
          /\ pendingFunctors_' \in Seq(Functor) /\ queued' \in Seq(Functor)
      BY <2>1, PushKeepsOrder
    <2>3. tpc' = [tpc EXCEPT ![t] = "wake"] /\ tpc \in [Thread -> {"idle", "wake"}]
      BY <1>1 DEF queueInLoop, IInv, Types
    <2>4. tpc' \in [Thread -> {"idle", "wake"}] /\ Waking'
      BY <2>3 DEF Waking
    <2>5. Types'
      BY <1>1, <2>2, <2>4 DEF queueInLoop, IInv, Types
    <2>6. Announced' /\ QuitAnnounced'
      BY <2>4 DEF Announced, QuitAnnounced
    <2>7. PhaseConsistent'
      BY <1>1 DEF queueInLoop, IInv, PhaseConsistent
    <2> QED BY <2>2, <2>5, <2>6, <2>7 DEF IInv
  <1>2. ASSUME NEW t \in Thread, quit(t) PROVE IInv'
    <2>1. tpc' = [tpc EXCEPT ![t] = "wake"] /\ tpc \in [Thread -> {"idle", "wake"}]
      BY <1>2 DEF quit, IInv, Types
    <2>2. tpc' \in [Thread -> {"idle", "wake"}] /\ Waking'
      BY <2>1 DEF Waking
    <2>3. Types'
      BY <1>2, <2>2 DEF quit, IInv, Types
    <2>4. Announced' /\ QuitAnnounced'
      BY <2>2 DEF Announced, QuitAnnounced
    <2>5. PhaseConsistent' /\ FifoOnce'
      BY <1>2 DEF quit, IInv, PhaseConsistent, FifoOnce
    <2> QED BY <2>3, <2>4, <2>5 DEF IInv
  <1>3. ASSUME NEW t \in Thread, threadWakes(t) PROVE IInv'
    <2>1. wakeupfd' = TRUE /\ tpc' \in [Thread -> {"idle", "wake"}]
      BY <1>3 DEF threadWakes, wakeup, IInv, Types
    <2>2. Types'
      BY <1>3, <2>1 DEF threadWakes, IInv, Types
    <2>3. Announced' /\ QuitAnnounced'
      BY <2>1 DEF Announced, QuitAnnounced
    <2>4. PhaseConsistent' /\ FifoOnce'
      BY <1>3 DEF threadWakes, IInv, PhaseConsistent, FifoOnce
    <2> QED BY <2>2, <2>3, <2>4 DEF IInv
  <1>4. ASSUME NEW f \in Functor, queueInOwnLoop(f) PROVE IInv'
    <2>1. push(f) /\ UNCHANGED <<functors, executed>>
      BY <1>4 DEF queueInOwnLoop
    <2>2. /\ FifoOnce'
          /\ pendingFunctors_' \in Seq(Functor) /\ queued' \in Seq(Functor)
          /\ Elements(pendingFunctors_') = Elements(pendingFunctors_) \cup {f}
      BY <2>1, PushKeepsOrder
    <2>3. /\ pc' = pc /\ tpc' = tpc /\ quit_' = quit_
          /\ callingPendingFunctors_' = callingPendingFunctors_
          /\ early' = IF pc # "out" THEN early ELSE early \cup {f}
      BY <1>4 DEF queueInOwnLoop, looping_
    <2>4. CASE callingPendingFunctors_
      <3>1. wakeupfd' = TRUE
        BY <1>4, <2>4 DEF queueInOwnLoop, wakeup
      <3>2. Types'
        BY <1>4, <2>2, <2>3, <3>1 DEF queueInOwnLoop, IInv, Types
      <3>3. Announced' /\ QuitAnnounced'
        BY <3>1 DEF Announced, QuitAnnounced
      <3>4. PhaseConsistent'
        BY <2>1, <2>3 DEF IInv, PhaseConsistent
      <3> QED BY <2>2, <3>2, <3>3, <3>4 DEF IInv
    <2>5. CASE ~callingPendingFunctors_
      <3>1. wakeupfd' = wakeupfd
        BY <1>4, <2>5 DEF queueInOwnLoop
      <3>2. pc = "out" \/ pc = "handle"
        BY <1>4, <2>5 DEF queueInOwnLoop, InUserCode, IInv, PhaseConsistent
      <3>3. Types'
        BY <1>4, <2>2, <2>3, <3>1 DEF queueInOwnLoop, IInv, Types
      <3>4. QuitAnnounced'
        BY <2>3, <3>2 DEF QuitAnnounced
      <3>5. Announced'
        BY <2>2, <2>3, <3>1, <3>2 DEF IInv, Announced, Waking
      <3>6. PhaseConsistent'
        BY <2>1, <2>3 DEF IInv, PhaseConsistent
      <3> QED BY <2>2, <3>3, <3>4, <3>5, <3>6 DEF IInv
    <2> QED BY <2>4, <2>5
  <1>5. ASSUME quitOwnLoop PROVE IInv'
    <2>1. pc # "poll"
      BY <1>5 DEF quitOwnLoop, InUserCode
    <2>2. Types' /\ PhaseConsistent' /\ FifoOnce' /\ Announced' /\ QuitAnnounced'
      BY <1>5, <2>1 DEF quitOwnLoop, IInv, Types, PhaseConsistent, FifoOnce, Announced,
                        QuitAnnounced, Waking
    <2> QED BY <2>2 DEF IInv
  <1>6. ASSUME loop \/ testQuit \/ functorsDone PROVE IInv'
    <2>1. /\ functors = <<>> /\ pc \in {"out", "test", "run"} /\ pc' \in {"out", "test", "poll"}
          /\ pc' = "poll" => ~quit_'
          /\ UNCHANGED <<pendingFunctors_, functors, wakeupfd, readable, activeChannels_,
                         tpc, queued, executed, early>>
          /\ quit_' \in BOOLEAN
          /\ callingPendingFunctors_' \in BOOLEAN /\ ~callingPendingFunctors_'
      <3>1. CASE loop
        BY <3>1 DEF loop, IInv, Types, PhaseConsistent
      <3>2. CASE testQuit
        BY <3>2 DEF testQuit, IInv, Types, PhaseConsistent
      <3>3. CASE functorsDone
        BY <3>3 DEF functorsDone, IInv, Types, PhaseConsistent
      <3> QED BY <1>6, <3>1, <3>2, <3>3
    <2>2. Types' /\ PhaseConsistent' /\ FifoOnce' /\ Announced' /\ QuitAnnounced'
      BY <2>1 DEF IInv, Types, PhaseConsistent, FifoOnce, Announced, QuitAnnounced, Waking
    <2> QED BY <2>2 DEF IInv
  <1>7. ASSUME pollReturns \/ pollTimesOut PROVE IInv'
    <2>1. /\ activeChannels_' \in SUBSET (Channel \cup {wakeupChannel})
          /\ pc = "poll" /\ pc' = "handle"
          /\ UNCHANGED <<quit_, wakeupfd, readable, queueVars, tpc, history>>
      BY <1>7 DEF pollReturns, pollTimesOut, Ready, IInv, Types
    <2>2. Types' /\ PhaseConsistent' /\ FifoOnce' /\ Announced' /\ QuitAnnounced'
      BY <2>1 DEF IInv, Types, PhaseConsistent, FifoOnce, Announced, QuitAnnounced
    <2> QED BY <2>2 DEF IInv
  <1>8. ASSUME NEW c \in Channel \cup {wakeupChannel}, handleEvent(c) PROVE IInv'
    <2>1. wakeupfd' \in BOOLEAN /\ pc' = "handle" /\ pc = "handle"
      BY <1>8 DEF handleEvent, IInv, Types
    <2>2. Types'
      BY <1>8, <2>1 DEF handleEvent, IInv, Types
    <2>3. PhaseConsistent' /\ FifoOnce' /\ Announced' /\ QuitAnnounced'
      BY <1>8, <2>1 DEF handleEvent, IInv, PhaseConsistent, FifoOnce, Announced, QuitAnnounced
    <2> QED BY <2>2, <2>3 DEF IInv
  <1>9. ASSUME swapFunctors PROVE IInv'
    <2>1. FifoOnce'
      BY <1>9, SwapKeepsOrder
    <2>2. Types' /\ PhaseConsistent' /\ QuitAnnounced'
      BY <1>9 DEF swapFunctors, IInv, Types, PhaseConsistent, QuitAnnounced
    <2>3. Elements(pendingFunctors_') = {}
      BY <1>9 DEF swapFunctors, Elements
    <2>4. Announced'
      BY <2>3 DEF Announced, Elements
    <2> QED BY <2>1, <2>2, <2>4 DEF IInv
  <1>10. ASSUME functorReturns PROVE IInv'
    <2>1. FifoOnce' /\ executed' \in Seq(Functor) /\ functors' \in Seq(Functor)
      BY <1>10, ReturnKeepsOrder
    <2>2. Types'
      BY <1>10, <2>1 DEF functorReturns, IInv, Types
    <2>3. PhaseConsistent' /\ Announced' /\ QuitAnnounced'
      BY <1>10 DEF functorReturns, IInv, PhaseConsistent, Announced, QuitAnnounced, Waking
    <2> QED BY <2>1, <2>2, <2>3 DEF IInv
  <1>11. ASSUME NEW c \in Channel, inputArrives(c) PROVE IInv'
    <2>1. Types' /\ PhaseConsistent' /\ FifoOnce' /\ Announced' /\ QuitAnnounced'
      BY <1>11 DEF inputArrives, IInv, Types, PhaseConsistent, FifoOnce, Announced,
                   QuitAnnounced, Waking
    <2> QED BY <2>1 DEF IInv
  <1>12. ASSUME UNCHANGED vars PROVE IInv'
    <2>1. Types' /\ PhaseConsistent' /\ FifoOnce' /\ Announced' /\ QuitAnnounced'
      BY <1>12 DEF vars, IInv, Types, PhaseConsistent, FifoOnce, Announced,
                   QuitAnnounced, Waking
    <2> QED BY <2>1 DEF IInv
  <1> QED
    BY <1>1, <1>2, <1>3, <1>4, <1>5, <1>6, <1>7, <1>8, <1>9, <1>10, <1>11, <1>12
       DEF Next, LoopStep

LEMMA Invariance == Spec => []IInv
  <1>1. IInv /\ [Next]_vars => IInv'
    BY StepInv
  <1> QED BY <1>1, InitInv, PTL DEF Spec

-----------------------------------------------------------------------------
(* The theorems.                                                            *)

(* The variables of the loop keep their types, and the flag that decides    *)
(* whether queueInLoop wakes the loop is up exactly while functors run.     *)
THEOREM TypeSafety == Spec => []TypeOK
  <1>1. IInv => TypeOK
    BY DEF IInv, TypeOK
  <1> QED BY <1>1, Invariance, PTL

(* queueInLoop and doPendingFunctors lose, repeat and reorder nothing, for  *)
(* any number of threads and functors.                                      *)
THEOREM FifoSafety == Spec => []FifoOnce
  <1>1. IInv => FifoOnce
    BY DEF IInv
  <1> QED BY <1>1, Invariance, PTL

(* queueInLoop and quit never leave the loop asleep with something to do.   *)
THEOREM WakeupSafety == Spec => []NoLostWakeup
  <1>1. IInv => NoLostWakeup
    BY DEF IInv, Announced, QuitAnnounced, NoLostWakeup
  <1> QED BY <1>1, Invariance, PTL

(* The two vectors, the lock and the swap implement the queue of functors   *)
(* promised to the callers of queueInLoop.                                  *)
THEOREM Refinement == Spec => KeepsPromise
  <1> DEFINE todo == functors \o pendingFunctors_
  <1>1. Init => Promise!Init
    <2>1. <<>> \in Seq(Functor)
      BY EmptySeq
    <2>2. <<>> \o <<>> = <<>>
      BY <2>1, ConcatEmptySeq
    <2> QED BY <2>2 DEF Init, Promise!Init
  <1>2. IInv /\ [Next]_vars => [Promise!Next]_<<todo, executed>>
    <2> SUFFICES ASSUME IInv, [Next]_vars
                 PROVE  Promise!Next \/ UNCHANGED <<todo, executed>>
      OBVIOUS
    <2>1. ASSUME NEW f \in Functor, push(f), UNCHANGED <<functors, executed>>
          PROVE  Promise!Queue(f)
      BY <2>1, PushKeepsOrder DEF Promise!Queue
    <2>2. ASSUME swapFunctors PROVE UNCHANGED <<todo, executed>>
      BY <2>2, SwapKeepsOrder DEF swapFunctors, history
    <2>3. ASSUME functorReturns PROVE Promise!Run
      BY <2>3, ReturnKeepsOrder DEF Promise!Run
    <2>4. ASSUME UNCHANGED <<functors, pendingFunctors_, executed>>
          PROVE  UNCHANGED <<todo, executed>>
      BY <2>4
    <2>5. CASE \E t \in Thread, f \in Functor : queueInLoop(t, f)
      BY <2>1, <2>5 DEF queueInLoop, Promise!Next
    <2>6. CASE \E f \in Functor : queueInOwnLoop(f)
      BY <2>1, <2>6 DEF queueInOwnLoop, Promise!Next
    <2>7. CASE swapFunctors
      BY <2>2, <2>7
    <2>8. CASE functorReturns
      BY <2>3, <2>8 DEF Promise!Next
    <2>9. CASE \/ \E t \in Thread : quit(t) \/ threadWakes(t)
               \/ quitOwnLoop \/ loop \/ testQuit \/ pollReturns \/ pollTimesOut
               \/ functorsDone
               \/ \E c \in Channel \cup {wakeupChannel} : handleEvent(c)
               \/ \E c \in Channel : inputArrives(c)
               \/ UNCHANGED vars
      <3>1. UNCHANGED <<functors, pendingFunctors_, executed>>
        BY <2>9 DEF quit, threadWakes, quitOwnLoop, loop, testQuit, pollReturns, pollTimesOut,
                    functorsDone, handleEvent, inputArrives, vars, queueVars, history
      <3> QED BY <2>4, <3>1
    <2> QED BY <2>5, <2>6, <2>7, <2>8, <2>9 DEF Next, LoopStep
  <1> QED BY <1>1, <1>2, Invariance, PTL DEF Spec, KeepsPromise, Promise!Spec
=============================================================================
