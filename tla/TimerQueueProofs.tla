-------------------------- MODULE TimerQueueProofs --------------------------
(* TimerQueue for every set of timers, intervals, length of a second and    *)
(* bound of the clock: the timerfd is readable when it is read, and no      *)
(* waiting timer is without an alarm.                                       *)
EXTENDS TimerQueue, TLAPS, SequenceTheorems

(* poll reports the timerfd first or not at all.                            *)
ActiveConsistent ==
    /\ pc \in {"poll", "functors"} => active = <<>>
    /\ pc = "callbacks" => active # <<>>
    /\ \A i \in DOMAIN active : i > 1 => active[i] = "other"

IInv == /\ Types
        /\ ActiveConsistent
        /\ ExpiredConsistent
        /\ ReadSucceeds
        /\ Covered

-----------------------------------------------------------------------------
(* Arming.                                                                  *)

LEMMA Division ==
    ASSUME NEW d \in Nat, NEW s \in Nat \ {0}
    PROVE  /\ d \div s \in Nat /\ d % s \in Nat
           /\ (d \div s) * s + (d % s) = d
           /\ (d \div s) * s \in Nat
  OBVIOUS

(* The conversion never asks for a later alarm than the timer's, and never  *)
(* for the zero that would disarm the timerfd.                              *)
LEMMA ArmedInTime ==
    ASSUME Types, NEW when \in Nat, resetTimerfd(when)
    PROVE  /\ alarm' \in Nat /\ alarm' # Disarmed
           /\ alarm' <= when \/ alarm' <= clock
           /\ fired' = FALSE
  <1> DEFINE delay == IF when - clock < 1 THEN 1 ELSE when - clock
             sec   == delay \div Second
             nsec  == delay % Second
  <1>1. clock \in Nat \ {0} /\ Second \in Nat \ {0, 1} /\ delay \in Nat \ {0}
    BY TimerQueueAssumption DEF Types, Time
  <1>2. /\ sec \in Nat /\ nsec \in Nat /\ sec * Second + nsec = delay /\ sec * Second \in Nat
    BY <1>1, Division
  <1>3. nsec \div 1000 \in Nat /\ nsec \div 1000 <= nsec
    BY <1>2
  <1>4. /\ alarm' = IF sec = 0 /\ nsec = 0 THEN Disarmed
                    ELSE clock + sec * Second + nsec \div 1000
        /\ fired' = FALSE
    BY DEF resetTimerfd, getTimeFromNow
  <1>5. ~(sec = 0 /\ nsec = 0)
    BY <1>1, <1>2
  <1>6. delay = 1 => sec = 0 /\ nsec \div 1000 = 0
    <2>1. ASSUME delay = 1 PROVE sec = 0 /\ nsec \div 1000 = 0
      <3> HIDE DEF delay
      <3>1. sec = 0
        BY <1>1, <2>1
      <3>2. nsec = 1
        BY <1>1, <1>2, <2>1, <3>1
      <3> QED BY <3>1, <3>2
    <2> QED BY <2>1
  <1> DEFINE ss == sec * Second
             ms == nsec \div 1000
  <1>7. /\ ss \in Nat /\ ms \in Nat /\ ms <= nsec /\ ss + nsec = delay
        /\ alarm' = clock + ss + ms
        /\ delay = 1 => ss = 0 /\ ms = 0
    BY <1>1, <1>2, <1>3, <1>4, <1>5, <1>6
  <1> HIDE DEF ss, ms, sec, nsec
  <1>8. CASE when - clock < 1
    BY <1>1, <1>4, <1>7, <1>8 DEF Disarmed
  <1>9. CASE ~(when - clock < 1)
    <2>1. alarm' <= when /\ alarm' >= clock /\ alarm' \in Nat
      BY <1>1, <1>2, <1>7, <1>9
    <2> QED BY <1>1, <1>4, <2>1 DEF Disarmed
  <1> QED BY <1>8, <1>9

-----------------------------------------------------------------------------
(* The invariant.                                                           *)

LEMMA InitInv == Init => IInv
  <1> SUFFICES ASSUME Init PROVE IInv
    OBVIOUS
  <1>1. Types
    <2>1. <<>> \in Seq({"timerfd", "other"}) /\ 1 \in Time
      BY TimerQueueAssumption, EmptySeq DEF Time
    <2> QED BY <2>1 DEF Init, Types, Disarmed
  <1>2. ActiveConsistent /\ ExpiredConsistent /\ ReadSucceeds /\ Covered
    BY DEF Init, ActiveConsistent, ExpiredConsistent, ReadSucceeds, Covered
  <1> QED BY <1>1, <1>2 DEF IInv

(* A new timer is covered by the alarm it sets or, if it is not the first,  *)
(* by the alarm of the one before it.                                       *)
LEMMA AddInv ==
    ASSUME IInv, NEW t \in Timer, NEW when \in Time, addTimerInLoop(t, when)
    PROVE  IInv'
  <1>1. /\ InUserCode /\ t \notin timers_ /\ t \notin expired
        /\ timers_' = timers_ \cup {t}
        /\ expiration_' = [expiration_ EXCEPT ![t] = when]
        /\ UNCHANGED <<clock, finished, readVars, loopVars>>
    BY DEF addTimerInLoop, Added
  <1>2. when \in Nat
    BY DEF Time
  <1>3. /\ expiration_' \in [Timer -> Nat] /\ expiration_'[t] = when
        /\ \A u \in Timer : u # t => expiration_'[u] = expiration_[u]
    BY <1>1, <1>2 DEF IInv, Types
  <1>4. ~(pc = "handle" /\ active # <<>> /\ Head(active) = "timerfd")
    BY <1>1 DEF InUserCode
  <1>5. ActiveConsistent' /\ ReadSucceeds'
    BY <1>1, <1>4 DEF IInv, ActiveConsistent, ReadSucceeds, loopVars
  <1>6. ExpiredConsistent'
    BY <1>1, <1>3 DEF IInv, Types, ExpiredConsistent, loopVars, readVars
  <1>7. CASE earliestChanged(when)
    <2>1. resetTimerfd(when)
      BY <1>7 DEF addTimerInLoop
    <2>2. /\ alarm' \in Nat /\ alarm' # Disarmed /\ fired' = FALSE
          /\ alarm' <= when \/ alarm' <= clock
      BY <1>2, <2>1, ArmedInTime DEF IInv
    <2>3. Types'
      BY <1>1, <1>3, <2>2 DEF IInv, Types, readVars, loopVars
    <2>4. \A u \in timers_ : when < expiration_[u]
      BY <1>7 DEF earliestChanged
    <2>5. ASSUME NEW u \in timers_'
          PROVE  alarm' <= expiration_'[u] \/ alarm' <= clock
      <3>1. CASE u = t
        BY <1>3, <2>2, <3>1
      <3>2. CASE u # t
        <4>1. u \in timers_ /\ u \in Timer /\ expiration_'[u] = expiration_[u]
              /\ expiration_[u] \in Nat /\ clock \in Nat
          BY <1>1, <1>3, <3>2 DEF IInv, Types, Time
        <4> QED BY <1>2, <2>2, <2>4, <4>1
      <3> QED BY <3>1, <3>2
    <2>6. Covered'
      BY <1>1, <2>2, <2>5 DEF Covered
    <2> QED BY <1>5, <1>6, <2>3, <2>6 DEF IInv
  <1>8. CASE ~earliestChanged(when)
    <2>1. UNCHANGED fdVars
      BY <1>8 DEF addTimerInLoop
    <2>2. Types'
      BY <1>1, <1>3, <2>1 DEF IInv, Types, readVars, loopVars, fdVars
    <2>3. PICK first \in timers_ : expiration_[first] <= when
      BY <1>2, <1>8 DEF earliestChanged, IInv, Types
    <2>4. ASSUME NEW u \in timers_', pc # "callbacks"
          PROVE  fired \/ (alarm # Disarmed /\ (alarm <= expiration_'[u] \/ alarm <= clock))
      <3>1. CASE u = t
        <4>1. \/ fired
              \/ alarm # Disarmed /\ (alarm <= expiration_[first] \/ alarm <= clock)
          BY <2>4 DEF IInv, Covered
        <4>2. expiration_[first] \in Nat /\ alarm \in Nat
          BY DEF IInv, Types
        <4> QED BY <1>2, <1>3, <2>3, <3>1, <4>1, <4>2
      <3>2. CASE u # t
        BY <1>1, <1>3, <2>4, <3>2 DEF IInv, Types, Covered
      <3> QED BY <3>1, <3>2
    <2>5. Covered'
      BY <1>1, <2>1, <2>4 DEF Covered, fdVars, loopVars
    <2> QED BY <1>5, <1>6, <2>2, <2>5 DEF IInv
  <1> QED BY <1>7, <1>8

LEMMA HandleReadInv ==
    ASSUME IInv, handleRead
    PROVE  IInv'
  <1>1. /\ pc' = "callbacks" /\ fired' = FALSE /\ now' = clock /\ clock' = clock
        /\ expired' = getExpired /\ called' = {} /\ timers_' = timers_ \ getExpired
        /\ UNCHANGED <<expiration_, finished, alarm, active>>
        /\ active # <<>>
    BY DEF handleRead
  <1>2. getExpired \in SUBSET Timer /\ \A t \in getExpired : expiration_[t] <= clock
    BY DEF getExpired, IInv, Types
  <1>3. clock \in Time /\ clock \in Nat
    BY DEF IInv, Types, Time
  <1>4. Types'
    BY <1>1, <1>2, <1>3 DEF IInv, Types
  <1>5. ActiveConsistent' /\ ReadSucceeds' /\ Covered'
    BY <1>1 DEF IInv, ActiveConsistent, ReadSucceeds, Covered
  <1>6. ExpiredConsistent'
    BY <1>1, <1>2, <1>3 DEF ExpiredConsistent
  <1> QED BY <1>4, <1>5, <1>6 DEF IInv

(* After the callbacks the alarm is set for the first of the timers that    *)
(* wait, the repeated ones among them.                                      *)
LEMMA ResetInv ==
    ASSUME IInv, reset
    PROVE  /\ IInv'
           /\ \A t \in expired : t \in timers_' => Interval[t] > 0 /\ expiration_'[t] > expiration_[t]
  <1> DEFINE again == {t \in expired : repeat(t)}
  <1>1. /\ pc = "callbacks" /\ pc' = "handle" /\ expired' = {} /\ called' = {}
        /\ active' = Tail(active) /\ clock' = clock /\ now' = now
        /\ timers_' = timers_ \cup again
        /\ expiration_' = [t \in Timer |-> IF t \in again THEN now + Interval[t]
                                                          ELSE expiration_[t]]
        /\ finished' = finished \cup (expired \ again)
    BY DEF reset, restart
  <1>2. expired \in SUBSET Timer /\ again \in SUBSET expired /\ now \in Nat /\ clock \in Nat
    BY DEF IInv, Types, Time
  <1>3. expiration_' \in [Timer -> Nat]
    BY <1>1, <1>2, TimerQueueAssumption DEF IInv, Types
  <1>4. active # <<>> /\ active \in Seq({"timerfd", "other"})
    BY <1>1 DEF IInv, Types, ActiveConsistent
  <1>5. /\ active' \in Seq({"timerfd", "other"})
        /\ \A i \in DOMAIN active' : active'[i] = "other"
    <2>1. /\ active' \in Seq({"timerfd", "other"}) /\ Len(active') = Len(active) - 1
          /\ \A i \in 1 .. Len(active') : active'[i] = active[i + 1]
      BY <1>1, <1>4, HeadTailProperties
    <2>2. DOMAIN active' = 1 .. Len(active') /\ DOMAIN active = 1 .. Len(active)
          /\ Len(active) \in Nat
      BY <1>4, <2>1, LenProperties
    <2>3. \A i \in 1 .. Len(active') : i + 1 \in DOMAIN active /\ i + 1 > 1
      BY <2>1, <2>2
    <2> QED BY <2>1, <2>2, <2>3 DEF IInv, ActiveConsistent
  <1>6. ReadSucceeds' /\ ActiveConsistent'
    <2>1. active' # <<>> => Head(active') = "other"
      BY <1>5
    <2> QED BY <1>1, <1>5, <2>1 DEF ReadSucceeds, ActiveConsistent
  <1>7. ExpiredConsistent'
    BY <1>1 DEF IInv, ExpiredConsistent
  <1>8. alarm' \in Nat /\ fired' \in BOOLEAN /\ Covered'
    <2>1. CASE timers_' = {}
      <3>1. UNCHANGED fdVars
        BY <2>1 DEF reset
      <3> QED BY <2>1, <3>1 DEF fdVars, IInv, Types, Covered
    <2>2. CASE timers_' # {}
      <3>1. PICK first \in timers_' : /\ \A t \in timers_' : expiration_'[first] <= expiration_'[t]
                                      /\ resetTimerfd(expiration_'[first])
        BY <2>2 DEF reset
      <3>2. timers_' \in SUBSET Timer
        BY <1>1, <1>2 DEF IInv, Types
      <3>3. expiration_'[first] \in Nat
        BY <1>3, <3>2
      <3>4. /\ alarm' \in Nat /\ alarm' # Disarmed /\ fired' = FALSE
            /\ alarm' <= expiration_'[first] \/ alarm' <= clock
        BY <3>1, <3>3, ArmedInTime DEF IInv
      <3>5. ASSUME NEW t \in timers_'
            PROVE  alarm' <= expiration_'[t] \/ alarm' <= clock
        <4>1. expiration_'[t] \in Nat /\ expiration_'[first] <= expiration_'[t]
          BY <1>3, <3>1, <3>2
        <4> QED BY <1>2, <3>3, <3>4, <4>1
      <3> QED BY <1>1, <3>4, <3>5 DEF Covered
    <2> QED BY <2>1, <2>2
  <1>9. Types'
    BY <1>1, <1>2, <1>3, <1>5, <1>8 DEF IInv, Types
  <1>10. \A t \in expired : t \in timers_' => Interval[t] > 0 /\ expiration_'[t] > expiration_[t]
    <2>1. ASSUME NEW t \in expired, t \in timers_'
          PROVE  Interval[t] > 0 /\ expiration_'[t] > expiration_[t]
      <3>1. t \in again /\ t \in Timer
        BY <1>1, <1>2, <2>1 DEF IInv, ExpiredConsistent
      <3>2. repeat(t) /\ Interval[t] \in Nat /\ Interval[t] > 0
        BY <3>1, TimerQueueAssumption DEF repeat
      <3>3. expiration_[t] \in Nat /\ expiration_[t] <= now
        BY <3>1, <2>1 DEF IInv, Types, ExpiredConsistent
      <3>4. expiration_'[t] = now + Interval[t]
        BY <1>1, <3>1
      <3> QED BY <1>2, <3>2, <3>3, <3>4
    <2> QED BY <2>1
  <1> QED BY <1>6, <1>7, <1>8, <1>9, <1>10 DEF IInv

LEMMA StepInv ==
    ASSUME IInv, [Next]_vars
    PROVE  IInv'
  <1> USE DEF queueVars, readVars, fdVars, loopVars
  <1>1. ASSUME NEW t \in Timer, NEW when \in Time, addTimerInLoop(t, when) PROVE IInv'
    BY <1>1, AddInv
  <1>2. ASSUME handleRead PROVE IInv'
    BY <1>2, HandleReadInv
  <1>3. ASSUME NEW t \in Timer, run(t) PROVE IInv'
    <2>1. Types'
      BY <1>3 DEF run, IInv, Types
    <2>2. ActiveConsistent' /\ ExpiredConsistent' /\ ReadSucceeds' /\ Covered'
      BY <1>3 DEF run, IInv, ActiveConsistent, ExpiredConsistent, ReadSucceeds, Covered
    <2> QED BY <2>1, <2>2 DEF IInv
  <1>4. ASSUME reset PROVE IInv'
    BY <1>4, ResetInv
  <1>5. ASSUME poll PROVE IInv'
    <2>1. PICK otherReady \in BOOLEAN : /\ fired \/ otherReady
                                        /\ active' = InPollOrder(fired, otherReady)
      BY <1>5 DEF poll
    <2>2. /\ active' \in Seq({"timerfd", "other"})
          /\ active' # <<>> /\ Head(active') = "timerfd" => fired
          /\ \A i \in DOMAIN active' : i > 1 => active'[i] = "other"
      <3>1. CASE fired /\ otherReady
        <4>1. active' = <<"timerfd", "other">>
          BY <2>1, <3>1 DEF InPollOrder
        <4> QED BY <3>1, <4>1
      <3>2. CASE fired /\ ~otherReady
        <4>1. active' = <<"timerfd">>
          BY <2>1, <3>2 DEF InPollOrder
        <4> QED BY <3>2, <4>1
      <3>3. CASE ~fired /\ otherReady
        <4>1. active' = <<"other">>
          BY <2>1, <3>3 DEF InPollOrder
        <4> QED BY <4>1
      <3> QED BY <2>1, <3>1, <3>2, <3>3 DEF IInv, Types
    <2>3. /\ pc = "poll" /\ pc' = "handle"
          /\ UNCHANGED <<clock, queueVars, readVars, fdVars>>
      BY <1>5 DEF poll
    <2>4. Types'
      BY <2>2, <2>3 DEF IInv, Types
    <2>5. ActiveConsistent' /\ ExpiredConsistent' /\ ReadSucceeds' /\ Covered'
      BY <2>2, <2>3 DEF IInv, ActiveConsistent, ExpiredConsistent, ReadSucceeds, Covered
    <2> QED BY <2>4, <2>5 DEF IInv
  <1>6. ASSUME otherHandlerReturns PROVE IInv'
    <2>1. /\ pc = "handle" /\ active # <<>> /\ active \in Seq({"timerfd", "other"})
          /\ active' = Tail(active)
          /\ UNCHANGED <<clock, queueVars, readVars, fdVars, pc>>
      BY <1>6 DEF otherHandlerReturns, IInv, Types
    <2>2. /\ active' \in Seq({"timerfd", "other"})
          /\ \A i \in DOMAIN active' : i + 1 \in DOMAIN active /\ i + 1 > 1
                                       /\ active'[i] = active[i + 1]
      BY <2>1
    <2>3. \A i \in DOMAIN active' : active'[i] = "other"
      BY <2>2 DEF IInv, ActiveConsistent
    <2>4. active' # <<>> => Head(active') = "other"
      BY <2>2, <2>3
    <2>5. Types'
      BY <2>1, <2>2 DEF IInv, Types
    <2>6. ActiveConsistent' /\ ExpiredConsistent' /\ ReadSucceeds' /\ Covered'
      BY <2>1, <2>3, <2>4 DEF IInv, ActiveConsistent, ExpiredConsistent, ReadSucceeds, Covered
    <2> QED BY <2>5, <2>6 DEF IInv
  <1>7. ASSUME doPendingFunctors \/ nextIteration PROVE IInv'
    <2>1. /\ active = <<>> /\ pc \in {"handle", "functors"} /\ pc' \in {"functors", "poll"}
          /\ UNCHANGED <<clock, queueVars, readVars, fdVars, active>>
      BY <1>7 DEF doPendingFunctors, nextIteration, IInv, ActiveConsistent
    <2>2. Types' /\ ActiveConsistent' /\ ExpiredConsistent' /\ ReadSucceeds' /\ Covered'
      BY <2>1 DEF IInv, Types, ActiveConsistent, ExpiredConsistent, ReadSucceeds, Covered
    <2> QED BY <2>2 DEF IInv
  <1>8. ASSUME tick PROVE IInv'
    <2>1. /\ clock' = clock + 1 /\ clock' \in Time /\ clock \in Nat
          /\ UNCHANGED <<queueVars, readVars, fdVars, loopVars>>
      BY <1>8, TimerQueueAssumption DEF tick, IInv, Types, Time
    <2>2. Types' /\ ActiveConsistent' /\ ReadSucceeds'
      BY <2>1 DEF IInv, Types, ActiveConsistent, ReadSucceeds
    <2>3. now' <= clock' /\ (alarm <= clock => alarm' <= clock')
      BY <2>1 DEF IInv, Types, ExpiredConsistent, Time
    <2>4. ExpiredConsistent' /\ Covered'
      BY <2>1, <2>3 DEF IInv, ExpiredConsistent, Covered
    <2> QED BY <2>2, <2>4 DEF IInv
  <1>9. ASSUME timerfdFires PROVE IInv'
    <2>1. /\ fired' = TRUE /\ alarm' = 0
          /\ UNCHANGED <<clock, queueVars, readVars, loopVars>>
      BY <1>9 DEF timerfdFires, Disarmed
    <2>2. Types' /\ ActiveConsistent' /\ ExpiredConsistent' /\ ReadSucceeds' /\ Covered'
      BY <2>1 DEF IInv, Types, ActiveConsistent, ExpiredConsistent, ReadSucceeds, Covered
    <2> QED BY <2>2 DEF IInv
  <1>10. ASSUME UNCHANGED vars PROVE IInv'
    <2>1. Types' /\ ActiveConsistent' /\ ExpiredConsistent' /\ ReadSucceeds' /\ Covered'
      BY <1>10 DEF vars, IInv, Types, ActiveConsistent, ExpiredConsistent, ReadSucceeds, Covered
    <2> QED BY <2>1 DEF IInv
  <1> QED
    BY <1>1, <1>2, <1>3, <1>4, <1>5, <1>6, <1>7, <1>8, <1>9, <1>10 DEF Next, LoopStep

LEMMA Invariance == Spec => []IInv
  <1>1. IInv /\ [Next]_vars => IInv'
    BY StepInv
  <1> QED BY <1>1, InitInv, PTL DEF Spec

-----------------------------------------------------------------------------
(* The theorems.                                                            *)

(* The variables keep their types; what handleRead took out is expired and  *)
(* out of the set until reset.                                              *)
THEOREM TypeSafety == Spec => []TypeOK
  <1>1. IInv => TypeOK
    BY DEF IInv, TypeOK
  <1> QED BY <1>1, Invariance, PTL

(* The assert in readTimerfd cannot fail.                                   *)
THEOREM ReadSafety == Spec => []ReadSucceeds
  <1>1. IInv => ReadSucceeds
    BY DEF IInv
  <1> QED BY <1>1, Invariance, PTL

(* No timer waits without an alarm in time for it, for any intervals and    *)
(* any precision of the conversion.                                         *)
THEOREM CoverSafety == Spec => []Covered
  <1>1. IInv => Covered
    BY DEF IInv
  <1> QED BY <1>1, Invariance, PTL

(* getExpired lets no timer run early.                                      *)
THEOREM NeverEarlySafety == Spec => NeverEarly
  <1>1. IInv /\ [Next]_vars
          => [\A t \in Timer : t \in called' \ called => expiration_[t] <= clock]_vars
    <2> SUFFICES ASSUME IInv, Next, NEW t \in Timer, t \in called' \ called
                 PROVE  expiration_[t] <= clock
      BY DEF vars, readVars
    <2>1. PICK u \in Timer : run(u)
      BY DEF Next, LoopStep, addTimerInLoop, handleRead, reset, poll, otherHandlerReturns,
             doPendingFunctors, nextIteration, tick, timerfdFires, readVars
    <2>2. t \in expired
      BY <2>1 DEF run
    <2>3. expiration_[t] \in Nat /\ now \in Nat /\ clock \in Nat
      BY DEF IInv, Types, Time
    <2> QED BY <2>2, <2>3 DEF IInv, ExpiredConsistent
  <1> QED BY <1>1, Invariance, PTL DEF Spec, NeverEarly

(* reset puts back the repeated timers only, each for a later time.         *)
THEOREM RepeatSafety == Spec => RepeatsLater
  <1>1. IInv /\ [Next]_vars
          => [\A t \in Timer : t \in called /\ t \in timers_' \ timers_
                 => Interval[t] > 0 /\ expiration_'[t] > expiration_[t]]_vars
    <2> SUFFICES ASSUME IInv, Next, NEW t \in Timer, t \in called, t \in timers_' \ timers_
                 PROVE  Interval[t] > 0 /\ expiration_'[t] > expiration_[t]
      BY DEF vars, queueVars
    <2>1. t \in expired
      BY DEF IInv, Types
    <2>2. ASSUME NEW u \in Timer, NEW when \in Time, addTimerInLoop(u, when) PROVE FALSE
      BY <2>1, <2>2 DEF addTimerInLoop, Added
    <2>3. reset
      BY <2>2 DEF Next, LoopStep, handleRead, run, poll, otherHandlerReturns,
                  doPendingFunctors, nextIteration, tick, timerfdFires, queueVars
    <2> QED BY <2>1, <2>3, ResetInv
  <1> QED BY <1>1, Invariance, PTL DEF Spec, RepeatsLater
=============================================================================
