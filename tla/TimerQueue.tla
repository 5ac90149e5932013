----------------------------- MODULE TimerQueue -----------------------------
(***************************************************************************)
(* RN::TimerQueue and RN::Timer on the loop thread: a set of timers        *)
(* ordered by expiration and one timerfd armed for the earliest.  The      *)
(* arming is a conversion that loses most of its precision: getTimeFromNow *)
(* puts the microseconds of the last second into tv_nsec unscaled, so the  *)
(* timerfd fires up to a second early and handleRead finds nothing to run. *)
(*                                                                         *)
(* Time is counted in units of the shortest delay the code arms (100 us).  *)
(* Timers from other threads arrive as functors (EventLoop), so adding a   *)
(* timer is always the loop thread's: in a handler, a functor, or in the   *)
(* callback of another timer.                                              *)
(***************************************************************************)
EXTENDS Integers, Sequences

CONSTANTS Timer,      \* the Timer objects
          Interval,   \* Timer::interval_, 0 for a timer that runs once
          Second,     \* units in a second (10000 in the code)
          MaxTime     \* bound: the clock stops here

ASSUME TimerQueueAssumption ==
    /\ Interval \in [Timer -> Nat]
    /\ Second \in Nat \ {0, 1}
    /\ MaxTime \in Nat \ {0}

(* The valid Timestamps.                                                    *)
Time     == 1 .. MaxTime
Disarmed == 0

VARIABLES
    clock,       \* Timestamp::now()
    timers_,     \* timers in the set, each under its own expiration
    expiration_, \* Timer::expiration_
    finished,    \* timers that ran and are not repeated
    expired,     \* handleRead's vector of expired entries
    called,      \* those of them whose callback has been called
    now,         \* handleRead's now
    alarm,       \* when the timerfd fires, or Disarmed
    fired,       \* the timerfd is readable
    pc,          \* the loop thread in EventLoop::loop
    active       \* what poll reported and is not yet handled

queueVars == <<timers_, expiration_, finished>>
readVars  == <<expired, called, now>>
fdVars    == <<alarm, fired>>
loopVars  == <<pc, active>>
vars      == <<clock, queueVars, readVars, fdVars, loopVars>>

Types ==
    /\ clock \in Time
    /\ timers_ \in SUBSET Timer
    /\ expiration_ \in [Timer -> Nat]
    /\ finished \in SUBSET Timer
    /\ expired \in SUBSET Timer /\ called \in SUBSET expired
    /\ now \in Time
    /\ alarm \in Nat
    /\ fired \in BOOLEAN
    /\ pc \in {"poll", "handle", "callbacks", "functors"}
    /\ active \in Seq({"timerfd", "other"})

(* What handleRead took out of the set is expired and in no other place.    *)
ExpiredConsistent ==
    /\ pc # "callbacks" => expired = {}
    /\ expired \cap timers_ = {}
    /\ now <= clock
    /\ \A t \in expired : expiration_[t] <= now

TypeOK == Types /\ ExpiredConsistent

Init ==
    /\ clock = 1
    /\ timers_ = {} /\ expiration_ = [t \in Timer |-> 0] /\ finished = {}
    /\ expired = {} /\ called = {} /\ now = 1
    /\ alarm = Disarmed /\ fired = FALSE
    /\ pc = "functors"     \* timers added before loop()
    /\ active = <<>>

-----------------------------------------------------------------------------
(* Arming.  timerfd_settime forgets an expiration not yet read, and a zero  *)
(* it_value disarms.  What getTimeFromNow left in tv_nsec are microseconds, *)
(* a thousand times too small.                                              *)

(* Mutation: a timer already due gets no delay, and zero disarms.           *)
TimeFromNowUnclamped(when) ==
    LET delay == IF when - clock < 0 THEN 0 ELSE when - clock
    IN  [sec |-> delay \div Second, nsec |-> delay % Second]

getTimeFromNow(when) ==
    LET delay == IF when - clock < 1 THEN 1 ELSE when - clock
    IN  [sec |-> delay \div Second, nsec |-> delay % Second]

resetTimerfd(when) ==
    LET ts == getTimeFromNow(when)
    IN  /\ alarm' = IF ts.sec = 0 /\ ts.nsec = 0
                    THEN Disarmed
                    ELSE clock + ts.sec * Second + ts.nsec \div 1000
        /\ fired' = FALSE

(* Mutation: only the first timer of an empty set arms the timerfd.         *)
EmptyBefore(when) == timers_ = {}

earliestChanged(when) == \A t \in timers_ : when < expiration_[t]

-----------------------------------------------------------------------------
(* runAt, runAfter, runEvery, addTimer, addTimerInLoop.                     *)

InUserCode ==
    \/ pc = "functors"
    \/ pc = "callbacks" /\ called # {}
    \/ pc = "handle" /\ active # <<>> /\ Head(active) = "other"

Added == timers_ \cup expired \cup finished

addTimerInLoop(t, when) ==
    /\ InUserCode /\ t \notin Added
    /\ timers_' = timers_ \cup {t}
    /\ expiration_' = [expiration_ EXCEPT ![t] = when]
    /\ IF earliestChanged(when) THEN resetTimerfd(when) ELSE UNCHANGED fdVars
    /\ UNCHANGED <<clock, finished, readVars, loopVars>>

-----------------------------------------------------------------------------
(* handleRead: read the timerfd, take what has expired out of the set, call *)
(* back in order of expiration, put the repeated timers back and re-arm.    *)

(* Mutation: the guard of the search is a unit too late.                    *)
ExpiredTooSoon == {t \in timers_ : expiration_[t] <= clock + 1}

getExpired == {t \in timers_ : expiration_[t] <= clock}

(* Mutation: what has expired is copied and not erased.                     *)
HandleReadKeeps ==
    /\ pc = "handle" /\ active # <<>> /\ Head(active) = "timerfd"
    /\ fired
    /\ fired' = FALSE
    /\ now' = clock
    /\ expired' = getExpired
    /\ called' = {}
    /\ pc' = "callbacks"
    /\ UNCHANGED <<clock, queueVars, alarm, active>>

handleRead ==
    /\ pc = "handle" /\ active # <<>> /\ Head(active) = "timerfd"
    /\ fired                     \* readTimerfd's assert
    /\ fired' = FALSE
    /\ now' = clock
    /\ expired' = getExpired
    /\ called' = {}
    /\ timers_' = timers_ \ getExpired
    /\ pc' = "callbacks"
    /\ UNCHANGED <<clock, expiration_, finished, alarm, active>>

run(t) ==
    /\ pc = "callbacks" /\ t \in expired \ called
    /\ \A u \in expired \ called : expiration_[t] <= expiration_[u]
    /\ called' = called \cup {t}
    /\ UNCHANGED <<clock, queueVars, expired, now, fdVars, loopVars>>

repeat(t)  == Interval[t] > 0
restart(t) == now + Interval[t]

reset ==
    /\ pc = "callbacks" /\ called = expired
    /\ LET again == {t \in expired : repeat(t)}
       IN  /\ timers_' = timers_ \cup again
           /\ expiration_' = [t \in Timer |-> IF t \in again THEN restart(t)
                                                             ELSE expiration_[t]]
           /\ finished' = finished \cup (expired \ again)
    /\ IF timers_' = {}
       THEN UNCHANGED fdVars
       ELSE \E first \in timers_' :
               /\ \A t \in timers_' : expiration_'[first] <= expiration_'[t]
               /\ resetTimerfd(expiration_'[first])
    /\ expired' = {} /\ called' = {}
    /\ pc' = "handle"
    /\ active' = Tail(active)
    /\ UNCHANGED <<clock, now>>

-----------------------------------------------------------------------------
(* The loop around it.  The timerfd's channel is registered by the          *)
(* EventLoop's constructor before any other, and Poller keeps the entry at  *)
(* the front at the front, so poll reports it first.                        *)

(* Mutation: the timerfd's channel is reported after the others.            *)
OtherFirst(timerReady, otherReady) ==
    CASE timerReady /\ otherReady -> <<"other", "timerfd">>
      [] timerReady /\ ~otherReady -> <<"timerfd">>
      [] OTHER -> <<"other">>

InPollOrder(timerReady, otherReady) ==
    CASE timerReady /\ otherReady -> <<"timerfd", "other">>
      [] timerReady /\ ~otherReady -> <<"timerfd">>
      [] OTHER -> <<"other">>

poll ==
    /\ pc = "poll"
    /\ \E otherReady \in BOOLEAN : /\ fired \/ otherReady
                                   /\ active' = InPollOrder(fired, otherReady)
    /\ pc' = "handle"
    /\ UNCHANGED <<clock, queueVars, readVars, fdVars>>

otherHandlerReturns ==
    /\ pc = "handle" /\ active # <<>> /\ Head(active) = "other"
    /\ active' = Tail(active)
    /\ UNCHANGED <<clock, queueVars, readVars, fdVars, pc>>

doPendingFunctors ==
    /\ pc = "handle" /\ active = <<>>
    /\ pc' = "functors"
    /\ UNCHANGED <<clock, queueVars, readVars, fdVars, active>>

nextIteration ==
    /\ pc = "functors"
    /\ pc' = "poll"
    /\ UNCHANGED <<clock, queueVars, readVars, fdVars, active>>

(* The kernel: time passes, the timerfd fires some time after its alarm.    *)
tick ==
    /\ clock < MaxTime
    /\ clock' = clock + 1
    /\ UNCHANGED <<queueVars, readVars, fdVars, loopVars>>

timerfdFires ==
    /\ alarm # Disarmed /\ alarm <= clock
    /\ fired' = TRUE
    /\ alarm' = Disarmed
    /\ UNCHANGED <<clock, queueVars, readVars, loopVars>>

LoopStep ==
    \/ handleRead
    \/ \E t \in Timer : run(t)
    \/ reset
    \/ otherHandlerReturns
    \/ doPendingFunctors
    \/ nextIteration

Next ==
    \/ \E t \in Timer, when \in Time : addTimerInLoop(t, when)
    \/ LoopStep
    \/ poll
    \/ tick
    \/ timerfdFires

Spec == Init /\ [][Next]_vars

(* Handlers and functors return, a poll with a readable timerfd returns,    *)
(* time passes and alarms go off.  Other input need not ever arrive.        *)
FairSpec == /\ Spec
            /\ WF_vars(LoopStep) /\ WF_vars(poll /\ fired)
            /\ WF_vars(tick) /\ WF_vars(timerfdFires)

-----------------------------------------------------------------------------
(* Properties.                                                              *)

(* readTimerfd's assert holds: a timerfd that poll reported readable is     *)
(* still so when its handler reads it, although arming it again would take  *)
(* the expiration away. (TimerQueue.cpp:52)                                 *)
ReadSucceeds ==
    pc = "handle" /\ active # <<>> /\ Head(active) = "timerfd" => fired

(* Whenever the loop can block, every timer waiting is covered by an alarm  *)
(* that is due no later than the timer, or is due already.                  *)
(* (addTimerInLoop, reset)                                                  *)
Covered ==
    pc # "callbacks" =>
        \A t \in timers_ : \/ fired
                           \/ /\ alarm # Disarmed
                              /\ alarm <= expiration_[t] \/ alarm <= clock

(* No callback runs before its timer's expiration, however early the        *)
(* timerfd fires. (getExpired)                                              *)
NeverEarly ==
    [][\A t \in Timer : t \in called' \ called => expiration_[t] <= clock]_vars

(* A timer that runs once is never queued again, and a repeated one is      *)
(* queued for a time after the run. (reset, Timer::restart)                 *)
RepeatsLater ==
    [][\A t \in Timer : t \in called /\ t \in timers_' \ timers_
          => Interval[t] > 0 /\ expiration_'[t] > expiration_[t]]_vars

(* Every timer due within the bound is run. (the whole of TimerQueue)       *)
EveryTimerRuns ==
    \A t \in Timer : t \in timers_ /\ expiration_[t] <= MaxTime ~> t \in called
=============================================================================
