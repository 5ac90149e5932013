-------------------------- MODULE ThreadPoolProofs --------------------------
(* ThreadPool for every set of workers, posters and tasks: no notification  *)
(* is lost, and the queue keeps the promise of TaskQueue.                   *)
EXTENDS ThreadPool, TLAPS, FiniteSetTheorems, SequenceTheorems

Place == {"none", "idle", "test", "take", "empty", "run", "post", "full", "gone"}

(* The threads that f puts in one place; Parked is At for pc.               *)
At(f, where) == {x \in Thread : f[x] = where}

Holding(x) == pc[x] \in {"run", "post", "full"}

Once(s) == \A i, j \in 1 .. Len(s) : s[i] = s[j] => i = j

(* A task is in one place: with a thread, in the queue, or done.            *)
OnePlace ==
    /\ \A x \in Thread : Holding(x) => task[x] \notin Range(taskQueue_)
    /\ \A x, y \in Thread :
          x # y /\ Holding(x) /\ Holding(y) => task[x] # task[y]
    /\ \A x \in Thread : pc[x] \in {"post", "full"} => task[x] \notin Range(taken)
    /\ Range(taskQueue_) \cap Range(taken) = {}
    /\ Range(taskQueue_) \cup Range(taken) \cup ran \subseteq posted
    /\ Once(taskQueue_)

(* What a task posts is not posted before it has run.                       *)
SpawnsLater == \A t \in Task \ ran : Spawns[t] # None => Spawns[t] \notin posted

NotStarted == \A w \in Worker \ threads_ : pc[w] = "none"

IInv == TypeOK /\ NoLostNotify /\ OnePlace /\ SpawnsLater /\ NotStarted

-----------------------------------------------------------------------------
(* Sequences without repetition.                                            *)

(* push_back adds one element.                                              *)
LEMMA RangeAppend ==
    ASSUME NEW S, NEW s \in Seq(S), NEW e \in S
    PROVE  Range(Append(s, e)) = Range(s) \cup {e}
  <1>1. /\ Len(s) \in Nat /\ DOMAIN s = 1 .. Len(s)
        /\ DOMAIN Append(s, e) = 1 .. Len(s) + 1
        /\ \A i \in 1 .. Len(s) : Append(s, e)[i] = s[i]
        /\ Append(s, e)[Len(s) + 1] = e
    BY AppendProperties, LenProperties
  <1> QED BY <1>1 DEF Range

(* A new element keeps the queue without repetition.                        *)
LEMMA OnceAppend ==
    ASSUME NEW S, NEW s \in Seq(S), NEW e \in S, Once(s), e \notin Range(s)
    PROVE  Once(Append(s, e))
  <1>1. /\ Len(s) \in Nat /\ DOMAIN s = 1 .. Len(s)
        /\ Len(Append(s, e)) = Len(s) + 1
        /\ \A i \in 1 .. Len(s) : Append(s, e)[i] = s[i]
        /\ Append(s, e)[Len(s) + 1] = e
    BY AppendProperties, LenProperties
  <1>2. \A i \in 1 .. Len(s) : s[i] # e
    BY <1>1 DEF Range
  <1> QED BY <1>1, <1>2 DEF Once

(* pop_front removes the head, and nothing else.                            *)
LEMMA OnceHeadTail ==
    ASSUME NEW S, NEW s \in Seq(S), s # <<>>, Once(s)
    PROVE  /\ Head(s) \in S /\ Tail(s) \in Seq(S)
           /\ Len(Tail(s)) = Len(s) - 1 /\ Len(s) \in Nat \ {0}
           /\ Head(s) \in Range(s)
           /\ Range(Tail(s)) = Range(s) \ {Head(s)}
           /\ Once(Tail(s))
  <1>1. /\ Len(s) \in Nat \ {0} /\ DOMAIN s = 1 .. Len(s)
        /\ Head(s) \in S /\ Tail(s) \in Seq(S) /\ Head(s) = s[1]
        /\ Len(Tail(s)) = Len(s) - 1
        /\ \A i \in 1 .. Len(s) - 1 : Tail(s)[i] = s[i + 1]
    BY HeadTailProperties, LenProperties, EmptySeq
  <1>2. DOMAIN Tail(s) = 1 .. Len(s) - 1
    BY <1>1, LenProperties
  <1>3. Once(Tail(s))
    <2>1. ASSUME NEW i \in 1 .. Len(s) - 1, NEW j \in 1 .. Len(s) - 1,
                 Tail(s)[i] = Tail(s)[j]
          PROVE  i = j
      <3>1. s[i + 1] = s[j + 1] /\ i + 1 \in 1 .. Len(s) /\ j + 1 \in 1 .. Len(s)
        BY <1>1, <2>1
      <3>2. i + 1 = j + 1
        BY <3>1 DEF Once
      <3> QED BY <1>1, <3>2
    <2> QED BY <1>1, <2>1 DEF Once
  <1>4. ASSUME NEW e PROVE e \in Range(Tail(s)) <=> e \in Range(s) \ {Head(s)}
    <2>1. ASSUME e \in Range(Tail(s)) PROVE e \in Range(s) \ {Head(s)}
      <3>1. PICK i \in 1 .. Len(s) - 1 : e = Tail(s)[i]
        BY <1>2, <2>1 DEF Range
      <3>2. e = s[i + 1] /\ i + 1 \in 1 .. Len(s) /\ i + 1 # 1 /\ 1 \in 1 .. Len(s)
        BY <1>1, <3>1
      <3>3. s[i + 1] # s[1]
        BY <3>2 DEF Once
      <3> QED BY <1>1, <3>2, <3>3 DEF Range
    <2>2. ASSUME e \in Range(s) \ {Head(s)} PROVE e \in Range(Tail(s))
      <3>1. PICK i \in 1 .. Len(s) : e = s[i]
        BY <1>1, <2>2 DEF Range
      <3>2. i # 1
        BY <1>1, <2>2, <3>1
      <3>3. i - 1 \in 1 .. Len(s) - 1 /\ i = (i - 1) + 1
        BY <1>1, <3>1, <3>2
      <3>4. e = Tail(s)[i - 1]
        BY <1>1, <3>1, <3>3
      <3> QED BY <1>2, <3>3, <3>4 DEF Range
    <2> QED BY <2>1, <2>2
  <1>5. Head(s) \in Range(s)
    BY <1>1 DEF Range
  <1> QED BY <1>1, <1>3, <1>4, <1>5

-----------------------------------------------------------------------------
(* Counting the threads that are in one place.                              *)

LEMMA AtFinite ==
    ASSUME NEW f, NEW where
    PROVE  /\ IsFiniteSet(At(f, where)) /\ Cardinality(At(f, where)) \in Nat
           /\ Cardinality(At(f, where)) = 0 <=> At(f, where) = {}
  <1>1. IsFiniteSet(Thread)
    BY PoolAssumption, FS_Union DEF Thread
  <1>2. At(f, where) \subseteq Thread
    BY DEF At
  <1> QED BY <1>1, <1>2, FS_Subset, FS_CardinalityType, FS_EmptySet

(* One thread moves: one less where it was, one more where it goes.         *)
LEMMA Moves ==
    ASSUME NEW f, NEW g, NEW x \in Thread, NEW a, NEW b, a # b,
           f[x] = a, g[x] = b, \A y \in Thread \ {x} : g[y] = f[y]
    PROVE  /\ At(g, a) = At(f, a) \ {x} /\ At(g, b) = At(f, b) \cup {x}
           /\ Cardinality(At(g, a)) = Cardinality(At(f, a)) - 1
           /\ Cardinality(At(g, b)) = Cardinality(At(f, b)) + 1
           /\ \A c : c \notin {a, b} => At(g, c) = At(f, c)
  <1>2. /\ At(g, a) = At(f, a) \ {x} /\ At(g, b) = At(f, b) \cup {x}
        /\ \A c : c \notin {a, b} => At(g, c) = At(f, c)
        /\ x \in At(f, a) /\ x \notin At(f, b)
    BY DEF At
  <1> DEFINE From == At(f, a)
             To == At(f, b)
  <1>3. Cardinality(From \ {x}) = Cardinality(From) - 1
    <2>1. IsFiniteSet(From) /\ x \in From
      BY <1>2, AtFinite
    <2> HIDE DEF From
    <2> QED BY <2>1, FS_RemoveElement
  <1>4. Cardinality(To \cup {x}) = Cardinality(To) + 1
    <2>1. IsFiniteSet(To) /\ x \notin To
      BY <1>2, AtFinite
    <2> HIDE DEF To
    <2> QED BY <2>1, FS_AddElement
  <1> QED BY <1>2, <1>3, <1>4

(* A notify moves one of those who wait, if anyone does.                    *)
LEMMA NotifyMoves ==
    ASSUME NEW f \in [Thread -> Place],
           NEW where \in Place, NEW again \in Place, where # again,
           At(f, where) = Parked(where),
           NEW g \in AfterNotify(f, where, again)
    PROVE  /\ g \in [Thread -> Place]
           /\ \/ Parked(where) = {} /\ g = f
              \/ \E x \in Parked(where) :
                    /\ x \in Thread /\ f[x] = where
                    /\ g = [f EXCEPT ![x] = again]
                    /\ At(g, where) = At(f, where) \ {x}
                    /\ At(g, again) = At(f, again) \cup {x}
                    /\ Cardinality(At(g, where)) = Cardinality(At(f, where)) - 1
                    /\ Cardinality(At(g, again)) = Cardinality(At(f, again)) + 1
           /\ \A c : c \notin {where, again} => At(g, c) = At(f, c)
  <1>1. CASE Parked(where) = {}
    BY <1>1 DEF AfterNotify
  <1>2. CASE Parked(where) # {}
    <2>1. PICK x \in Parked(where) : g = [f EXCEPT ![x] = again]
      BY <1>2 DEF AfterNotify
    <2>2. x \in Thread /\ f[x] = where
      BY <2>1 DEF At
    <2>3. /\ g \in [Thread -> Place]
          /\ At(g, where) = At(f, where) \ {x}
          /\ At(g, again) = At(f, again) \cup {x}
          /\ Cardinality(At(g, where)) = Cardinality(At(f, where)) - 1
          /\ Cardinality(At(g, again)) = Cardinality(At(f, again)) + 1
          /\ \A c : c \notin {where, again} => At(g, c) = At(f, c)
      <3>1. /\ g \in [Thread -> Place] /\ g[x] = again
            /\ \A y \in Thread \ {x} : g[y] = f[y]
        BY <2>1, <2>2
      <3> QED BY ONLY <2>2, <3>1, Moves, where # again
    <2> QED BY <2>1, <2>2, <2>3
  <1> QED BY <1>1, <1>2

(* Parked counts with At.                                                   *)
LEMMA ParkedAt ==
    ASSUME NEW c
    PROVE  /\ Parked(c) = At(pc, c) /\ Parked(c)' = At(pc', c)
           /\ Cardinality(Parked(c)) \in Nat /\ Cardinality(Parked(c)') \in Nat
  <1>1. Parked(c) = At(pc, c) /\ Parked(c)' = At(pc', c)
    BY DEF Parked, At
  <1>2. Cardinality(At(pc, c)) \in Nat
    BY AtFinite
  <1>3. Cardinality(At(pc', c)) \in Nat
    BY AtFinite
  <1> QED BY <1>1, <1>2, <1>3

-----------------------------------------------------------------------------
(* The invariant.                                                           *)

LEMMA InitInv == Init => IInv
  <1> SUFFICES ASSUME Init PROVE IInv
    OBVIOUS
  <1>1. <<>> \in Seq(Task) /\ Range(<<>>) = {} /\ Once(<<>>)
    <2>1. <<>> \in Seq(Task) /\ Len(<<>>) = 0 /\ DOMAIN <<>> = {}
      OBVIOUS
    <2> QED BY <2>1 DEF Range, Once
  <1>2. pc \in [Thread -> Place] /\ \A x \in Thread : pc[x] \in {"idle", "none"}
    BY DEF Init, Place
  <1>3. TypeOK
    BY <1>1, <1>2 DEF Init, TypeOK, Place
  <1>4. NoLostNotify
    BY <1>2 DEF NoLostNotify, Parked
  <1>5. OnePlace /\ SpawnsLater
    BY <1>1, <1>2 DEF Init, OnePlace, SpawnsLater, Holding
  <1>6. NotStarted
    BY PoolAssumption DEF Init, NotStarted, Thread
  <1> QED BY <1>3, <1>4, <1>5, <1>6 DEF IInv

(* Locking, waiting and waking up move threads, never tasks.                *)
LEMMA TasksStay ==
    ASSUME IInv, UNCHANGED <<task, taskQueue_, posted, taken, ran>>,
           \A x \in Thread :
              /\ pc'[x] = "run" => pc[x] = "run"
              /\ pc'[x] \in {"post", "full"} => pc[x] \in {"post", "full"}
    PROVE  /\ OnePlace' /\ SpawnsLater'
           /\ \A x \in Thread : Holding(x)' => task'[x] \in posted' \ ran'
  <1>1. \A x \in Thread : Holding(x)' => Holding(x)
    BY DEF Holding
  <1>2. \A x \in Thread : Holding(x) => task[x] \in posted \ ran
    BY DEF IInv, TypeOK, Holding
  <1>3. OnePlace'
    BY <1>1 DEF IInv, OnePlace
  <1> QED BY <1>1, <1>2, <1>3 DEF IInv, SpawnsLater

LEMMA OwnerInv ==
    ASSUME IInv, start \/ startReturns \/ stop \/ stopReturns
    PROVE  IInv'
  <1> USE DEF poolVars
  <1>1. pc \in [Thread -> Place]
    BY DEF IInv, TypeOK, Place
  <1>2. CASE start \/ startReturns \/ stopReturns
    <2> DEFINE Rest == /\ UNCHANGED <<maxQueueSize_, threads_, pc, task, taskQueue_>>
                       /\ UNCHANGED <<posted, taken, ran>>
                       /\ (running_ => running_')
                       /\ opc' \in {"starting", "started", "stopped"}
                       /\ running_' \in BOOLEAN
                       /\ (running_' <=> opc' \in {"starting", "started"})
    <2>0. /\ running_ \in BOOLEAN
          /\ running_ <=> opc \in {"starting", "started"}
      BY DEF IInv, TypeOK
    <2>1. Rest
      <3>1. CASE start
        BY <3>1 DEF start
      <3>2. CASE startReturns
        BY <2>0, <3>2 DEF startReturns
      <3>3. CASE stopReturns
        BY <2>0, <3>3 DEF stopReturns
      <3> QED BY <1>2, <3>1, <3>2, <3>3
    <2>2. OnePlace' /\ SpawnsLater'
      BY <2>1, TasksStay
    <2>3. TypeOK'
      BY <2>1 DEF IInv, TypeOK
    <2>4. NoLostNotify' /\ NotStarted'
      BY <2>1 DEF IInv, NoLostNotify, NotStarted, Parked
    <2> QED BY <2>2, <2>3, <2>4 DEF IInv
  <1>3. CASE stop
    <2>1. pc' = [x \in Thread |-> IF pc[x] = "empty" THEN "take" ELSE pc[x]]
      BY <1>3 DEF stop, wakeTakers
    <2>2. /\ pc' \in [Thread -> Place]
          /\ \A x \in Thread : pc'[x] = IF pc[x] = "empty" THEN "take" ELSE pc[x]
      BY <1>1, <2>1 DEF Place
    <2>3. OnePlace' /\ SpawnsLater'
      BY <1>3, <2>2, TasksStay DEF stop
    <2>4. TypeOK'
      BY <1>3, <2>2 DEF stop, IInv, TypeOK, Place
    <2>5. Parked("empty")' = {} /\ Parked("full")' = Parked("full")
          /\ Parked("post")' = Parked("post")
      BY <2>2 DEF Parked
    <2>6. NoLostNotify'
      BY <1>3, <2>5 DEF stop, IInv, NoLostNotify
    <2>7. NotStarted'
      <3>1. Worker \subseteq Thread
        BY DEF Thread
      <3> QED BY <1>3, <2>2, <3>1 DEF stop, IInv, NotStarted
    <2> QED BY <2>3, <2>4, <2>6, <2>7 DEF IInv
  <1> QED BY <1>2, <1>3

(* A step of one thread that leaves the queue alone and wakes nobody.       *)
LEMMA MoveInv ==
    ASSUME IInv, NEW x \in Thread, NEW b \in Place,
           pc' = [pc EXCEPT ![x] = b], pc[x] # b, pc[x] # "none",
           UNCHANGED <<maxQueueSize_, running_, threads_, opc, taskQueue_,
                       task, posted, taken, ran>>,
           b # "run", b \in {"post", "full"} => pc[x] \in {"post", "full"},
           b = "empty" => running_ /\ taskQueue_ = <<>>,
           b = "full" => isFull,
           pc[x] = "take" /\ b # "empty" => ~running_,
           pc[x] = "post" => b = "full"
    PROVE  IInv'
  <1>1. pc \in [Thread -> Place]
    BY DEF IInv, TypeOK, Place
  <1>2. /\ pc' \in [Thread -> Place] /\ pc'[x] = b
        /\ \A y \in Thread \ {x} : pc'[y] = pc[y]
    BY <1>1
  <1>3. OnePlace' /\ SpawnsLater' /\ \A y \in Thread : Holding(y)' => task'[y] \in posted' \ ran'
    <2>1. \A y \in Thread : /\ pc'[y] = "run" => pc[y] = "run"
                            /\ pc'[y] \in {"post", "full"} => pc[y] \in {"post", "full"}
      BY <1>2
    <2> QED BY <2>1, TasksStay
  <1>4. TypeOK'
    BY <1>2, <1>3 DEF IInv, TypeOK, Place, Holding
  <1>5. NotStarted'
    BY <1>2 DEF IInv, NotStarted, Thread
  <1>6. NoLostNotify'
    <2>1. \A c : /\ Parked(c) = At(pc, c) /\ Parked(c)' = At(pc', c)
                 /\ Cardinality(Parked(c)) \in Nat /\ Cardinality(Parked(c)') \in Nat
      BY ParkedAt
    <2>2. \A c : /\ c \notin {pc[x], b} => Parked(c)' = Parked(c)
                 /\ c = b => Parked(c)' = Parked(c) \cup {x}
                 /\ c = b => Cardinality(Parked(c)') = Cardinality(Parked(c)) + 1
                 /\ c = pc[x] => Parked(c)' = Parked(c) \ {x}
      <3>1. x \in Thread /\ pc[x] # b /\ pc'[x] = b /\ \A y \in Thread \ {x} : pc'[y] = pc[y]
        BY <1>2
      <3> DEFINE a == pc[x]
      <3>2. pc[x] = a /\ a # b
        BY <3>1
      <3> HIDE DEF a
      <3>3. /\ At(pc', a) = At(pc, a) \ {x} /\ At(pc', b) = At(pc, b) \cup {x}
            /\ Cardinality(At(pc', b)) = Cardinality(At(pc, b)) + 1
            /\ \A c : c \notin {a, b} => At(pc', c) = At(pc, c)
        BY ONLY <3>1, <3>2, Moves
      <3> QED BY <2>1, <3>2, <3>3
    <2>3. maxQueueSize_ \in Nat /\ Len(taskQueue_) \in Nat
      BY PoolAssumption, LenProperties DEF IInv, TypeOK
    <2>4. ASSUME Parked("empty")' # {}
          PROVE  running_ /\ Len(taskQueue_) <= Cardinality(Parked("take")')
      <3>1. CASE b = "empty"
        <4>1. Len(taskQueue_) = 0
          BY <3>1
        <4> QED BY <2>1, <3>1, <4>1
      <3>2. CASE b # "empty"
        <4>1. Parked("empty") # {}
          BY <2>2, <2>4, <3>2
        <4>2. running_ /\ Len(taskQueue_) <= Cardinality(Parked("take")) /\ pc[x] # "take"
          BY <3>2, <4>1 DEF IInv, NoLostNotify
        <4>3. Cardinality(Parked("take")) <= Cardinality(Parked("take")')
          <5>1. CASE b = "take"
            BY <2>1, <2>2, <5>1
          <5>2. CASE b # "take"
            BY <2>1, <2>2, <4>2, <5>2
          <5> QED BY <5>1, <5>2
        <4> QED BY <2>1, <2>3, <4>2, <4>3
      <3> QED BY <3>1, <3>2
    <2>5. ASSUME Parked("full")' # {}
          PROVE  maxQueueSize_ <= Len(taskQueue_) + Cardinality(Parked("post")')
      <3>1. CASE b = "full"
        BY <2>1, <2>3, <3>1 DEF isFull
      <3>2. CASE b # "full"
        <4>1. Parked("full") # {} /\ pc[x] # "post"
          BY <2>2, <2>5, <3>2
        <4>2. maxQueueSize_ <= Len(taskQueue_) + Cardinality(Parked("post"))
          BY <4>1 DEF IInv, NoLostNotify
        <4>3. Cardinality(Parked("post")) <= Cardinality(Parked("post")')
          <5>1. CASE b = "post"
            BY <2>1, <2>2, <5>1
          <5>2. CASE b # "post"
            BY <2>1, <2>2, <4>1, <5>2
          <5> QED BY <5>1, <5>2
        <4> QED BY <2>1, <2>3, <4>2, <4>3
      <3> QED BY <3>1, <3>2
    <2> QED BY <2>4, <2>5 DEF NoLostNotify
  <1> QED BY <1>3, <1>4, <1>5, <1>6 DEF IInv

(* A thread that neither waits nor is about to take or put makes nobody     *)
(* miss a notification by going on.                                         *)
LEMMA QuietMove ==
    ASSUME IInv, NEW x \in Thread, pc' \in [Thread -> Place],
           \A y \in Thread \ {x} : pc'[y] = pc[y],
           pc[x] \notin {"take", "empty", "post", "full"},
           pc'[x] \notin {"empty", "full"},
           UNCHANGED <<maxQueueSize_, running_, taskQueue_>>
    PROVE  NoLostNotify'
  <1>1. \A c : Cardinality(Parked(c)) \in Nat /\ Cardinality(Parked(c)') \in Nat
    BY ParkedAt
  <1>2. maxQueueSize_ \in Nat /\ Len(taskQueue_) \in Nat
    BY PoolAssumption, LenProperties DEF IInv, TypeOK
  <1>3. Parked("empty")' = Parked("empty") /\ Parked("full")' = Parked("full")
    BY DEF Parked
  <1>4. \A c \in {"take", "post"} : Cardinality(Parked(c)) <= Cardinality(Parked(c)')
    <2>1. ASSUME NEW c \in {"take", "post"}
          PROVE  Cardinality(Parked(c)) <= Cardinality(Parked(c)')
      <3>1. Parked(c) \subseteq Parked(c)'
        BY DEF Parked
      <3>2. IsFiniteSet(Parked(c)')
        <4>1. IsFiniteSet(At(pc', c))
          BY AtFinite
        <4> QED BY <4>1, ParkedAt
      <3> QED BY <3>1, <3>2, FS_Subset
    <2> QED BY <2>1
  <1>5. Parked("empty") # {} =>
           running_ /\ Len(taskQueue_) <= Cardinality(Parked("take"))
    BY DEF IInv, NoLostNotify
  <1>6. Parked("full") # {} =>
           maxQueueSize_ <= Len(taskQueue_) + Cardinality(Parked("post"))
    BY DEF IInv, NoLostNotify
  <1> QED BY <1>1, <1>2, <1>3, <1>4, <1>5, <1>6 DEF NoLostNotify

LEMMA StartThreadInv ==
    ASSUME IInv, NEW w \in Worker, startThread(w)
    PROVE  IInv'
  <1>1. pc \in [Thread -> Place] /\ w \in Thread /\ pc[w] = "none"
    BY DEF IInv, TypeOK, Place, Thread, NotStarted, startThread
  <1>2. /\ pc' \in [Thread -> Place] /\ pc'[w] = "test"
        /\ \A y \in Thread \ {w} : pc'[y] = pc[y]
    BY <1>1 DEF startThread, Place
  <1>3. OnePlace' /\ SpawnsLater' /\ \A y \in Thread : Holding(y)' => task'[y] \in posted' \ ran'
    <2>1. \A y \in Thread : /\ pc'[y] = "run" => pc[y] = "run"
                            /\ pc'[y] \in {"post", "full"} => pc[y] \in {"post", "full"}
      BY <1>2
    <2> QED BY <2>1, TasksStay DEF startThread
  <1>4. TypeOK'
    BY <1>2, <1>3 DEF IInv, TypeOK, Place, Holding, startThread
  <1>5. NotStarted'
    BY <1>2 DEF IInv, NotStarted, Thread, startThread
  <1>6. NoLostNotify'
    BY <1>1, <1>2, QuietMove DEF startThread
  <1> QED BY <1>3, <1>4, <1>5, <1>6 DEF IInv

(* Entering post with a task that was never posted.                         *)
LEMMA EnterInv ==
    ASSUME IInv, NEW x \in Thread, NEW t \in Task \ posted, EnterPost(x, t),
           pc[x] \in {"idle", "run"},
           ran' = IF pc[x] = "run" THEN ran \cup {task[x]} ELSE ran,
           \A s \in Task \ ran' : Spawns[s] # t,
           UNCHANGED <<poolVars, taskQueue_, opc, taken>>
    PROVE  IInv'
  <1> USE DEF poolVars
  <1>1. pc \in [Thread -> Place] /\ task \in [Thread -> Task \cup {None}]
    BY DEF IInv, TypeOK, Place
  <1>2. /\ pc' \in [Thread -> Place] /\ pc'[x] \in {"run", "post"}
        /\ \A y \in Thread \ {x} : pc'[y] = pc[y]
        /\ task' \in [Thread -> Task \cup {None}] /\ task'[x] = t
        /\ \A y \in Thread \ {x} : task'[y] = task[y]
        /\ posted' = posted \cup {t}
    BY <1>1 DEF EnterPost, Place
  <1>3. /\ \A y \in Thread : Holding(y) => task[y] \in posted \ ran
        /\ pc[x] = "run" => Holding(x)
        /\ \A y \in Thread : y # x /\ Holding(y)' => Holding(y)
    BY <1>2 DEF IInv, TypeOK, Holding
  <1>4. t \notin ran' /\ ran' \subseteq posted' /\ Range(taskQueue_) \cap ran' = {}
    BY <1>2, <1>3 DEF IInv, OnePlace, TypeOK
  <1>5. \A y \in Thread : Holding(y)' => task'[y] \in posted' \ ran'
    <2>1. ASSUME NEW y \in Thread, Holding(y)', y # x PROVE task'[y] \in posted' \ ran'
      <3>1. Holding(y) /\ task'[y] = task[y] /\ task[y] \in posted \ ran
        BY <1>2, <1>3, <2>1
      <3>2. pc[x] = "run" => task[y] # task[x]
        BY <1>3, <2>1, <3>1 DEF IInv, OnePlace
      <3> QED BY <1>2, <3>1, <3>2
    <2> QED BY <1>2, <1>4, <2>1
  <1>6. TypeOK'
    <2>1. posted' \in SUBSET Task /\ ran' \in SUBSET Task
      BY <1>2, <1>3 DEF IInv, TypeOK
    <2> QED BY <1>2, <1>4, <1>5, <2>1 DEF IInv, TypeOK, Place, Holding
  <1>7. OnePlace'
    <2>1. t \notin Range(taskQueue_) /\ t \notin Range(taken)
          /\ \A y \in Thread : Holding(y) => task[y] # t
      BY <1>3 DEF IInv, OnePlace
    <2>2. \A y \in Thread : Holding(y)' => task'[y] \notin Range(taskQueue_)
      BY <1>2, <1>3, <2>1 DEF IInv, OnePlace
    <2>3. \A y, z \in Thread : y # z /\ Holding(y)' /\ Holding(z)' => task'[y] # task'[z]
      BY <1>2, <1>3, <2>1 DEF IInv, OnePlace
    <2>4. \A y \in Thread : pc'[y] \in {"post", "full"} => task'[y] \notin Range(taken)
      BY <1>2, <2>1 DEF IInv, OnePlace
    <2>5. Range(taskQueue_) \cup Range(taken) \cup ran' \subseteq posted'
      BY <1>2, <1>4 DEF IInv, OnePlace
    <2> QED BY <2>2, <2>3, <2>4, <2>5 DEF IInv, OnePlace
  <1>8. SpawnsLater'
    BY <1>2, PoolAssumption DEF IInv, SpawnsLater
  <1>9. NotStarted'
    BY <1>2 DEF IInv, NotStarted, Thread
  <1>10. NoLostNotify'
    BY <1>2, QuietMove
  <1> QED BY <1>6, <1>7, <1>8, <1>9, <1>10 DEF IInv

LEMMA PostInv ==
    ASSUME IInv, NEW p \in Poster, NEW t \in Task, post(p, t)
    PROVE  IInv'
  <1>1. p \in Thread /\ t \in Task \ posted /\ pc[p] = "idle"
        /\ EnterPost(p, t) /\ ran' = ran
        /\ UNCHANGED <<poolVars, taskQueue_, opc, taken>>
    BY DEF post, Thread
  <1>2. \A s \in Task \ ran' : Spawns[s] # t
    BY PoolAssumption DEF post
  <1> QED BY <1>1, <1>2, EnterInv

LEMMA HomePlace ==
    ASSUME NEW x
    PROVE  Home(x) \in Place \cap {"test", "idle"}
  BY DEF Home, Place

LEMMA RunInv ==
    ASSUME IInv, NEW x \in Thread, runTask(x)
    PROVE  IInv'
  <1> DEFINE s == task[x]
             t == Spawns[s]
  <1>1. /\ s \in Task \ ran /\ s \in posted /\ pc[x] = "run"
        /\ ran' = ran \cup {s} /\ UNCHANGED <<poolVars, taskQueue_, opc, taken>>
    BY DEF runTask, IInv, TypeOK
  <1>2. CASE t # None
    <2>1. EnterPost(x, t)
      BY <1>2 DEF runTask
    <2>2. t \in Task \ posted
      BY <1>1, <1>2, PoolAssumption DEF IInv, SpawnsLater
    <2>3. \A r \in Task \ ran' : Spawns[r] # t
      BY <1>1, <1>2, PoolAssumption
    <2> HIDE DEF t
    <2> QED BY <1>1, <2>1, <2>2, <2>3, EnterInv
  <1>3. CASE t = None
    <2> USE DEF poolVars
    <2>1. pc' = [pc EXCEPT ![x] = Home(x)] /\ UNCHANGED <<task, posted>>
      BY <1>3 DEF runTask
    <2>2. pc \in [Thread -> Place]
      BY DEF IInv, TypeOK, Place
    <2>3. /\ pc' \in [Thread -> Place] /\ pc'[x] \in {"test", "idle"}
          /\ \A y \in Thread \ {x} : pc'[y] = pc[y]
      BY <2>1, <2>2, HomePlace
    <2>4. /\ Holding(x) /\ ~Holding(x)'
          /\ \A y \in Thread : Holding(y)' => Holding(y) /\ y # x
      BY <1>1, <2>3 DEF Holding
    <2>5. \A y \in Thread : Holding(y)' => task[y] \in posted \ ran'
      BY <1>1, <2>4 DEF IInv, TypeOK, OnePlace, Holding
    <2>6. s \notin Range(taskQueue_)
      BY <2>4 DEF IInv, OnePlace
    <2>7. TypeOK'
      <3>1. ran' \in SUBSET Task /\ Range(taskQueue_) \cap ran' = {}
        BY <1>1, <2>6 DEF IInv, TypeOK
      <3> QED BY <1>1, <2>1, <2>3, <2>5, <3>1 DEF IInv, TypeOK, Place, Holding
    <2>8. OnePlace'
      BY <1>1, <2>1, <2>3, <2>4 DEF IInv, OnePlace
    <2>9. SpawnsLater' /\ NotStarted'
      BY <1>1, <2>1, <2>3 DEF IInv, SpawnsLater, NotStarted, Thread
    <2>10. NoLostNotify'
      BY <1>1, <2>3, QuietMove
    <2> QED BY <2>7, <2>8, <2>9, <2>10 DEF IInv
  <1> QED BY <1>2, <1>3

(* push appends a task that is nowhere else, and wakes one who waits.       *)
LEMMA PushInv ==
    ASSUME IInv, NEW x \in Thread, push(x)
    PROVE  /\ IInv'
           /\ task[x] \in Task
           /\ task[x] \notin Range(taskQueue_) \cup Range(taken)
  <1> USE DEF poolVars
  <1> DEFINE h == [pc EXCEPT ![x] = Home(x)]
             t == task[x]
  <1>1. /\ pc[x] = "post" /\ ~isFull
        /\ taskQueue_' = Append(taskQueue_, t)
        /\ UNCHANGED <<maxQueueSize_, running_, threads_, task, opc, posted, taken, ran>>
    BY DEF push
  <1>2. /\ pc \in [Thread -> Place] /\ taskQueue_ \in Seq(Task)
        /\ t \in Task /\ t \in posted \ ran
        /\ t \notin Range(taskQueue_) /\ t \notin Range(taken)
    BY <1>1 DEF IInv, TypeOK, Place, OnePlace, Holding
  <1>3. /\ h \in [Thread -> Place] /\ h[x] \in {"test", "idle"} /\ pc[x] # h[x]
        /\ \A y \in Thread \ {x} : h[y] = pc[y]
    BY <1>1, <1>2, HomePlace
  <1>4. pc' \in AfterNotify(h, "empty", "take")
    BY DEF push, notifyNotEmpty
  <1> HIDE DEF h
  <1>5. /\ \A c : c \notin {"post", h[x]} => At(h, c) = At(pc, c)
        /\ Cardinality(At(h, "post")) = Cardinality(At(pc, "post")) - 1
    <2> DEFINE b == h[x]
    <2>1. h[x] = b /\ "post" # b
      BY <1>1, <1>3
    <2> HIDE DEF b
    <2>2. /\ \A c : c \notin {"post", b} => At(h, c) = At(pc, c)
          /\ Cardinality(At(h, "post")) = Cardinality(At(pc, "post")) - 1
      BY ONLY x \in Thread, <1>1, <1>3, <2>1, Moves
    <2> QED BY <2>1, <2>2
  <1>6. At(h, "empty") = Parked("empty")
    BY <1>3, <1>5, ParkedAt
  <1>7. /\ pc' \in [Thread -> Place]
        /\ \/ Parked("empty") = {} /\ pc' = h
           \/ \E y \in Parked("empty") :
                 /\ y \in Thread /\ h[y] = "empty"
                 /\ pc' = [h EXCEPT ![y] = "take"]
                 /\ At(pc', "empty") = At(h, "empty") \ {y}
                 /\ Cardinality(At(pc', "take")) = Cardinality(At(h, "take")) + 1
        /\ \A c : c \notin {"empty", "take"} => At(pc', c) = At(h, c)
    <2>1. "empty" \in Place /\ "take" \in Place
      BY DEF Place
    <2> QED BY ONLY <1>3, <1>4, <1>6, <2>1, NotifyMoves
  <1>8. /\ \A y \in Thread : Holding(y)' => Holding(y) /\ y # x
        /\ \A y \in Thread : pc'[y] \in {"post", "full"} => pc[y] \in {"post", "full"}
        /\ \A y \in Thread : pc[y] = "none" => pc'[y] = "none"
    BY <1>1, <1>3, <1>7 DEF Holding
  <1>9. /\ taskQueue_' \in Seq(Task) /\ Len(taskQueue_') = Len(taskQueue_) + 1
        /\ Range(taskQueue_') = Range(taskQueue_) \cup {t}
        /\ Once(taskQueue_')
    BY <1>1, <1>2, AppendProperties, RangeAppend, OnceAppend DEF IInv, OnePlace
  <1>10. \A y \in Thread : Holding(y)' => task[y] \in posted \ ran
    BY <1>8 DEF IInv, TypeOK, Holding
  <1>11. TypeOK'
    <2>1. Range(taskQueue_') \cap ran = {}
      BY <1>2, <1>9 DEF IInv, TypeOK
    <2> QED BY <1>1, <1>7, <1>9, <1>10, <2>1 DEF IInv, TypeOK, Place, Holding
  <1>12. OnePlace'
    <2>1. \A y \in Thread : Holding(y)' => task[y] \notin Range(taskQueue_')
      <3>1. Holding(x)
        BY <1>1 DEF Holding
      <3>2. \A y \in Thread : Holding(y)' => task[y] # t /\ task[y] \notin Range(taskQueue_)
        BY <1>8, <3>1 DEF IInv, OnePlace
      <3> QED BY <1>9, <3>2
    <2>2. \A y, z \in Thread : y # z /\ Holding(y)' /\ Holding(z)' => task[y] # task[z]
      BY <1>8 DEF IInv, OnePlace
    <2>3. \A y \in Thread : pc'[y] \in {"post", "full"} => task[y] \notin Range(taken)
      BY <1>8 DEF IInv, OnePlace
    <2>4. /\ Range(taskQueue_') \cap Range(taken) = {}
          /\ Range(taskQueue_') \cup Range(taken) \cup ran \subseteq posted
      BY <1>2, <1>9 DEF IInv, OnePlace
    <2> QED BY <1>1, <1>9, <2>1, <2>2, <2>3, <2>4 DEF OnePlace
  <1>13. SpawnsLater' /\ NotStarted'
    BY <1>1, <1>8 DEF IInv, SpawnsLater, NotStarted, Thread
  <1>14. NoLostNotify'
    <2>1. /\ maxQueueSize_ \in Nat /\ Len(taskQueue_) \in Nat
          /\ \A c : Parked(c) = At(pc, c) /\ Parked(c)' = At(pc', c)
          /\ \A c : Cardinality(Parked(c)) \in Nat
      BY <1>2, PoolAssumption, ParkedAt, LenProperties DEF IInv, TypeOK
    <2>2. ASSUME Parked("empty")' # {}
          PROVE  running_ /\ Len(taskQueue_') <= Cardinality(Parked("take")')
      <3>1. Parked("empty") # {}
            /\ Cardinality(At(pc', "take")) = Cardinality(At(h, "take")) + 1
        BY <1>6, <1>7, <2>1, <2>2
      <3>2. At(h, "take") = At(pc, "take")
        BY <1>3, <1>5
      <3>3. running_ /\ Len(taskQueue_) <= Cardinality(Parked("take"))
        BY <3>1 DEF IInv, NoLostNotify
      <3> QED BY <1>9, <2>1, <3>1, <3>2, <3>3
    <2>3. ASSUME Parked("full")' # {}
          PROVE  maxQueueSize_ <= Len(taskQueue_') + Cardinality(Parked("post")')
      <3>1. Parked("full") # {}
        BY <1>3, <1>5, <1>7, <2>1, <2>3
      <3>2. Cardinality(At(pc', "post")) = Cardinality(At(pc, "post")) - 1
        BY <1>5, <1>7
      <3>3. maxQueueSize_ <= Len(taskQueue_) + Cardinality(Parked("post"))
        BY <3>1 DEF IInv, NoLostNotify
      <3> QED BY <1>9, <2>1, <3>2, <3>3
    <2> QED BY <1>1, <2>2, <2>3 DEF NoLostNotify
  <1> QED BY <1>2, <1>11, <1>12, <1>13, <1>14 DEF IInv

(* take removes the head, and makes room that one who waits may use.        *)
LEMMA TakeInv ==
    ASSUME IInv, NEW w \in Worker, take(w)
    PROVE  IInv'
  <1> USE DEF poolVars
  <1> DEFINE h == [pc EXCEPT ![w] = "run"]
             t == Head(taskQueue_)
  <1>1. /\ pc[w] = "take" /\ taskQueue_ # <<>> /\ w \in Thread
        /\ task' = [task EXCEPT ![w] = t]
        /\ taken' = Append(taken, t)
        /\ taskQueue_' = Tail(taskQueue_)
        /\ UNCHANGED <<maxQueueSize_, running_, threads_, opc, posted, ran>>
    BY DEF take, Thread
  <1>2. /\ pc \in [Thread -> Place] /\ taskQueue_ \in Seq(Task)
        /\ taken \in Seq(Task) /\ task \in [Thread -> Task \cup {None}]
    BY DEF IInv, TypeOK, Place
  <1>3. /\ t \in Task /\ taskQueue_' \in Seq(Task)
        /\ Len(taskQueue_) \in Nat \ {0} /\ Len(taskQueue_') = Len(taskQueue_) - 1
        /\ t \in Range(taskQueue_)
        /\ Range(taskQueue_') = Range(taskQueue_) \ {t} /\ Once(taskQueue_')
    BY <1>1, <1>2, OnceHeadTail DEF IInv, OnePlace
  <1>4. taken' \in Seq(Task) /\ Range(taken') = Range(taken) \cup {t}
    BY <1>1, <1>2, <1>3, AppendProperties, RangeAppend
  <1>5. /\ h \in [Thread -> Place] /\ h[w] = "run"
        /\ \A y \in Thread \ {w} : h[y] = pc[y]
    BY <1>1, <1>2 DEF Place
  <1>6. pc' \in notifyNotFull(h)
    BY DEF take
  <1> HIDE DEF h, t
  <1>7. /\ \A c : c \notin {"take", "run"} => At(h, c) = At(pc, c)
        /\ Cardinality(At(h, "take")) = Cardinality(At(pc, "take")) - 1
    <2>1. /\ w \in Thread /\ pc[w] = "take" /\ h[w] = "run" /\ "take" # "run"
          /\ \A y \in Thread \ {w} : h[y] = pc[y]
      BY <1>1, <1>5
    <2> QED BY ONLY <2>1, Moves
  <1>8. At(h, "full") = Parked("full")
    BY <1>7, ParkedAt
  <1>9. /\ pc' \in [Thread -> Place]
        /\ \/ (maxQueueSize_ > 0 => Parked("full") = {}) /\ pc' = h
           \/ \E y \in Parked("full") :
                 /\ y \in Thread /\ h[y] = "full"
                 /\ pc' = [h EXCEPT ![y] = "post"]
                 /\ Cardinality(At(pc', "post")) = Cardinality(At(h, "post")) + 1
        /\ \A c : c \notin {"full", "post"} => At(pc', c) = At(h, c)
    <2>1. CASE maxQueueSize_ > 0
      <3>1. "full" \in Place /\ "post" \in Place
        BY DEF Place
      <3>2. pc' \in AfterNotify(h, "full", "post")
        BY <1>6, <2>1 DEF notifyNotFull
      <3> QED BY ONLY <1>5, <1>8, <3>1, <3>2, NotifyMoves
    <2>2. CASE ~(maxQueueSize_ > 0)
      BY <1>5, <1>6, <2>2 DEF notifyNotFull
    <2> QED BY <2>1, <2>2
  <1>10. /\ \A y \in Thread : Holding(y)' => Holding(y) \/ y = w
         /\ \A y \in Thread : pc'[y] \in {"post", "full"} => pc[y] \in {"post", "full"} /\ y # w
         /\ \A y \in Thread : pc[y] = "none" => pc'[y] = "none"
         /\ task'[w] = t /\ \A y \in Thread \ {w} : task'[y] = task[y]
         /\ task' \in [Thread -> Task \cup {None}]
    BY <1>1, <1>2, <1>3, <1>5, <1>9 DEF Holding
  <1>11. \A y \in Thread : Holding(y)' => task'[y] \in posted \ ran
    <2>1. t \in posted \ ran
      BY <1>3 DEF IInv, TypeOK, OnePlace
    <2> QED BY <1>10, <2>1 DEF IInv, TypeOK, Holding
  <1>12. TypeOK'
    <2>1. Range(taskQueue_') \cap ran = {}
      BY <1>3 DEF IInv, TypeOK
    <2> QED BY <1>1, <1>3, <1>4, <1>9, <1>10, <1>11, <2>1 DEF IInv, TypeOK, Place, Holding
  <1>13. OnePlace'
    <2>1. \A y \in Thread : Holding(y)' =>
             task'[y] \notin Range(taskQueue_') /\ (y # w => task'[y] # t)
      BY <1>3, <1>10 DEF IInv, OnePlace
    <2>2. \A y, z \in Thread : y # z /\ Holding(y)' /\ Holding(z)' => task'[y] # task'[z]
      BY <1>10, <2>1 DEF IInv, OnePlace
    <2>3. \A y \in Thread : pc'[y] \in {"post", "full"} => task'[y] \notin Range(taken')
      <3>1. \A y \in Thread : pc'[y] \in {"post", "full"} =>
               Holding(y)' /\ y # w /\ task'[y] \notin Range(taken)
        BY <1>10 DEF IInv, OnePlace, Holding
      <3> QED BY <1>4, <2>1, <3>1
    <2>4. /\ Range(taskQueue_') \cap Range(taken') = {}
          /\ Range(taskQueue_') \cup Range(taken') \cup ran \subseteq posted
      BY <1>3, <1>4 DEF IInv, OnePlace
    <2> QED BY <1>1, <1>3, <2>1, <2>2, <2>3, <2>4 DEF OnePlace
  <1>14. SpawnsLater' /\ NotStarted'
    BY <1>1, <1>10 DEF IInv, SpawnsLater, NotStarted, Thread
  <1>15. NoLostNotify'
    <2>1. /\ maxQueueSize_ \in Nat
          /\ \A c : Parked(c) = At(pc, c) /\ Parked(c)' = At(pc', c)
          /\ \A c : Cardinality(Parked(c)) \in Nat /\ Cardinality(Parked(c)') \in Nat
      BY PoolAssumption, ParkedAt DEF IInv, TypeOK
    <2>2. ASSUME Parked("empty")' # {}
          PROVE  running_ /\ Len(taskQueue_') <= Cardinality(Parked("take")')
      <3>1. Parked("empty") # {}
            /\ Cardinality(At(pc', "take")) = Cardinality(At(pc, "take")) - 1
        BY <1>7, <1>9, <2>1, <2>2
      <3>2. running_ /\ Len(taskQueue_) <= Cardinality(Parked("take"))
        BY <3>1 DEF IInv, NoLostNotify
      <3> QED BY <1>3, <2>1, <3>1, <3>2
    <2>3. ASSUME Parked("full")' # {}
          PROVE  maxQueueSize_ <= Len(taskQueue_') + Cardinality(Parked("post")')
      <3>1. CASE maxQueueSize_ = 0
        BY <1>3, <2>1, <3>1
      <3>2. CASE maxQueueSize_ > 0
        <4>1. Parked("full") # {}
          BY <1>8, <1>9, <2>1, <2>3, <3>2
        <4>2. Cardinality(At(pc', "post")) = Cardinality(At(pc, "post")) + 1
          BY <1>7, <1>9, <3>2, <4>1
        <4>3. maxQueueSize_ <= Len(taskQueue_) + Cardinality(Parked("post"))
          BY <4>1 DEF IInv, NoLostNotify
        <4> QED BY <1>3, <2>1, <4>2, <4>3
      <3> QED BY <2>1, <3>1, <3>2
    <2> QED BY <1>1, <2>2, <2>3 DEF NoLostNotify
  <1> QED BY <1>12, <1>13, <1>14, <1>15 DEF IInv

(* The steps that only move the thread that takes them.                     *)
LEMMA WaitInv ==
    ASSUME IInv, NEW x \in Thread,
           \/ testRunning(x) \/ waitNotEmpty(x) \/ takeNothing(x)
           \/ waitNotFull(x) \/ spuriousWakeup(x)
    PROVE  IInv'
  <1> USE DEF poolVars, Place
  <1>1. CASE testRunning(x)
    BY <1>1, MoveInv DEF testRunning
  <1>2. CASE waitNotEmpty(x)
    BY <1>2, MoveInv DEF waitNotEmpty
  <1>3. CASE takeNothing(x)
    BY <1>3, MoveInv DEF takeNothing
  <1>4. CASE waitNotFull(x)
    BY <1>4, MoveInv DEF waitNotFull
  <1>5. CASE spuriousWakeup(x)
    BY <1>5, MoveInv DEF spuriousWakeup
  <1> QED BY <1>1, <1>2, <1>3, <1>4, <1>5

LEMMA StepInv ==
    ASSUME IInv, [Next]_vars
    PROVE  IInv'
  <1>1. CASE start \/ startReturns \/ stop \/ stopReturns
    BY <1>1, OwnerInv
  <1>2. ASSUME NEW w \in Worker, startThread(w) PROVE IInv'
    BY <1>2, StartThreadInv
  <1>3. ASSUME NEW w \in Worker, WorkerStep(w) PROVE IInv'
    <2>1. w \in Thread
      BY DEF Thread
    <2> QED BY <1>3, <2>1, WaitInv, TakeInv DEF WorkerStep
  <1>4. ASSUME NEW p \in Poster, NEW t \in Task, post(p, t) PROVE IInv'
    BY <1>4, PostInv
  <1>5. ASSUME NEW x \in Thread, Step(x) PROVE IInv'
    BY <1>5, PushInv, WaitInv, RunInv DEF Step
  <1>6. ASSUME NEW x \in Thread, spuriousWakeup(x) PROVE IInv'
    BY <1>6, WaitInv
  <1>7. CASE UNCHANGED vars
    BY <1>7 DEF vars, poolVars, IInv, TypeOK, NoLostNotify, Parked, OnePlace, Holding,
                SpawnsLater, NotStarted
  <1> QED BY <1>1, <1>2, <1>3, <1>4, <1>5, <1>6, <1>7 DEF Next

-----------------------------------------------------------------------------
(* What a stop leaves.                                                      *)

(* A task taken runs or has run; a pool that is stopped has no thread.      *)
StopPhase ==
    /\ \A t \in Range(taken) : t \in ran \/ \E w \in Worker : pc[w] = "run" /\ task[w] = t
    /\ opc = "stopped" => \A w \in Worker : pc[w] \in {"none", "gone"}

(* A notify touches only those who wait.                                    *)
LEMMA NotifyTouches ==
    ASSUME NEW f, NEW where, NEW again, NEW g \in AfterNotify(f, where, again),
           NEW y \in Thread, f \in [Thread -> Place], pc[y] # where
    PROVE  g[y] = f[y]
  BY DEF AfterNotify, Parked

(* The steps that take nothing and run nothing.                             *)
LEMMA StopPhaseKept ==
    ASSUME IInv, StopPhase, UNCHANGED <<taken, ran>>,
           \A w \in Worker : pc[w] = "run" => pc'[w] = "run" /\ task'[w] = task[w],
           opc' = "stopped" => \A w \in Worker : pc'[w] \in {"none", "gone"}
    PROVE  StopPhase'
  BY DEF StopPhase

LEMMA StopPhaseStep ==
    ASSUME IInv, StopPhase, [Next]_vars
    PROVE  StopPhase'
  <1> USE DEF poolVars
  <1>1. /\ Worker \cap Poster = {} /\ Worker \subseteq Thread /\ Poster \subseteq Thread
        /\ pc \in [Thread -> Place] /\ task \in [Thread -> Task \cup {None}]
        /\ taskQueue_ \in Seq(Task) /\ taken \in Seq(Task)
        /\ opc = "stopped" => \A w \in Worker : pc[w] \in {"none", "gone"}
    BY PoolAssumption DEF Thread, IInv, TypeOK, Place, StopPhase
  <1>2. CASE UNCHANGED vars
    BY <1>2 DEF vars, StopPhase
  <1>3. CASE start \/ startReturns \/ stop
    <2>1. /\ opc' # "stopped" /\ UNCHANGED <<task, taken, ran>>
          /\ \A w \in Worker : pc[w] = "run" => pc'[w] = "run"
      BY <1>1, <1>3 DEF start, startReturns, stop, wakeTakers
    <2> QED BY <2>1, StopPhaseKept
  <1>4. CASE stopReturns
    <2>1. \A w \in Worker : pc[w] \in {"none", "gone"}
      BY <1>4 DEF stopReturns, IInv, NotStarted
    <2> QED BY <1>4, <2>1, StopPhaseKept DEF stopReturns
  <1>5. ASSUME NEW w \in Worker, startThread(w) PROVE StopPhase'
    <2>1. pc[w] = "none" /\ opc' # "stopped"
      BY <1>5 DEF startThread, IInv, NotStarted
    <2> QED BY <1>1, <1>5, <2>1, StopPhaseKept DEF startThread
  <1>6. ASSUME NEW p \in Poster, NEW t \in Task, post(p, t) PROVE StopPhase'
    <2>1. p \notin Worker
      BY <1>1
    <2> QED BY <1>1, <1>6, <2>1, StopPhaseKept DEF post, EnterPost
  <1>7. ASSUME NEW x \in Thread,
               \/ testRunning(x) \/ waitNotEmpty(x) \/ takeNothing(x)
               \/ waitNotFull(x) \/ spuriousWakeup(x)
        PROVE  StopPhase'
    <2>1. /\ pc[x] \notin {"run", "none", "gone"} /\ UNCHANGED <<opc, task, taken, ran>>
          /\ \E b \in Place : pc' = [pc EXCEPT ![x] = b]
      BY <1>7 DEF testRunning, waitNotEmpty, takeNothing, waitNotFull, spuriousWakeup, Place
    <2> QED BY <1>1, <2>1, StopPhaseKept
  <1>8. ASSUME NEW x \in Thread, push(x) PROVE StopPhase'
    <2> DEFINE h == [pc EXCEPT ![x] = Home(x)]
    <2>1. /\ pc[x] = "post" /\ UNCHANGED <<opc, task, taken, ran>>
          /\ pc' \in AfterNotify(h, "empty", "take")
      BY <1>8 DEF push, notifyNotEmpty
    <2>2. h \in [Thread -> Place]
      BY <1>1 DEF Home, Place
    <2>3. \A y \in Thread : y # x => h[y] = pc[y]
      BY <1>1
    <2> HIDE DEF h
    <2>4. \A y \in Thread : y # x /\ pc[y] # "empty" => pc'[y] = pc[y]
      BY <2>1, <2>2, <2>3, NotifyTouches
    <2> QED BY <1>1, <2>1, <2>4, StopPhaseKept
  <1>9. ASSUME NEW w \in Worker, take(w) PROVE StopPhase'
    <2> DEFINE h == [pc EXCEPT ![w] = "run"]
               t == Head(taskQueue_)
    <2>1. /\ pc[w] = "take" /\ taskQueue_ # <<>> /\ UNCHANGED <<opc, ran>>
          /\ task' = [task EXCEPT ![w] = t] /\ taken' = Append(taken, t)
          /\ pc' \in notifyNotFull(h)
      BY <1>9 DEF take
    <2>2. t \in Task
      BY <1>1, <2>1, HeadTailProperties
    <2>3. h \in [Thread -> Place] /\ h[w] = "run" /\ \A y \in Thread : y # w => h[y] = pc[y]
      BY <1>1 DEF Place
    <2> HIDE DEF h, t
    <2>4. \A y \in Thread : pc[y] # "full" => pc'[y] = h[y]
      BY <2>1, <2>3, NotifyTouches DEF notifyNotFull
    <2>5. Range(taken') = Range(taken) \cup {t}
      BY <1>1, <2>1, <2>2, RangeAppend
    <2>6. pc'[w] = "run" /\ task'[w] = t
      BY <1>1, <2>1, <2>3, <2>4
    <2>7. \A v \in Worker : pc[v] = "run" => pc'[v] = "run" /\ task'[v] = task[v]
      BY <1>1, <2>1, <2>3, <2>4
    <2>8. opc' # "stopped"
      BY <1>1, <2>1
    <2> QED BY <2>1, <2>5, <2>6, <2>7, <2>8 DEF StopPhase
  <1>10. ASSUME NEW x \in Thread, runTask(x) PROVE StopPhase'
    <2>1. /\ pc[x] = "run" /\ ran' = ran \cup {task[x]} /\ UNCHANGED <<opc, taken>>
          /\ \A y \in Thread : y # x => pc'[y] = pc[y] /\ task'[y] = task[y]
      BY <1>1, <1>10 DEF runTask, EnterPost
    <2> QED BY <1>1, <2>1 DEF StopPhase
  <1>11. ASSUME NEW w \in Worker, WorkerStep(w) PROVE StopPhase'
    BY <1>1, <1>7, <1>9, <1>11 DEF WorkerStep
  <1>12. ASSUME NEW x \in Thread, Step(x) \/ spuriousWakeup(x) PROVE StopPhase'
    BY <1>7, <1>8, <1>10, <1>12 DEF Step
  <1> QED BY <1>2, <1>3, <1>4, <1>5, <1>6, <1>11, <1>12 DEF Next

-----------------------------------------------------------------------------
(* The theorems.                                                            *)

(* The invariant holds: whatever start, stop, post and take interleave.     *)
THEOREM Invariance == Spec => []IInv
  <1>1. Init => IInv
    BY InitInv
  <1>2. IInv /\ [Next]_vars => IInv'
    BY StepInv
  <1> QED BY <1>1, <1>2, PTL DEF Spec

(* The queue, the threads and the histories have their types, a thread in   *)
(* post, push or a task holds one that was posted and has not run, and      *)
(* nothing that ran is still queued.                                        *)
THEOREM TypeCorrect == Spec => []TypeOK
  <1>1. IInv => TypeOK
    BY DEF IInv
  <1> QED BY <1>1, Invariance, PTL

(* A notify of one waiting thread, as post and take send it, is enough:     *)
(* nobody sleeps while there is work, or room, that nobody will see to.     *)
THEOREM NotifySuffices == Spec => []NoLostNotify
  <1>1. IInv => NoLostNotify
    BY DEF IInv
  <1> QED BY <1>1, Invariance, PTL

(* When stop has returned, every task that was taken has been run: a stop   *)
(* drops no task that it has not left in the queue.                         *)
THEOREM StopFinishesTaken == Spec => []StopRunsTaken
  <1>1. Init => StopPhase
    <2>1. Range(<<>>) = {}
      BY DEF Range
    <2> QED BY <2>1 DEF Init, StopPhase
  <1>2. IInv /\ StopPhase /\ [Next]_vars => StopPhase'
    BY StopPhaseStep
  <1>3. StopPhase => StopRunsTaken
    BY DEF StopPhase, StopRunsTaken
  <1> QED BY <1>1, <1>2, <1>3, Invariance, PTL DEF Spec

(* taskQueue_ implements TaskQueue: put once, no more than maxQueueSize_,   *)
(* taken once in order.                                                     *)
THEOREM ImplementsTaskQueue == Spec => KeepsPromise
  <1>1. Init => Queue!Init
    BY PoolAssumption DEF Init, Queue!Init
  <1>2. IInv /\ [Next]_vars => [Queue!Next]_<<maxQueueSize_, taskQueue_, taken>>
    <2> SUFFICES ASSUME IInv, [Next]_vars
                 PROVE  [Queue!Next]_<<maxQueueSize_, taskQueue_, taken>>
      OBVIOUS
    <2>1. ASSUME NEW w \in Worker, take(w) PROVE Queue!Take
      BY <2>1 DEF take, poolVars, Queue!Take
    <2>2. ASSUME NEW x \in Thread, push(x) PROVE \E t \in Task : Queue!Put(t)
      <3>1. task[x] \in Task /\ task[x] \notin Range(taskQueue_) \cup Range(taken)
        BY <2>2, PushInv
      <3>2. maxQueueSize_ = 0 \/ Len(taskQueue_) < maxQueueSize_
        <4>1. maxQueueSize_ \in Nat /\ Len(taskQueue_) \in Nat
          BY PoolAssumption, LenProperties DEF IInv, TypeOK
        <4> QED BY <2>2, <4>1 DEF push, isFull
      <3>3. Queue!Put(task[x])
        BY <2>2, <3>1, <3>2 DEF push, poolVars, Queue!Put, Queue!Range, Range
      <3> QED BY <3>1, <3>3
    <2>3. CASE UNCHANGED <<maxQueueSize_, taskQueue_, taken>>
      BY <2>3
    <2> DEFINE Stutter == UNCHANGED <<maxQueueSize_, taskQueue_, taken>>
    <2> USE DEF poolVars
    <2>4. start \/ startReturns \/ stop \/ stopReturns => Stutter
      BY DEF start, startReturns, stop, stopReturns
    <2>5. \A w \in Worker :
             startThread(w) \/ testRunning(w) \/ waitNotEmpty(w) \/ takeNothing(w) => Stutter
      BY DEF startThread, testRunning, waitNotEmpty, takeNothing
    <2>6. \A p \in Poster, t \in Task : post(p, t) => Stutter
      BY DEF post
    <2>7. \A x \in Thread : waitNotFull(x) \/ runTask(x) \/ spuriousWakeup(x) => Stutter
      BY DEF waitNotFull, runTask, spuriousWakeup
    <2>8. UNCHANGED vars => Stutter
      BY DEF vars
    <2> HIDE DEF Stutter
    <2>9. CASE Stutter
      BY <2>3, <2>9 DEF Stutter
    <2> QED BY <2>1, <2>2, <2>4, <2>5, <2>6, <2>7, <2>8, <2>9
            DEF Next, WorkerStep, Step, Queue!Next
  <1> QED BY <1>1, <1>2, Invariance, PTL DEF Spec, KeepsPromise, Queue!Spec
=============================================================================
