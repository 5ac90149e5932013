------------------------------ MODULE ThreadPool ------------------------------
(***************************************************************************)
(* RN::ThreadPool: an owner that starts and stops it, workers that take    *)
(* tasks from a queue, and threads that post them, the workers' own tasks  *)
(* among them.  What is done under mutex_ is one step; a thread in wait    *)
(* has given the mutex up and starts again at the test when it is woken.   *)
(*                                                                         *)
(* post with no threads runs the task itself.  stop wakes the workers but  *)
(* not those who wait for room, and leaves what is queued.                 *)
(***************************************************************************)
EXTENDS Naturals, Sequences, FiniteSets, Functions

CONSTANTS Worker, Poster,
          Owner,   \* the poster that starts and stops the pool
          Task,
          Spawned, \* the tasks that other tasks post
          Spawns,  \* Task -> the task it posts when it runs, or None
          None,
          Sizes    \* values maxQueueSize_ may be given; 0 means no bound

(* A Task is one std::function passed to post, so no two tasks post the     *)
(* same one.                                                                *)
ASSUME PoolAssumption ==
    /\ IsFiniteSet(Worker) /\ IsFiniteSet(Poster)
    /\ Owner \in Poster /\ Worker \cap Poster = {}
    /\ None \notin Task /\ Spawned \subseteq Task
    /\ Spawns \in [Task -> Spawned \cup {None}]
    /\ \A s, t \in Task : Spawns[s] = Spawns[t] /\ Spawns[s] # None => s = t
    /\ Sizes \subseteq Nat

Thread == Worker \cup Poster

VARIABLES
    maxQueueSize_, running_,
    threads_,     \* the workers that have been started
    taskQueue_,
    pc,           \* where each thread is
    task,         \* what it runs or posts
    opc,          \* the owner in start and stop
    posted,       \* history: tasks passed to post
    taken,        \* history: tasks taken from the queue, in order
    ran           \* history: tasks run

poolVars == <<maxQueueSize_, running_, threads_>>
vars == <<poolVars, taskQueue_, pc, task, opc, posted, taken, ran>>

Parked(where) == {x \in Thread : pc[x] = where}

(* Mutation: one task too many fits.                                        *)
FullTooLate == maxQueueSize_ > 0 /\ Len(taskQueue_) > maxQueueSize_

isFull == maxQueueSize_ > 0 /\ Len(taskQueue_) >= maxQueueSize_

Home(x) == IF x \in Worker THEN "test" ELSE "idle"

TypeOK ==
    /\ maxQueueSize_ \in Sizes /\ running_ \in BOOLEAN
    /\ threads_ \in SUBSET Worker
    /\ taskQueue_ \in Seq(Task)
    /\ pc \in [Thread -> {"none", "idle", "test", "take", "empty", "run",
                          "post", "full", "gone"}]
    /\ task \in [Thread -> Task \cup {None}]
    /\ opc \in {"new", "starting", "started", "joining", "stopped"}
    /\ posted \in SUBSET Task /\ ran \in SUBSET Task
    /\ taken \in Seq(Task)
    /\ running_ <=> opc \in {"starting", "started"}
    /\ \A x \in Thread : pc[x] \in {"run", "post", "full"} => task[x] \in posted \ ran
    /\ Range(taskQueue_) \cap ran = {}

Init ==
    /\ maxQueueSize_ \in Sizes
    /\ running_ = FALSE /\ threads_ = {}
    /\ taskQueue_ = <<>>
    /\ pc = [x \in Thread |-> IF x \in Poster THEN "idle" ELSE "none"]
    /\ task = [x \in Thread |-> None]
    /\ opc = "new"
    /\ posted = {} /\ taken = <<>> /\ ran = {}

-----------------------------------------------------------------------------
(* The owner.                                                               *)

(* threads_ is filled while nobody posts: the owner publishes the pool      *)
(* when start has returned.                                                 *)
start ==
    /\ opc = "new" /\ threads_ = {} /\ ~running_
    /\ \A p \in Poster : pc[p] = "idle"
    /\ opc' = "starting"
    /\ running_' = TRUE
    /\ UNCHANGED <<maxQueueSize_, threads_, taskQueue_, pc, task, posted, taken, ran>>

(* Thread::start returns when the thread runs.                              *)
startThread(w) ==
    /\ opc = "starting" /\ w \notin threads_
    /\ threads_' = threads_ \cup {w}
    /\ pc' = [pc EXCEPT ![w] = "test"]
    /\ UNCHANGED <<maxQueueSize_, running_, taskQueue_, task, opc, posted, taken, ran>>

startReturns ==
    /\ opc = "starting"
    /\ opc' = "started"
    /\ UNCHANGED <<poolVars, taskQueue_, pc, task, posted, taken, ran>>

(* Mutation: stop notifies one worker.                                      *)
WakeOne ==
    pc' \in IF Parked("empty") = {} THEN {pc}
            ELSE {[pc EXCEPT ![w] = "take"] : w \in Parked("empty")}

(* notEmpty_.notifyAll()                                                    *)
wakeTakers ==
    pc' = [x \in Thread |-> IF pc[x] = "empty" THEN "take" ELSE pc[x]]

(* stop, called by the owner or by the destructor.                          *)
stop ==
    /\ opc = "started" /\ pc[Owner] = "idle"
    /\ running_' = FALSE
    /\ wakeTakers
    /\ opc' = "joining"
    /\ UNCHANGED <<maxQueueSize_, threads_, taskQueue_, task, posted, taken, ran>>

(* Mutation: stop joins one of its threads.                                 *)
JoinOne ==
    /\ opc = "joining"
    /\ threads_ = {} \/ \E w \in threads_ : pc[w] = "gone"
    /\ opc' = "stopped"
    /\ UNCHANGED <<poolVars, taskQueue_, pc, task, posted, taken, ran>>

stopReturns ==
    /\ opc = "joining"
    /\ \A w \in threads_ : pc[w] = "gone"
    /\ opc' = "stopped"
    /\ UNCHANGED <<poolVars, taskQueue_, pc, task, posted, taken, ran>>

-----------------------------------------------------------------------------
(* post.                                                                    *)

(* The test of threads_, before the lock.                                   *)
EnterPost(x, t) ==
    /\ pc' = [pc EXCEPT ![x] = IF threads_ = {} THEN "run" ELSE "post"]
    /\ task' = [task EXCEPT ![x] = t]
    /\ posted' = posted \cup {t}

post(p, t) ==
    /\ pc[p] = "idle" /\ opc # "starting"
    /\ p = Owner => opc # "joining"
    /\ t \notin posted \cup Spawned
    /\ EnterPost(p, t)
    /\ UNCHANGED <<poolVars, taskQueue_, opc, taken, ran>>

(* Any one of those parked where goes back to its test.                     *)
AfterNotify(pcs, where, again) ==
    IF Parked(where) = {} THEN {pcs}
    ELSE {[pcs EXCEPT ![x] = again] : x \in Parked(where)}

(* Mutation: notEmpty_ is notified only when the queue was empty.           *)
NotifyWhenEmpty(pcs) ==
    IF taskQueue_ = <<>> THEN AfterNotify(pcs, "empty", "take") ELSE {pcs}

notifyNotEmpty(pcs) == AfterNotify(pcs, "empty", "take")

push(x) ==
    /\ pc[x] = "post" /\ ~isFull
    /\ taskQueue_' = Append(taskQueue_, task[x])
    /\ pc' \in notifyNotEmpty([pc EXCEPT ![x] = Home(x)])
    /\ UNCHANGED <<poolVars, task, opc, posted, taken, ran>>

waitNotFull(x) ==
    /\ pc[x] = "post" /\ isFull
    /\ pc' = [pc EXCEPT ![x] = "full"]
    /\ UNCHANGED <<poolVars, taskQueue_, task, opc, posted, taken, ran>>

-----------------------------------------------------------------------------
(* The workers: runInThread and take.                                       *)

(* while (running_), without the lock.                                      *)
testRunning(w) ==
    /\ pc[w] = "test"
    /\ pc' = [pc EXCEPT ![w] = IF running_ THEN "take" ELSE "gone"]
    /\ UNCHANGED <<poolVars, taskQueue_, task, opc, posted, taken, ran>>

waitNotEmpty(w) ==
    /\ pc[w] = "take" /\ taskQueue_ = <<>> /\ running_
    /\ pc' = [pc EXCEPT ![w] = "empty"]
    /\ UNCHANGED <<poolVars, taskQueue_, task, opc, posted, taken, ran>>

takeNothing(w) ==
    /\ pc[w] = "take" /\ taskQueue_ = <<>> /\ ~running_
    /\ pc' = [pc EXCEPT ![w] = "test"]
    /\ UNCHANGED <<poolVars, taskQueue_, task, opc, posted, taken, ran>>

notifyNotFull(pcs) ==
    IF maxQueueSize_ > 0 THEN AfterNotify(pcs, "full", "post") ELSE {pcs}

(* Mutation: the task stays at the front.                                   *)
TakeKeeps(w) ==
    /\ pc[w] = "take" /\ taskQueue_ # <<>>
    /\ task' = [task EXCEPT ![w] = Head(taskQueue_)]
    /\ taken' = Append(taken, Head(taskQueue_))
    /\ pc' \in notifyNotFull([pc EXCEPT ![w] = "run"])
    /\ UNCHANGED <<poolVars, taskQueue_, opc, posted, ran>>

take(w) ==
    /\ pc[w] = "take" /\ taskQueue_ # <<>>
    /\ task' = [task EXCEPT ![w] = Head(taskQueue_)]
    /\ taken' = Append(taken, Head(taskQueue_))
    /\ taskQueue_' = Tail(taskQueue_)
    /\ pc' \in notifyNotFull([pc EXCEPT ![w] = "run"])
    /\ UNCHANGED <<poolVars, opc, posted, ran>>

(* task(), of a worker or inside post; it may post another.                 *)
runTask(x) ==
    /\ pc[x] = "run"
    /\ ran' = ran \cup {task[x]}
    /\ IF Spawns[task[x]] = None
       THEN /\ pc' = [pc EXCEPT ![x] = Home(x)]
            /\ UNCHANGED <<task, posted>>
       ELSE EnterPost(x, Spawns[task[x]])
    /\ UNCHANGED <<poolVars, taskQueue_, opc, taken>>

spuriousWakeup(x) ==
    /\ pc[x] \in {"empty", "full"}
    /\ pc' = [pc EXCEPT ![x] = IF @ = "empty" THEN "take" ELSE "post"]
    /\ UNCHANGED <<poolVars, taskQueue_, task, opc, posted, taken, ran>>

WorkerStep(w) == testRunning(w) \/ waitNotEmpty(w) \/ takeNothing(w) \/ take(w)
Step(x) == push(x) \/ waitNotFull(x) \/ runTask(x)

Next ==
    \/ start \/ startReturns \/ stop \/ stopReturns
    \/ \E w \in Worker : startThread(w) \/ WorkerStep(w)
    \/ \E p \in Poster, t \in Task : post(p, t)
    \/ \E x \in Thread : Step(x) \/ spuriousWakeup(x)

(* A thread that is not waiting goes on, and tasks end.  Nobody has to      *)
(* post, start or stop, or to wake up for no reason.                        *)
Spec == /\ Init /\ [][Next]_vars
        /\ WF_vars(startReturns) /\ WF_vars(stopReturns)
        /\ \A w \in Worker : WF_vars(WorkerStep(w))
        /\ \A x \in Thread : WF_vars(Step(x))

-----------------------------------------------------------------------------
(* Properties.                                                              *)

(* Nobody sleeps through a notify: while a worker waits, as many workers    *)
(* are about to look as there are tasks; while a poster waits, as many      *)
(* posters are about to look as there is room; and no worker waits for      *)
(* tasks once the pool is stopped.                                          *)
NoLostNotify ==
    /\ Parked("empty") # {} =>
          running_ /\ Len(taskQueue_) <= Cardinality(Parked("take"))
    /\ Parked("full") # {} =>
          maxQueueSize_ <= Len(taskQueue_) + Cardinality(Parked("post"))

(* A stop drops only what nobody has taken: when it has returned, every     *)
(* task taken has been run, and with KeepsPromise every task queued before  *)
(* one that has run. A last task that is waited for before stop, as in      *)
(* ThreadPoolTest, so makes stop drop nothing. (stop, runInThread, take)    *)
StopRunsTaken == opc = "stopped" => Range(taken) \subseteq ran

Queue == INSTANCE TaskQueue WITH size <- maxQueueSize_, queue <- taskQueue_

(* Tasks are taken once each, in the order in which they were put in, and   *)
(* there are never more of them than allowed.                               *)
KeepsPromise == Queue!Spec

(* Every worker waits, inside a task, for room that only a worker can make. *)
AllPosting == threads_ # {} /\ \A w \in threads_ : pc[w] = "full"

(* A task that is queued is run, unless the pool is stopped first or its    *)
(* workers have all blocked themselves by posting to a full queue.          *)
PostedRuns ==
    \A t \in Task : t \in Range(taskQueue_) ~> t \in ran \/ ~running_ \/ AllPosting

(* stop returns, unless a task that a worker was running waits for room:    *)
(* nobody is left to make it.                                               *)
StopReturns ==
    opc = "joining" ~> opc = "stopped" \/ \E w \in Worker : [](pc[w] \in {"post", "full"})
=============================================================================
