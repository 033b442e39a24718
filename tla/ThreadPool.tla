----------------------------- MODULE ThreadPool -----------------------------
(***************************************************************************)
(* The thread pool: a queue of tasks under queue_mutex_, a condition       *)
(* variable, an atomic stop flag that is not under the mutex, the workers' *)
(* loop, enqueue / enqueue_detach and the destructor.                      *)
(*                                                                         *)
(* A task is known by its number: the n-th push is task n.  While it runs  *)
(* it may call enqueue itself.  What is done holding the mutex is split    *)
(* where the stop flag is read, because the destructor sets it without the *)
(* mutex.                                                                  *)
(***************************************************************************)
EXTENDS Integers, Sequences, FiniteSets

CONSTANTS
  Workers,   \* workers_
  Owner,     \* the thread that uses the pool and destroys it
  Nobody,    \* no thread holds the mutex; no task is running
  MaxCalls   \* bound on the calls of enqueue

ASSUME PoolAssumption ==
  /\ Workers # {}   \* the constructor makes two for num_threads = 0
  /\ IsFiniteSet(Workers)
  /\ Owner \notin Workers
  /\ Nobody \notin Workers \cup {Owner} \cup Nat
  /\ MaxCalls \in Nat

Threads == Workers \cup {Owner}

VARIABLES
  mutex,      \* queue_mutex_: the thread that holds it
  stop,       \* stop_
  tasks,      \* tasks_
  waiting,    \* the workers asleep in cv_
  pc,         \* where each thread is
  running,    \* the task a worker has popped and not finished
  popped,     \* number of tasks popped so far
  finished,   \* the tasks that have been run to their end
  calls       \* number of calls of enqueue so far

vars == <<mutex, stop, tasks, waiting, pc, running, popped, finished, calls>>

Init ==
  /\ mutex = Nobody
  /\ stop = FALSE
  /\ tasks = << >>
  /\ waiting = {}
  /\ pc = [t \in Threads |-> IF t = Owner THEN "user" ELSE "lock"]
  /\ running = [w \in Workers |-> Nobody]
  /\ popped = 0
  /\ finished = {}
  /\ calls = 0

\* The tasks pushed so far are 1 .. accepted.
accepted == popped + Len(tasks)

Goto(t, from, to) == pc[t] = from /\ pc' = [pc EXCEPT ![t] = to]

-----------------------------------------------------------------------------
(* enqueue and enqueue_detach, called by the owner or by a running task    *)

Caller(t) == IF t = Owner THEN "user" ELSE "run"

Enqueue(t) ==
  /\ calls < MaxCalls
  /\ Goto(t, Caller(t), "enqueue")
  /\ calls' = calls + 1
  /\ UNCHANGED <<mutex, stop, tasks, waiting, running, popped, finished>>

\* The lock is taken and the flag read.  In a pool that is stopped the call
\* throws and the lock is given back; a task may catch that, or end by it.
Reject(t) ==
  /\ mutex = Nobody
  /\ stop
  /\ Goto(t, "enqueue", Caller(t))
  /\ UNCHANGED <<mutex, stop, tasks, waiting, running, popped, finished, calls>>

Accept(t) ==
  /\ mutex = Nobody
  /\ ~stop
  /\ Goto(t, "enqueue", "push")
  /\ mutex' = t
  /\ UNCHANGED <<stop, tasks, waiting, running, popped, finished, calls>>

Push(t) ==
  /\ Goto(t, "push", "notify")
  /\ tasks' = Append(tasks, accepted + 1)
  /\ mutex' = Nobody
  /\ UNCHANGED <<stop, waiting, running, popped, finished, calls>>

\* Mutant: enqueue does not notify.
NotifyNobody(t) ==
  /\ Goto(t, "notify", Caller(t))
  /\ UNCHANGED <<mutex, stop, tasks, waiting, running, popped, finished, calls>>

\* Mutant: only the task that finds the queue empty is worth a notification.
NotifyFirstOnly(t) ==
  /\ pc[t] = "notify"
  /\ \/ /\ waiting = {} \/ Len(tasks) > 1
        /\ pc' = [pc EXCEPT ![t] = Caller(t)]
        /\ UNCHANGED waiting
     \/ /\ Len(tasks) <= 1
        /\ \E w \in waiting :
             /\ waiting' = waiting \ {w}
             /\ pc' = [pc EXCEPT ![t] = Caller(t), ![w] = "lock"]
  /\ UNCHANGED <<mutex, stop, tasks, running, popped, finished, calls>>

\* cv_.notify_one() after the lock is released: one sleeper, if there is one.
NotifyOne(t) ==
  /\ pc[t] = "notify"
  /\ \/ /\ waiting = {}
        /\ pc' = [pc EXCEPT ![t] = Caller(t)]
        /\ UNCHANGED waiting
     \/ \E w \in waiting :
          /\ waiting' = waiting \ {w}
          /\ pc' = [pc EXCEPT ![t] = Caller(t), ![w] = "lock"]
  /\ UNCHANGED <<mutex, stop, tasks, running, popped, finished, calls>>

-----------------------------------------------------------------------------
(* A worker                                                                *)

\* Entering the loop's block, and leaving cv_.wait's sleep.
Lock(w) ==
  /\ mutex = Nobody
  /\ Goto(w, "lock", "test")
  /\ mutex' = w
  /\ UNCHANGED <<stop, tasks, waiting, running, popped, finished, calls>>

\* Mutant: cv_.wait without a predicate.
TestNothing(w) ==
  /\ Goto(w, "test", "decide")
  /\ UNCHANGED <<mutex, stop, tasks, waiting, running, popped, finished, calls>>

\* The predicate of cv_.wait: stop_ || !tasks_.empty().
Test(w) ==
  /\ Goto(w, "test", IF stop \/ tasks # << >> THEN "decide" ELSE "block")
  /\ UNCHANGED <<mutex, stop, tasks, waiting, running, popped, finished, calls>>

\* cv_.wait releases the mutex and falls asleep, in one step for those who
\* notify holding the mutex, not for the destructor.
Block(w) ==
  /\ Goto(w, "block", "asleep")
  /\ mutex' = Nobody
  /\ waiting' = waiting \cup {w}
  /\ UNCHANGED <<stop, tasks, running, popped, finished, calls>>

\* A condition variable may wake a sleeper that nobody notified.
SpuriousWakeup(w) ==
  /\ w \in waiting
  /\ Goto(w, "asleep", "lock")
  /\ waiting' = waiting \ {w}
  /\ UNCHANGED <<mutex, stop, tasks, running, popped, finished, calls>>

\* Mutant: a worker leaves a stopped pool whatever is in the queue.
ExitAtOnce(w) ==
  /\ stop
  /\ Goto(w, "decide", "exited")
  /\ mutex' = Nobody
  /\ UNCHANGED <<stop, tasks, waiting, running, popped, finished, calls>>

Exit(w) ==
  /\ stop /\ tasks = << >>
  /\ Goto(w, "decide", "exited")
  /\ mutex' = Nobody
  /\ UNCHANGED <<stop, tasks, waiting, running, popped, finished, calls>>

\* Mutant: front() without pop().
PopKeeping(w) ==
  /\ ~(stop /\ tasks = << >>)
  /\ Goto(w, "decide", "run")
  /\ running' = [running EXCEPT ![w] = Head(tasks)]
  /\ popped' = popped + 1
  /\ mutex' = Nobody
  /\ UNCHANGED <<stop, tasks, waiting, finished, calls>>

Pop(w) ==
  /\ ~(stop /\ tasks = << >>)
  /\ Goto(w, "decide", "run")
  /\ running' = [running EXCEPT ![w] = Head(tasks)]
  /\ tasks' = Tail(tasks)
  /\ popped' = popped + 1
  /\ mutex' = Nobody
  /\ UNCHANGED <<stop, waiting, finished, calls>>

\* The task returns or throws; the worker catches everything.
TaskEnds(w) ==
  /\ Goto(w, "run", "lock")
  /\ finished' = finished \cup {running[w]}
  /\ running' = [running EXCEPT ![w] = Nobody]
  /\ UNCHANGED <<mutex, stop, tasks, waiting, popped, calls>>

-----------------------------------------------------------------------------
(* The destructor                                                          *)

StoreStop ==
  /\ Goto(Owner, "user", "stop")
  /\ stop' = TRUE
  /\ UNCHANGED <<mutex, tasks, waiting, running, popped, finished, calls>>

\* Mutant: the destructor calls notify_one().
NotifyOneAtStop ==
  /\ pc[Owner] = "stop"
  /\ \E woken \in IF waiting = {} THEN {{}} ELSE {{w} : w \in waiting} :
       /\ waiting' = waiting \ woken
       /\ pc' = [t \in Threads |-> IF t = Owner THEN "join"
                                   ELSE IF t \in woken THEN "lock" ELSE pc[t]]
  /\ UNCHANGED <<mutex, stop, tasks, running, popped, finished, calls>>

NotifyAll ==
  /\ pc[Owner] = "stop"
  /\ pc' = [t \in Threads |-> IF t = Owner THEN "join"
                              ELSE IF t \in waiting THEN "lock" ELSE pc[t]]
  /\ waiting' = {}
  /\ UNCHANGED <<mutex, stop, tasks, running, popped, finished, calls>>

\* join() on every worker, and the members are destroyed.
Join ==
  /\ \A w \in Workers : pc[w] = "exited"
  /\ Goto(Owner, "join", "destroyed")
  /\ UNCHANGED <<mutex, stop, tasks, waiting, running, popped, finished, calls>>

-----------------------------------------------------------------------------
EnqueueStep(t) == Reject(t) \/ Accept(t) \/ Push(t) \/ NotifyOne(t)

WorkerStep(w) ==
  Lock(w) \/ Test(w) \/ Block(w) \/ Exit(w) \/ Pop(w) \/ TaskEnds(w)

Next ==
  \/ \E t \in Threads : Enqueue(t) \/ EnqueueStep(t)
  \/ \E w \in Workers : WorkerStep(w) \/ SpuriousWakeup(w)
  \/ StoreStop \/ NotifyAll \/ Join

Spec == Init /\ [][Next]_vars

\* Threads that can run do, and tasks end.  Nobody has to enqueue, to destroy
\* the pool, or to wake up without being notified; nor do spurious wakeups go
\* on for ever, which would let the woken worker keep the mutex from others.
Fairness ==
  /\ \A t \in Threads : WF_vars(EnqueueStep(t))
  /\ \A w \in Workers : WF_vars(WorkerStep(w))
  /\ WF_vars(NotifyAll) /\ WF_vars(Join)
  /\ <>[][\A w \in Workers : ~SpuriousWakeup(w)]_vars

FairSpec == Spec /\ Fairness

-----------------------------------------------------------------------------
(* Correctness                                                             *)

OwnerPlaces  == {"user", "enqueue", "push", "notify", "stop", "join", "destroyed"}
WorkerPlaces == {"lock", "test", "block", "asleep", "decide", "run", "enqueue",
                 "push", "notify", "exited"}

\* The variables have their types.
TypeOK ==
  /\ mutex \in Threads \cup {Nobody}
  /\ stop \in BOOLEAN
  /\ tasks \in Seq(Nat)
  /\ waiting \subseteq Workers
  /\ pc \in [Threads -> OwnerPlaces \cup WorkerPlaces]
  /\ pc[Owner] \in OwnerPlaces /\ \A w \in Workers : pc[w] \in WorkerPlaces
  /\ running \in [Workers -> Nat \cup {Nobody}]
  /\ popped \in Nat
  /\ finished \subseteq Nat
  /\ calls \in Nat

\* The tasks workers are running.
Running == {running[w] : w \in Workers} \ {Nobody}

\* Every accepted task is in one place: in the queue, in the order of the
\* pushes, being run by one worker, or finished.  None is lost, run twice or
\* overtaken, whatever the interleaving of pushes, pops and the destructor.
EachTaskOnce ==
  /\ \A i \in 1 .. Len(tasks) : tasks[i] = popped + i
  /\ Running \cup finished = 1 .. popped
  /\ Running \cap finished = {}
  /\ \A v, w \in Workers : v # w /\ running[v] # Nobody => running[v] # running[w]

\* tasks_.front() is never taken of an empty queue, though stop_ is read
\* twice, by the predicate and by the test for leaving, and set in between.
PopFindsTask ==
  \A w \in Workers : pc[w] = "decide" => stop \/ tasks # << >>

\* The workers that look at the queue before they sleep again, and the threads
\* that have pushed and not yet notified.
Awake     == {w \in Workers : pc[w] \in {"lock", "test", "decide"}}
Notifying == {t \in Threads : pc[t] = "notify"}

\* No task waits in the queue for a worker that is busy while another sleeps:
\* as long as one sleeps there are as many awake, or about to be notified, as
\* there are tasks, although a notification that comes between two waits is
\* lost and another worker may take the task it was for.
TasksWakeWorkers ==
  waiting # {} => Len(tasks) <= Cardinality(Awake) + Cardinality(Notifying)

\* ThreadPool.hpp:40: the queue is drained before the pool goes.  When the
\* destructor returns no accepted task is unfinished, not even one a task
\* has enqueued while the pool was being stopped.
DrainedWhenDestroyed ==
  pc[Owner] = "destroyed" =>
    tasks = << >> /\ finished = 1 .. accepted /\ waiting = {} /\ mutex = Nobody

\* Every accepted task is run to its end, before or after the pool is
\* stopped.
AcceptedIsFinished ==
  \A n \in 1 .. MaxCalls : n <= accepted ~> n \in finished

\* ThreadPool.hpp:38-42: the destructor joins every worker, so it returns.
DestructorReturns == pc[Owner] = "stop" ~> pc[Owner] = "destroyed"

\* What holds of it: the destructor returns unless it notifies while some
\* worker has found nothing to do and is not asleep yet.
DestructorReturnsOutsideWindow ==
  pc[Owner] = "stop" /\ (\A w \in Workers : pc[w] # "block")
    ~> pc[Owner] = "destroyed" \/ (pc[Owner] = "stop" /\ \E w \in Workers : pc[w] = "block")
=============================================================================
