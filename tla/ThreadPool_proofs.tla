-------------------------- MODULE ThreadPool_proofs --------------------------
(***************************************************************************)
(* Proofs about ThreadPool: its safety invariants hold for every set of    *)
(* workers and any number of calls.                                        *)
(*                                                                         *)
(* The invariants the runs check are not inductive.  What makes them so:   *)
(* who holds the mutex (LockInv), who sleeps (SleepInv), who has a task    *)
(* (RunInv), that the flag is the owner's progress (StopInv), and that     *)
(* from the first exit of a worker on the queue is empty and nobody is     *)
(* about to push (ExitInv): a worker leaves holding the mutex, with the    *)
(* flag set, and a push needs the mutex from before the flag was set.      *)
(* That enough workers are awake for the queue rests on IInv and BlockInv. *)
(***************************************************************************)
EXTENDS ThreadPool, FiniteSetTheorems, TLAPS

LockInv == \A t \in Threads :
  pc[t] \in {"test", "block", "decide", "push"} <=> mutex = t

SleepInv == \A w \in Workers : w \in waiting <=> pc[w] = "asleep"

RunInv == \A w \in Workers :
  running[w] # Nobody <=> pc[w] \in {"run", "enqueue", "push", "notify"}

StopInv == stop <=> pc[Owner] \in {"stop", "join", "destroyed"}

ExitInv == \A w \in Workers : pc[w] = "exited" =>
  /\ stop /\ tasks = << >>
  /\ \A t \in Threads : pc[t] # "push"

DestroyedInv == pc[Owner] = "destroyed" => \A w \in Workers : pc[w] = "exited"

IInv ==
  /\ TypeOK
  /\ LockInv
  /\ SleepInv
  /\ RunInv
  /\ StopInv
  /\ ExitInv
  /\ DestroyedInv
  /\ PopFindsTask
  /\ EachTaskOnce

-----------------------------------------------------------------------------
(* The parts of IInv that speak of places only.                            *)
Control == LockInv /\ SleepInv /\ RunInv /\ StopInv /\ DestroyedInv

\* The initial state satisfies the invariant.
LEMMA InitInv == Init => IInv
<1> SUFFICES ASSUME Init PROVE IInv
  OBVIOUS
<1> USE PoolAssumption DEF Init, Threads
<1>1. TypeOK
  <2>1. tasks \in Seq(Nat) /\ Nat \cap {Nobody} = {}
    OBVIOUS
  <2>2. pc \in [Threads -> OwnerPlaces \cup WorkerPlaces]
    BY DEF OwnerPlaces, WorkerPlaces
  <2>3. pc[Owner] \in OwnerPlaces /\ \A w \in Workers : pc[w] \in WorkerPlaces
    BY DEF OwnerPlaces, WorkerPlaces
  <2> QED
    BY <2>1, <2>2, <2>3 DEF TypeOK
<1>2. Control
  BY DEF Control, LockInv, SleepInv, RunInv, StopInv, DestroyedInv
<1>3. ExitInv /\ PopFindsTask
  BY DEF ExitInv, PopFindsTask
<1>4. EachTaskOnce
  BY DEF EachTaskOnce, Running
<1> QED
  BY <1>1, <1>2, <1>3, <1>4 DEF IInv, Control

\* Every step preserves the types.
LEMMA StepType == IInv /\ [Next]_vars => TypeOK'
<1> SUFFICES ASSUME IInv, [Next]_vars PROVE TypeOK'
  OBVIOUS
<1> USE PoolAssumption DEF IInv, TypeOK, Threads, Goto, OwnerPlaces, WorkerPlaces
<1>1. ASSUME NEW t \in Threads, Enqueue(t) \/ EnqueueStep(t) PROVE TypeOK'
  <2>1. CASE Enqueue(t)
    BY <2>1 DEF Enqueue, Caller
  <2>2. CASE Reject(t)
    BY <2>2 DEF Reject, Caller
  <2>3. CASE Accept(t)
    BY <2>3 DEF Accept
  <2>4. CASE Push(t)
    <3>1. accepted + 1 \in Nat
      BY DEF accepted
    <3>2. tasks' \in Seq(Nat)
      BY <2>4, <3>1 DEF Push
    <3> QED
      BY <2>4, <3>2 DEF Push
  <2>5. CASE NotifyOne(t)
    <3>1. Caller(t) \in (IF t = Owner THEN OwnerPlaces ELSE WorkerPlaces)
      BY DEF Caller
    <3>2. CASE waiting = {} /\ pc' = [pc EXCEPT ![t] = Caller(t)] /\ UNCHANGED waiting
      BY <2>5, <3>1, <3>2 DEF NotifyOne
    <3>3. ASSUME NEW w \in waiting, waiting' = waiting \ {w},
                 pc' = [pc EXCEPT ![t] = Caller(t), ![w] = "lock"]
          PROVE  TypeOK'
      <4>1. w \in Workers /\ w # Owner
        OBVIOUS
      <4>2. pc' \in [Threads -> OwnerPlaces \cup WorkerPlaces]
        BY <3>1, <3>3
      <4>3. pc'[Owner] \in OwnerPlaces /\ \A v \in Workers : pc'[v] \in WorkerPlaces
        BY <3>1, <3>3, <4>1
      <4> QED
        BY <2>5, <3>3, <4>2, <4>3 DEF NotifyOne
    <3> QED
      BY <2>5, <3>2, <3>3 DEF NotifyOne
  <2> QED
    BY <1>1, <2>1, <2>2, <2>3, <2>4, <2>5 DEF EnqueueStep
<1>2. ASSUME NEW w \in Workers, WorkerStep(w) \/ SpuriousWakeup(w) PROVE TypeOK'
  <2>1. CASE Lock(w)
    BY <2>1 DEF Lock
  <2>2. CASE Test(w)
    BY <2>2 DEF Test
  <2>3. CASE Block(w)
    BY <2>3 DEF Block
  <2>4. CASE Exit(w)
    BY <2>4 DEF Exit
  <2>5. CASE Pop(w)
    BY <2>5 DEF Pop, PopFindsTask
  <2>6. CASE TaskEnds(w)
    BY <2>6 DEF TaskEnds, RunInv
  <2>7. CASE SpuriousWakeup(w)
    BY <2>7 DEF SpuriousWakeup
  <2> QED
    BY <1>2, <2>1, <2>2, <2>3, <2>4, <2>5, <2>6, <2>7 DEF WorkerStep
<1>3. CASE StoreStop
  BY <1>3 DEF StoreStop
<1>4. CASE NotifyAll
  BY <1>4 DEF NotifyAll
<1>5. CASE Join
  BY <1>5 DEF Join
<1>6. CASE UNCHANGED vars
  BY <1>6 DEF vars
<1> QED
  BY <1>1, <1>2, <1>3, <1>4, <1>5, <1>6 DEF Next

\* Every step preserves what relates places, mutex, sleepers and the flag.
LEMMA StepControl == IInv /\ [Next]_vars => Control'
<1> SUFFICES ASSUME IInv, [Next]_vars PROVE Control'
  OBVIOUS
<1> USE PoolAssumption
    DEF IInv, TypeOK, Threads, Goto, Control, LockInv, SleepInv, RunInv, StopInv,
        DestroyedInv
<1>1. ASSUME NEW t \in Threads, Enqueue(t) \/ EnqueueStep(t) PROVE Control'
  <2>1. CASE Enqueue(t)
    BY <2>1 DEF Enqueue, Caller
  <2>2. CASE Reject(t)
    BY <2>2 DEF Reject, Caller
  <2>3. CASE Accept(t)
    BY <2>3 DEF Accept
  <2>4. CASE Push(t)
    BY <2>4 DEF Push
  <2>5. CASE NotifyOne(t)
    <3>1. CASE waiting = {} /\ pc' = [pc EXCEPT ![t] = Caller(t)] /\ UNCHANGED waiting
      BY <2>5, <3>1 DEF NotifyOne, Caller
    <3>2. ASSUME NEW w \in waiting, waiting' = waiting \ {w},
                 pc' = [pc EXCEPT ![t] = Caller(t), ![w] = "lock"]
          PROVE  Control'
      <4>1. w \in Workers /\ w # t /\ pc[w] = "asleep" /\ pc[t] = "notify"
        BY <2>5 DEF NotifyOne
      <4>2. \A u \in Threads : pc'[u] = IF u = w THEN "lock"
                                       ELSE IF u = t THEN Caller(t) ELSE pc[u]
        BY <3>2, <4>1
      <4>3. UNCHANGED <<mutex, stop, running>>
        BY <2>5 DEF NotifyOne
      <4>4. LockInv'
        BY <4>1, <4>2, <4>3 DEF Caller
      <4>5. SleepInv'
        BY <3>2, <4>1, <4>2 DEF Caller
      <4>6. RunInv'
        BY <4>1, <4>2, <4>3 DEF Caller
      <4>7. StopInv' /\ DestroyedInv'
        BY <4>1, <4>2, <4>3 DEF Caller
      <4> QED
        BY <4>4, <4>5, <4>6, <4>7
    <3> QED
      BY <2>5, <3>1, <3>2 DEF NotifyOne
  <2> QED
    BY <1>1, <2>1, <2>2, <2>3, <2>4, <2>5 DEF EnqueueStep
<1>2. ASSUME NEW w \in Workers, WorkerStep(w) \/ SpuriousWakeup(w) PROVE Control'
  <2>1. CASE Lock(w)
    BY <2>1 DEF Lock
  <2>2. CASE Test(w)
    BY <2>2 DEF Test
  <2>3. CASE Block(w)
    BY <2>3 DEF Block
  <2>4. CASE Exit(w)
    BY <2>4 DEF Exit
  <2>5. CASE Pop(w)
    <3>1. tasks # << >> /\ Head(tasks) # Nobody
      BY <2>5 DEF Pop, PopFindsTask
    <3> QED
      BY <2>5, <3>1 DEF Pop
  <2>6. CASE TaskEnds(w)
    BY <2>6 DEF TaskEnds
  <2>7. CASE SpuriousWakeup(w)
    BY <2>7 DEF SpuriousWakeup
  <2> QED
    BY <1>2, <2>1, <2>2, <2>3, <2>4, <2>5, <2>6, <2>7 DEF WorkerStep
<1>3. CASE StoreStop
  BY <1>3 DEF StoreStop
<1>4. CASE NotifyAll
  BY <1>4 DEF NotifyAll
<1>5. CASE Join
  BY <1>5 DEF Join
<1>6. CASE UNCHANGED vars
  BY <1>6 DEF vars
<1> QED
  BY <1>1, <1>2, <1>3, <1>4, <1>5, <1>6 DEF Next

\* Every step preserves that nothing is left behind a worker that has left.
LEMMA StepExit == IInv /\ [Next]_vars => ExitInv'
<1> SUFFICES ASSUME IInv, [Next]_vars PROVE ExitInv'
  OBVIOUS
<1> USE PoolAssumption
    DEF IInv, TypeOK, Threads, Goto, ExitInv
<1>1. ASSUME NEW t \in Threads, Enqueue(t) \/ EnqueueStep(t) PROVE ExitInv'
  <2>1. CASE Enqueue(t)
    BY <2>1 DEF Enqueue, Caller
  <2>2. CASE Reject(t)
    BY <2>2 DEF Reject, Caller
  <2>3. CASE Accept(t)
    BY <2>3 DEF Accept
  <2>4. CASE Push(t)
    BY <2>4 DEF Push
  <2>5. CASE NotifyOne(t)
    <3>1. UNCHANGED <<stop, tasks>>
      BY <2>5 DEF NotifyOne
    <3>2. \A u \in Threads : pc'[u] \in {pc[u], "lock", "user", "run"}
      BY <2>5 DEF NotifyOne, Caller
    <3> QED
      BY <3>1, <3>2
  <2> QED
    BY <1>1, <2>1, <2>2, <2>3, <2>4, <2>5 DEF EnqueueStep
<1>2. ASSUME NEW w \in Workers, WorkerStep(w) \/ SpuriousWakeup(w) PROVE ExitInv'
  <2>1. CASE Lock(w)
    BY <2>1 DEF Lock
  <2>2. CASE Test(w)
    BY <2>2 DEF Test
  <2>3. CASE Block(w)
    BY <2>3 DEF Block
  <2>4. CASE Exit(w)
    <3>1. \A t \in Threads : pc[t] # "push"
      BY <2>4 DEF Exit, LockInv
    <3> QED
      BY <2>4, <3>1 DEF Exit
  <2>5. CASE Pop(w)
    BY <2>5 DEF Pop
  <2>6. CASE TaskEnds(w)
    BY <2>6 DEF TaskEnds
  <2>7. CASE SpuriousWakeup(w)
    BY <2>7 DEF SpuriousWakeup
  <2> QED
    BY <1>2, <2>1, <2>2, <2>3, <2>4, <2>5, <2>6, <2>7 DEF WorkerStep
<1>3. CASE StoreStop
  BY <1>3 DEF StoreStop
<1>4. CASE NotifyAll
  BY <1>4 DEF NotifyAll
<1>5. CASE Join
  BY <1>5 DEF Join
<1>6. CASE UNCHANGED vars
  BY <1>6 DEF vars
<1> QED
  BY <1>1, <1>2, <1>3, <1>4, <1>5, <1>6 DEF Next

\* Every step preserves that a worker about to pop finds a task.
LEMMA StepPop == IInv /\ [Next]_vars => PopFindsTask'
<1> SUFFICES ASSUME IInv, [Next]_vars PROVE PopFindsTask'
  OBVIOUS
<1> USE PoolAssumption
    DEF IInv, TypeOK, Threads, Goto, PopFindsTask
<1>1. ASSUME NEW t \in Threads, Enqueue(t) \/ EnqueueStep(t) PROVE PopFindsTask'
  <2>1. CASE Enqueue(t)
    BY <2>1 DEF Enqueue, Caller
  <2>2. CASE Reject(t)
    BY <2>2 DEF Reject, Caller
  <2>3. CASE Accept(t)
    BY <2>3 DEF Accept
  <2>4. CASE Push(t)
    <3>1. \A w \in Workers : pc[w] # "decide"
      BY <2>4 DEF Push, LockInv
    <3> QED
      BY <2>4, <3>1 DEF Push
  <2>5. CASE NotifyOne(t)
    <3>1. UNCHANGED <<stop, tasks>>
      BY <2>5 DEF NotifyOne
    <3>2. \A u \in Threads : pc'[u] \in {pc[u], "lock", "user", "run"}
      BY <2>5 DEF NotifyOne, Caller
    <3> QED
      BY <3>1, <3>2
  <2> QED
    BY <1>1, <2>1, <2>2, <2>3, <2>4, <2>5 DEF EnqueueStep
<1>2. ASSUME NEW w \in Workers, WorkerStep(w) \/ SpuriousWakeup(w) PROVE PopFindsTask'
  <2>1. CASE Lock(w)
    BY <2>1 DEF Lock
  <2>2. CASE Test(w)
    BY <2>2 DEF Test
  <2>3. CASE Block(w)
    BY <2>3 DEF Block
  <2>4. CASE Exit(w)
    BY <2>4 DEF Exit
  <2>5. CASE Pop(w)
    <3>1. \A v \in Workers : v # w => pc[v] # "decide"
      BY <2>5 DEF Pop, LockInv
    <3> QED
      BY <2>5, <3>1 DEF Pop
  <2>6. CASE TaskEnds(w)
    BY <2>6 DEF TaskEnds
  <2>7. CASE SpuriousWakeup(w)
    BY <2>7 DEF SpuriousWakeup
  <2> QED
    BY <1>2, <2>1, <2>2, <2>3, <2>4, <2>5, <2>6, <2>7 DEF WorkerStep
<1>3. CASE StoreStop
  BY <1>3 DEF StoreStop
<1>4. CASE NotifyAll
  BY <1>4 DEF NotifyAll
<1>5. CASE Join
  BY <1>5 DEF Join
<1>6. CASE UNCHANGED vars
  BY <1>6 DEF vars
<1> QED
  BY <1>1, <1>2, <1>3, <1>4, <1>5, <1>6 DEF Next

\* Every step preserves that a task is in one place, in order.  Only a push,
\* a pop and the end of a task move tasks.
LEMMA StepOnce == IInv /\ [Next]_vars => EachTaskOnce'
<1> SUFFICES ASSUME IInv, [Next]_vars PROVE EachTaskOnce'
  OBVIOUS
<1> USE PoolAssumption DEF IInv, TypeOK, Threads, Goto
<1>1. ASSUME UNCHANGED <<tasks, running, popped, finished>> PROVE EachTaskOnce'
  BY <1>1 DEF EachTaskOnce, Running
<1>2. ASSUME NEW t \in Threads, Push(t) PROVE EachTaskOnce'
  <2>1. tasks' = Append(tasks, popped + Len(tasks) + 1)
        /\ UNCHANGED <<running, popped, finished>>
    BY <1>2 DEF Push, accepted
  <2>2. Len(tasks') = Len(tasks) + 1 /\ Len(tasks) \in Nat
    BY <2>1
  <2>3. ASSUME NEW i \in 1 .. Len(tasks') PROVE tasks'[i] = popped + i
    <3>1. CASE i = Len(tasks) + 1
      BY <2>1, <3>1
    <3>2. CASE i # Len(tasks) + 1
      <4>1. i \in 1 .. Len(tasks)
        BY <2>2, <3>2
      <4>2. tasks'[i] = tasks[i]
        BY <2>1, <4>1
      <4> QED
        BY <4>1, <4>2 DEF EachTaskOnce
    <3> QED
      BY <3>1, <3>2
  <2> QED
    BY <2>1, <2>3 DEF EachTaskOnce, Running
<1>3. ASSUME NEW w \in Workers, Pop(w) PROVE EachTaskOnce'
  <2>1. tasks # << >> /\ running[w] = Nobody
    BY <1>3 DEF Pop, PopFindsTask, RunInv
  <2>2. Head(tasks) = popped + 1
    BY <2>1 DEF EachTaskOnce
  <2>3. Len(tasks') = Len(tasks) - 1
        /\ \A i \in 1 .. Len(tasks') : tasks'[i] = popped' + i
    BY <1>3, <2>1 DEF Pop, EachTaskOnce
  <2>4. running' = [running EXCEPT ![w] = popped + 1]
        /\ popped' = popped + 1 /\ UNCHANGED finished
    BY <1>3, <2>2 DEF Pop
  <2>5. Running' = Running \cup {popped + 1}
    BY <2>1, <2>4 DEF Running
  <2>6. Running' \cup finished' = 1 .. popped' /\ Running' \cap finished' = {}
    BY <2>4, <2>5 DEF EachTaskOnce
  <2>7. \A v \in Workers : running[v] # popped + 1
    BY DEF EachTaskOnce, Running
  <2>8. \A u, v \in Workers :
          u # v /\ running'[u] # Nobody => running'[u] # running'[v]
    BY <2>4, <2>7 DEF EachTaskOnce
  <2> QED
    BY <2>3, <2>6, <2>8 DEF EachTaskOnce
<1>4. ASSUME NEW w \in Workers, TaskEnds(w) PROVE EachTaskOnce'
  <2>1. running[w] # Nobody
    BY <1>4 DEF TaskEnds, RunInv
  <2>2. running' = [running EXCEPT ![w] = Nobody]
        /\ finished' = finished \cup {running[w]} /\ UNCHANGED <<tasks, popped>>
    BY <1>4 DEF TaskEnds
  <2>3. Running' = Running \ {running[w]} /\ running[w] \in Running
    BY <2>1, <2>2 DEF EachTaskOnce, Running
  <2>4. Running' \cup finished' = 1 .. popped' /\ Running' \cap finished' = {}
    BY <2>2, <2>3 DEF EachTaskOnce
  <2> QED
    BY <2>2, <2>4 DEF EachTaskOnce
<1>5. ASSUME NEW t \in Threads, Enqueue(t) \/ Reject(t) \/ Accept(t) \/ NotifyOne(t)
      PROVE  UNCHANGED <<tasks, running, popped, finished>>
  BY <1>5 DEF Enqueue, Reject, Accept, NotifyOne
<1>6. ASSUME NEW w \in Workers, Lock(w) \/ Test(w) \/ Block(w) \/ Exit(w) \/ SpuriousWakeup(w)
      PROVE  UNCHANGED <<tasks, running, popped, finished>>
  BY <1>6 DEF Lock, Test, Block, Exit, SpuriousWakeup
<1>7. ASSUME StoreStop \/ NotifyAll \/ Join \/ UNCHANGED vars
      PROVE  UNCHANGED <<tasks, running, popped, finished>>
  BY <1>7 DEF StoreStop, NotifyAll, Join, vars
<1> QED
  BY <1>1, <1>2, <1>3, <1>4, <1>5, <1>6, <1>7 DEF Next, EnqueueStep, WorkerStep

-----------------------------------------------------------------------------
(* Why no task waits for a busy worker while another sleeps.               *)

\* A worker that has seen an empty queue and is not asleep yet holds the
\* mutex, so the queue is still empty.
BlockInv == \A w \in Workers : pc[w] = "block" => tasks = << >>

\* The workers that are awake, and the threads about to notify, can be counted.
LEMMA CountsAreFinite ==
  ASSUME NEW S, S \subseteq Threads
  PROVE  IsFiniteSet(S) /\ Cardinality(S) \in Nat
<1>1. IsFiniteSet(Threads)
  BY PoolAssumption, FS_AddElement DEF Threads
<1>2. IsFiniteSet(S)
  BY <1>1, FS_Subset
<1> QED
  BY <1>2, FS_CardinalityType

\* Every step preserves that who is about to sleep has seen the queue as it is.
LEMMA StepBlock == IInv /\ BlockInv /\ [Next]_vars => BlockInv'
<1> SUFFICES ASSUME IInv, BlockInv, [Next]_vars PROVE BlockInv'
  OBVIOUS
<1> USE PoolAssumption DEF IInv, TypeOK, Threads, Goto, BlockInv
<1>1. ASSUME NEW t \in Threads, Enqueue(t) \/ EnqueueStep(t) PROVE BlockInv'
  <2>1. CASE Enqueue(t)
    BY <2>1 DEF Enqueue, Caller
  <2>2. CASE Reject(t)
    BY <2>2 DEF Reject, Caller
  <2>3. CASE Accept(t)
    BY <2>3 DEF Accept
  <2>4. CASE Push(t)
    <3>1. \A w \in Workers : pc[w] # "block"
      BY <2>4 DEF Push, LockInv
    <3> QED
      BY <2>4, <3>1 DEF Push
  <2>5. CASE NotifyOne(t)
    <3>1. UNCHANGED tasks
      BY <2>5 DEF NotifyOne
    <3>2. \A u \in Threads : pc'[u] \in {pc[u], "lock", "user", "run"}
      BY <2>5 DEF NotifyOne, Caller
    <3> QED
      BY <3>1, <3>2
  <2> QED
    BY <1>1, <2>1, <2>2, <2>3, <2>4, <2>5 DEF EnqueueStep
<1>2. ASSUME NEW w \in Workers, WorkerStep(w) \/ SpuriousWakeup(w) PROVE BlockInv'
  <2>1. CASE Lock(w)
    BY <2>1 DEF Lock
  <2>2. CASE Test(w)
    BY <2>2 DEF Test
  <2>3. CASE Block(w)
    BY <2>3 DEF Block
  <2>4. CASE Exit(w)
    BY <2>4 DEF Exit
  <2>5. CASE Pop(w)
    <3>1. \A v \in Workers : pc[v] # "block"
      BY <2>5 DEF Pop, LockInv
    <3> QED
      BY <2>5, <3>1 DEF Pop
  <2>6. CASE TaskEnds(w)
    BY <2>6 DEF TaskEnds
  <2>7. CASE SpuriousWakeup(w)
    BY <2>7 DEF SpuriousWakeup
  <2> QED
    BY <1>2, <2>1, <2>2, <2>3, <2>4, <2>5, <2>6, <2>7 DEF WorkerStep
<1>3. CASE StoreStop
  BY <1>3 DEF StoreStop
<1>4. CASE NotifyAll
  BY <1>4 DEF NotifyAll
<1>5. CASE Join
  BY <1>5 DEF Join
<1>6. CASE UNCHANGED vars
  BY <1>6 DEF vars
<1> QED
  BY <1>1, <1>2, <1>3, <1>4, <1>5, <1>6 DEF Next

\* Every step preserves that there are enough awake.  A push adds a thread
\* about to notify; a notification trades it for a worker that wakes; a pop
\* takes a worker and a task; nobody goes to sleep on a task.
LEMMA StepWake ==
  IInv /\ BlockInv /\ TasksWakeWorkers /\ [Next]_vars => TasksWakeWorkers'
<1> SUFFICES ASSUME IInv, BlockInv, TasksWakeWorkers, [Next]_vars
             PROVE  TasksWakeWorkers'
  OBVIOUS
<1>f. /\ IsFiniteSet(Awake) /\ IsFiniteSet(Notifying)
      /\ Cardinality(Awake) \in Nat /\ Cardinality(Notifying) \in Nat
  <2>1. Awake \subseteq Threads /\ Notifying \subseteq Threads
    BY DEF Awake, Notifying, Threads
  <2> QED
    BY <2>1, CountsAreFinite
<1>g. /\ IsFiniteSet(Awake') /\ IsFiniteSet(Notifying')
      /\ Cardinality(Awake') \in Nat /\ Cardinality(Notifying') \in Nat
  <2>1. Awake' \subseteq Threads /\ Notifying' \subseteq Threads
    BY DEF Awake, Notifying, Threads
  <2> QED
    BY <2>1, CountsAreFinite
<1>n. Len(tasks) \in Nat
  BY DEF IInv, TypeOK
<1>m. ASSUME waiting' # {} => waiting # {}, UNCHANGED tasks,
             Awake \subseteq Awake', Notifying \subseteq Notifying'
      PROVE  TasksWakeWorkers'
  <2>1. /\ Cardinality(Awake) <= Cardinality(Awake')
        /\ Cardinality(Notifying) <= Cardinality(Notifying')
    BY <1>g, <1>m, FS_Subset
  <2> QED
    BY <1>f, <1>g, <1>m, <1>n, <2>1 DEF TasksWakeWorkers
<1>e. ASSUME tasks' = << >> PROVE TasksWakeWorkers'
  BY <1>e, <1>g DEF TasksWakeWorkers
<1> USE PoolAssumption DEF IInv, TypeOK, Threads, Goto
<1>1. ASSUME NEW t \in Threads, Enqueue(t) \/ EnqueueStep(t) PROVE TasksWakeWorkers'
  <2>1. CASE Enqueue(t)
    <3>1. Awake \subseteq Awake' /\ Notifying \subseteq Notifying'
      BY <2>1 DEF Enqueue, Caller, Awake, Notifying
    <3> QED
      BY <2>1, <3>1, <1>m DEF Enqueue
  <2>2. CASE Reject(t)
    <3>1. Awake \subseteq Awake' /\ Notifying \subseteq Notifying'
      BY <2>2 DEF Reject, Caller, Awake, Notifying
    <3> QED
      BY <2>2, <3>1, <1>m DEF Reject
  <2>3. CASE Accept(t)
    <3>1. Awake \subseteq Awake' /\ Notifying \subseteq Notifying'
      BY <2>3 DEF Accept, Awake, Notifying
    <3> QED
      BY <2>3, <3>1, <1>m DEF Accept
  <2>4. CASE Push(t)
    <3>1. Awake' = Awake /\ Notifying' = Notifying \cup {t} /\ t \notin Notifying
      BY <2>4 DEF Push, Awake, Notifying
    <3>2. Cardinality(Notifying') = Cardinality(Notifying) + 1
      BY <3>1, <1>f, FS_AddElement
    <3>3. Len(tasks') = Len(tasks) + 1 /\ UNCHANGED waiting
      BY <2>4 DEF Push
    <3> QED
      BY <3>1, <3>2, <3>3, <1>f, <1>n DEF TasksWakeWorkers
  <2>5. CASE NotifyOne(t)
    <3>1. CASE waiting = {} /\ UNCHANGED waiting
      BY <3>1 DEF TasksWakeWorkers
    <3>2. ASSUME NEW w \in waiting, waiting' = waiting \ {w},
                 pc' = [pc EXCEPT ![t] = Caller(t), ![w] = "lock"]
          PROVE  TasksWakeWorkers'
      <4>1. /\ w \in Workers /\ w # t /\ pc[w] = "asleep" /\ pc[t] = "notify"
            /\ UNCHANGED tasks
        BY <2>5 DEF NotifyOne, SleepInv
      <4>2. \A u \in Threads : pc'[u] = IF u = w THEN "lock"
                                       ELSE IF u = t THEN Caller(t) ELSE pc[u]
        BY <3>2, <4>1
      <4>3. Awake' = Awake \cup {w} /\ w \notin Awake
        BY <4>1, <4>2 DEF Awake, Caller
      <4>4. Notifying' = Notifying \ {t} /\ t \in Notifying
        BY <4>1, <4>2 DEF Notifying, Caller
      <4>5. /\ Cardinality(Awake') = Cardinality(Awake) + 1
            /\ Cardinality(Notifying') = Cardinality(Notifying) - 1
        BY <4>3, <4>4, <1>f, FS_AddElement, FS_RemoveElement
      <4> QED
        BY <4>1, <4>5, <1>f, <1>n DEF TasksWakeWorkers
    <3> QED
      BY <2>5, <3>1, <3>2 DEF NotifyOne
  <2> QED
    BY <1>1, <2>1, <2>2, <2>3, <2>4, <2>5 DEF EnqueueStep
<1>2. ASSUME NEW w \in Workers, WorkerStep(w) \/ SpuriousWakeup(w)
      PROVE  TasksWakeWorkers'
  <2>1. CASE Lock(w)
    <3>1. Awake \subseteq Awake' /\ Notifying \subseteq Notifying'
      BY <2>1 DEF Lock, Awake, Notifying
    <3> QED
      BY <2>1, <3>1, <1>m DEF Lock
  <2>2. CASE Test(w)
    <3>1. CASE tasks = << >>
      BY <2>2, <3>1, <1>e DEF Test
    <3>2. CASE tasks # << >>
      <4>1. Awake \subseteq Awake' /\ Notifying \subseteq Notifying'
        BY <2>2, <3>2 DEF Test, Awake, Notifying
      <4> QED
        BY <2>2, <4>1, <1>m DEF Test
    <3> QED
      BY <3>1, <3>2
  <2>3. CASE Block(w)
    BY <2>3, <1>e DEF Block, BlockInv
  <2>4. CASE Exit(w)
    BY <2>4, <1>e DEF Exit
  <2>5. CASE Pop(w)
    <3>1. Awake' = Awake \ {w} /\ w \in Awake /\ Notifying' = Notifying
      BY <2>5 DEF Pop, Awake, Notifying
    <3>2. Cardinality(Awake') = Cardinality(Awake) - 1
      BY <3>1, <1>f, FS_RemoveElement
    <3>3. tasks # << >>
      BY <2>5 DEF Pop, PopFindsTask
    <3>4. Len(tasks') = Len(tasks) - 1 /\ UNCHANGED waiting
      BY <2>5, <3>3 DEF Pop
    <3> QED
      BY <3>1, <3>2, <3>4, <1>f, <1>n DEF TasksWakeWorkers
  <2>6. CASE TaskEnds(w)
    <3>1. Awake \subseteq Awake' /\ Notifying \subseteq Notifying'
      BY <2>6 DEF TaskEnds, Awake, Notifying
    <3> QED
      BY <2>6, <3>1, <1>m DEF TaskEnds
  <2>7. CASE SpuriousWakeup(w)
    <3>1. Awake \subseteq Awake' /\ Notifying \subseteq Notifying'
      BY <2>7 DEF SpuriousWakeup, Awake, Notifying
    <3> QED
      BY <2>7, <3>1, <1>m DEF SpuriousWakeup
  <2> QED
    BY <1>2, <2>1, <2>2, <2>3, <2>4, <2>5, <2>6, <2>7 DEF WorkerStep
<1>3. CASE StoreStop
  <2>1. Awake \subseteq Awake' /\ Notifying \subseteq Notifying'
    BY <1>3 DEF StoreStop, Awake, Notifying
  <2> QED
    BY <1>3, <2>1, <1>m DEF StoreStop
<1>4. CASE NotifyAll
  BY <1>4 DEF NotifyAll, TasksWakeWorkers
<1>5. CASE Join
  <2>1. Awake \subseteq Awake' /\ Notifying \subseteq Notifying'
    BY <1>5 DEF Join, Awake, Notifying
  <2> QED
    BY <1>5, <2>1, <1>m DEF Join
<1>6. CASE UNCHANGED vars
  <2>1. Awake \subseteq Awake' /\ Notifying \subseteq Notifying'
    BY <1>6 DEF vars, Awake, Notifying
  <2> QED
    BY <1>6, <2>1, <1>m DEF vars
<1> QED
  BY <1>1, <1>2, <1>3, <1>4, <1>5, <1>6 DEF Next

-----------------------------------------------------------------------------
(* The theorems                                                            *)

\* IInv is inductive.
THEOREM Invariance == Spec => []IInv
<1>1. IInv /\ [Next]_vars => IInv'
  BY StepType, StepControl, StepExit, StepPop, StepOnce DEF IInv, Control
<1> QED
  BY InitInv, <1>1, PTL DEF Spec

\* The variables keep their types.
THEOREM TypeCorrect == Spec => []TypeOK
<1>1. IInv => TypeOK
  BY DEF IInv
<1> QED
  BY Invariance, <1>1, PTL

\* ThreadPool.cpp:30-32: every accepted task is in the queue in order, run by
\* one worker or finished, for any number of workers and of calls.
THEOREM TasksRunOnce == Spec => []EachTaskOnce
<1>1. IInv => EachTaskOnce
  BY DEF IInv
<1> QED
  BY Invariance, <1>1, PTL

\* ThreadPool.cpp:25-32: front() and pop() are never called on an empty queue.
THEOREM PopIsSafe == Spec => []PopFindsTask
<1>1. IInv => PopFindsTask
  BY DEF IInv
<1> QED
  BY Invariance, <1>1, PTL

\* ThreadPool.hpp:104 and ThreadPool.cpp:24: one notification a push, given
\* after the unlock, is enough: while a worker sleeps there are no more tasks
\* in the queue than workers awake and threads about to notify.
THEOREM WakesWorkers == Spec => []TasksWakeWorkers
<1>1. Init => BlockInv /\ TasksWakeWorkers
  <2> SUFFICES ASSUME Init PROVE BlockInv /\ TasksWakeWorkers
    OBVIOUS
  <2>1. waiting = {} /\ tasks = << >>
    BY DEF Init
  <2> QED
    BY <2>1 DEF BlockInv, TasksWakeWorkers
<1>2. /\ IInv /\ BlockInv /\ TasksWakeWorkers /\ [Next]_vars
      => BlockInv' /\ TasksWakeWorkers'
  BY StepBlock, StepWake
<1> QED
  BY Invariance, <1>1, <1>2, PTL DEF Spec

\* ThreadPool.cpp:66-79: when the destructor has returned every accepted task
\* is finished and no thread uses the members that are going away.
THEOREM Drained == Spec => []DrainedWhenDestroyed
<1>1. IInv => DrainedWhenDestroyed
  <2> SUFFICES ASSUME IInv, pc[Owner] = "destroyed"
               PROVE  tasks = << >> /\ finished = 1 .. accepted
                      /\ waiting = {} /\ mutex = Nobody
    BY DEF DrainedWhenDestroyed
  <2>1. \A w \in Workers : pc[w] = "exited"
    BY DEF IInv, DestroyedInv
  <2>2. tasks = << >>
    BY <2>1, PoolAssumption DEF IInv, ExitInv
  <2>3. \A w \in Workers : running[w] = Nobody
    BY <2>1 DEF IInv, RunInv
  <2>4. finished = 1 .. accepted
    <3>1. Running = {} /\ finished = 1 .. popped
      BY <2>3 DEF IInv, EachTaskOnce, Running
    <3>2. accepted = popped
      BY <2>2 DEF IInv, TypeOK, accepted
    <3> QED
      BY <3>1, <3>2
  <2>5. waiting = {}
    BY <2>1 DEF IInv, TypeOK, SleepInv
  <2>6. mutex = Nobody
    BY <2>1 DEF IInv, TypeOK, LockInv, Threads
  <2> QED
    BY <2>2, <2>4, <2>5, <2>6
<1> QED
  BY Invariance, <1>1, PTL
=============================================================================
