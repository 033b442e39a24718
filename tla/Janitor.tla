------------------------------ MODULE Janitor ------------------------------
(***************************************************************************)
(* The store as the server runs it: the reactor thread, which executes the *)
(* clients' commands one after another, and the janitor thread of main(),  *)
(* which every 100 ms purges expired keys and evicts the least recently    *)
(* used ones when the store has grown beyond max_keys.                     *)
(*                                                                         *)
(* The threads inside the store are those of KeyValueStore.  The janitor's *)
(* lambda is a loop around its calls; main() joins it after start() of the *)
(* server has returned.                                                    *)
(***************************************************************************)
EXTENDS KeyValueStore

CONSTANTS
  JanitorThread,   \* the one thread that is not a client of the store
  PurgeLimit,      \* 20 in the code
  MaxKeys          \* config.max_keys

ASSUME JanitorAssumption ==
  JanitorThread \in Threads /\ PurgeLimit \in Limits /\ MaxKeys \in Nat

Clients == Threads \ {JanitorThread}

VARIABLES
  running,   \* g_running
  main,      \* main(): serving (in server.start()), joining, closed
  jpc,       \* where the janitor's loop is
  over       \* current_size - max_keys, when the janitor found it positive

loopVars == <<running, main, jpc, over>>
allVars  == <<vars, running, main, jpc, over>>

JanitorInit ==
  /\ Init
  /\ running = TRUE
  /\ main = "serving"
  /\ jpc = "test"
  /\ over = 0

-----------------------------------------------------------------------------
(* The clients' commands, and time                                         *)

Serve(t) ==
  /\ \/ main = "serving" /\ \E r \in Requests : Call(t, r)
     \/ Section(t)
     \/ Return(t)
  /\ UNCHANGED loopVars

Wait == Tick /\ UNCHANGED loopVars

-----------------------------------------------------------------------------
(* The janitor: while (g_running) { sleep; purge; size; maybe evict }      *)

JTest ==
  /\ jpc = "test"
  /\ jpc' = IF running THEN "sleep" ELSE "exited"
  /\ UNCHANGED <<vars, running, main, over>>

\* The janitor calls r, and is at `at' until the call returns.
JCall(r, at) ==
  /\ Call(JanitorThread, r)
  /\ jpc' = at
  /\ UNCHANGED <<running, main, over>>

JPurge == jpc = "sleep" /\ JCall([op |-> "purge", limit |-> PurgeLimit], "purge")

JPurged ==
  /\ jpc = "purge"
  /\ Return(JanitorThread)
  /\ jpc' = "purged"
  /\ UNCHANGED <<running, main, over>>

JSize == jpc = "purged" /\ JCall([op |-> "size"], "size")

\* Mutants: the unsigned difference is taken without the test, or is one short.
JSizedUntested ==
  /\ jpc = "size"
  /\ Return(JanitorThread)
  /\ jpc' = "over" /\ over' = ret[JanitorThread] - MaxKeys
  /\ UNCHANGED <<running, main>>

JSizedOneShort ==
  /\ jpc = "size"
  /\ Return(JanitorThread)
  /\ IF ret[JanitorThread] > MaxKeys
     THEN jpc' = "over" /\ over' = ret[JanitorThread] - MaxKeys - 1
     ELSE jpc' = "test" /\ over' = 0
  /\ UNCHANGED <<running, main>>

JSized ==
  /\ jpc = "size"
  /\ Return(JanitorThread)
  /\ IF ret[JanitorThread] > MaxKeys
     THEN jpc' = "over" /\ over' = ret[JanitorThread] - MaxKeys
     ELSE jpc' = "test" /\ over' = 0
  /\ UNCHANGED <<running, main>>

JEvict == jpc = "over" /\ JCall([op |-> "evict", count |-> over], "evict")

JEvicted ==
  /\ jpc = "evict"
  /\ Return(JanitorThread)
  /\ jpc' = "test"
  /\ over' = 0
  /\ UNCHANGED <<running, main>>

JStep ==
  \/ JTest \/ JPurge \/ JPurged \/ JSize \/ JSized \/ JEvict \/ JEvicted
  \/ Section(JanitorThread) /\ UNCHANGED loopVars

-----------------------------------------------------------------------------
(* Shutdown                                                                *)

\* The signal handler: the janitor is told to stop while commands still run.
Signal ==
  /\ main = "serving"
  /\ running' = FALSE
  /\ UNCHANGED <<vars, main, jpc, over>>

\* Mutant: main() relies on the signal handler to stop the janitor.
StartReturnsSilently ==
  /\ main = "serving"
  /\ \A t \in Clients : pc[t] = "idle"
  /\ main' = "joining"
  /\ UNCHANGED <<vars, running, jpc, over>>

\* server.start() returns, on a signal or an error of poll.
StartReturns ==
  /\ main = "serving"
  /\ \A t \in Clients : pc[t] = "idle"
  /\ main' = "joining"
  /\ running' = FALSE
  /\ UNCHANGED <<vars, jpc, over>>

\* Mutant: the janitor is detached.
DetachJanitor ==
  /\ main = "joining"
  /\ main' = "closed"
  /\ UNCHANGED <<vars, running, jpc, over>>

JoinJanitor ==
  /\ main = "joining"
  /\ jpc = "exited"
  /\ main' = "closed"
  /\ UNCHANGED <<vars, running, jpc, over>>

-----------------------------------------------------------------------------
JanitorNext ==
  \/ Wait
  \/ \E t \in Clients : Serve(t)
  \/ JStep
  \/ Signal \/ StartReturns \/ JoinJanitor

JanitorSpec == JanitorInit /\ [][JanitorNext]_allVars

\* The janitor's sleeps and critical sections end, main() waits for it in
\* join(), and a command that the reactor has begun is finished.  Nothing
\* obliges clients to send commands, time to pass or a signal to come.
Fairness ==
  /\ WF_allVars(JStep)
  /\ WF_allVars(JoinJanitor)
  /\ \A t \in Clients : WF_allVars((Section(t) \/ Return(t)) /\ UNCHANGED loopVars)

FairJanitorSpec == JanitorSpec /\ Fairness

-----------------------------------------------------------------------------
(* Correctness                                                             *)

\* The variables have their types.  In particular the excess over max_keys,
\* an unsigned difference in the code, is never negative, whatever clients
\* did since the size was taken.
JanitorTypeOK ==
  /\ TypeOK
  /\ running \in BOOLEAN
  /\ main \in {"serving", "joining", "closed"}
  /\ jpc \in {"test", "sleep", "purge", "purged", "size", "over", "evict", "exited"}
  /\ over \in Nat

\* main() closes the AOF and destroys the store only when no thread is inside
\* the store, and no thread enters it afterwards.
NobodyInsideWhenClosed ==
  main = "closed" => \A t \in Threads : pc[t] = "idle"

\* What DBSIZE would count in one instant.
KeyCount ==
    Cardinality({k \in Keys : Live(store.str[k], clock)})
  + Cardinality({k \in Keys : store.hash[k] # None})
  + Cardinality({k \in Keys : store.list[k] # None})

\* main() never waits for the janitor forever.
ShutdownCompletes == main = "joining" ~> main = "closed"

\* A shard with more strings than one purge looks at.
Crowded(s) == Cardinality({k \in KeysOf(s) : store.str[k] # None}) > PurgeLimit

\* Active expiration: an entry whose TTL has run out leaves the memory, also
\* when no client asks for it, for as long as the janitor runs and its shard
\* has no more strings than one purge looks at.  In a crowded shard the purge
\* may look at the same live strings every time and never get to it.
ExpiredIsPurged ==
  \A k \in Keys :
    Expired(store.str[k], clock) /\ ~Crowded(ShardOf[k]) ~>
      ~running \/ ~Expired(store.str[k], clock) \/ Crowded(ShardOf[k])

\* The limit: once the clients rest, the janitor brings the store down to
\* max_keys.
LimitIsRestored ==
  <>[](running /\ \A t \in Clients : pc[t] = "idle") => []<>(KeyCount <= MaxKeys)
=============================================================================
