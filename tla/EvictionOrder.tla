---------------------------- MODULE EvictionOrder ---------------------------
(***************************************************************************)
(* evict_lru_keys against clients.  It samples the shards one by one,      *)
(* sorts, and erases one by one, while clients go on.  Two histories say   *)
(* what it can be held to: when each string was last used, and which       *)
(* strings an eviction may judge wrongly, because they were used while it  *)
(* ran or were too many in their shard to be all sampled.                  *)
(***************************************************************************)
EXTENDS KeyValueStore

VARIABLES
  used,     \* the time of the call that last wrote or found each string
  excused   \* the strings each eviction may judge wrongly

evictionVars == <<vars, used, excused>>

Evicting(t) == req[t] # None /\ req[t].op = "evict"

\* In this step the call of t writes the string of k, or get finds it.
Uses(t, k) ==
  /\ req[t] # None /\ req[t].op \in {"set", "get", "incr_by"} /\ req[t].key = k
  /\ pc[t] \in {"run", "touch"} /\ pc'[t] = "done"
  /\ req[t].op = "incr_by" => ret'[t].ok
  /\ store'.str[k] # None

\* In this step the eviction of t samples a shard with too many strings.
Overfull(t) ==
  /\ In(t, "evict", "run") /\ shard'[t] # shard[t]
  /\ Cardinality({k \in KeysOf(shard[t]) : store.str[k] # None}) > SampleSize

EvictionInit ==
  /\ Init
  /\ used    = [k \in Keys |-> 0]
  /\ excused = [t \in Threads |-> {}]

EvictionNext ==
  /\ Next
  /\ used' = [k \in Keys |-> IF \E t \in Threads : Uses(t, k)
                             THEN now[CHOOSE t \in Threads : Uses(t, k)] ELSE used[k]]
  /\ excused' = [t \in Threads |->
       IF ~Evicting(t)' THEN {}
       ELSE excused[t] \cup {k \in Keys : \E u \in Threads : Uses(u, k)}
                       \cup IF Overfull(t) THEN KeysOf(shard[t]) ELSE {}]

EvictionSpec == EvictionInit /\ [][EvictionNext]_evictionVars

-----------------------------------------------------------------------------
(* Correctness                                                             *)

\* README.md:90 and :229: the keys evicted are the least recently used.  A
\* string that nobody has used since the eviction was called is not erased
\* while one that was last used before it, and not since, stays.
EvictsLeastRecentlyUsed ==
  [][\A t \in Threads : EvictNext(t) =>
       \A k, j \in Keys \ excused[t] :
         store.str[k] # None /\ store'.str[k] = None /\ store'.str[j] # None
           => used[k] <= used[j]]_evictionVars
=============================================================================
