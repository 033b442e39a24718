----------------------------- MODULE ShardWalks -----------------------------
(***************************************************************************)
(* size, clear and get_snapshot against writers.  None of them holds more  *)
(* than one shard's lock, so what they see is not the store at any one     *)
(* instant.  Two histories say what they can be held to nevertheless: what *)
(* was there all the time since a walk was called, and what was there at   *)
(* some time since.                                                        *)
(***************************************************************************)
EXTENDS KeyValueStore

VARIABLES
  always,   \* <<map, key>> present in every state since the walk was called
  ever      \* <<map, key, contents>> present in some state since

walkVars == <<vars, always, ever>>

Walking(t) == req[t] # None /\ req[t].op \in {"size", "clear", "snapshot"}

\* What a walk at time `at' finds in a store.
Contents(st, at) ==
       {<<"str",  k, st.str[k].value>> : k \in {j \in Keys : Live(st.str[j], at)}}
  \cup {<<"hash", k, st.hash[k]>> : k \in {j \in Keys : st.hash[j] # None}}
  \cup {<<"list", k, st.list[k]>> : k \in {j \in Keys : st.list[j] # None}}

Names(contents) == {<<c[1], c[2]>> : c \in contents}

Found(t) == IF Walking(t) THEN Contents(store, now[t]) ELSE {}

WalkInit ==
  /\ Init
  /\ always = [t \in Threads |-> {}]
  /\ ever   = [t \in Threads |-> {}]

Record ==
  /\ always' = [t \in Threads |->
       IF Walking(t) THEN always[t] \cap Names(Found(t)') ELSE Names(Found(t)')]
  /\ ever' = [t \in Threads |->
       IF Walking(t)' THEN ever[t] \cup Found(t)' ELSE {}]

WalkNext == Next /\ Record

WalkSpec == WalkInit /\ [][WalkNext]_walkVars

-----------------------------------------------------------------------------
(* Correctness                                                             *)

\* DBSIZE (and the janitor's test against max_keys) sums shards read at
\* different times.  The sum still counts every key that stayed and none
\* that was never there, whatever writers did to shards already visited.
SizeBetween ==
  \A t \in Threads : In(t, "size", "done") =>
    /\ Cardinality(always[t]) <= ret[t]
    /\ ret[t] <= Cardinality(Names(ever[t]))

\* FLUSHDB empties shards one by one while writers refill them.  When it
\* returns nothing that was there when it was called has survived it.
ClearSparesNothing ==
  \A t \in Threads : In(t, "clear", "done") => always[t] = {}

\* BGREWRITEAOF writes a snapshot taken shard by shard.  It has every key
\* that stayed, and nothing but contents its key had while it was taken.
SnapshotIsPlausible ==
  \A t \in Threads : In(t, "snapshot", "done") =>
    always[t] \subseteq Names(ret[t]) /\ ret[t] \subseteq ever[t]
=============================================================================
