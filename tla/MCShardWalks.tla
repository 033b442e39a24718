---------------------------- MODULE MCShardWalks ----------------------------
(***************************************************************************)
(* Methods over two shards and what other threads do meanwhile, in two     *)
(* families, one of which is chosen at the start.                          *)
(*                                                                         *)
(* The walks: writers on two keys, of which one is in a shard already      *)
(* visited and one in a shard still to come, and hashes on the first.      *)
(*                                                                         *)
(* Evictions of one or two strings, and clients that get and set strings   *)
(* without a TTL: there are three in two shards, of which a sample takes   *)
(* one each, so that of the two in one shard it may miss one.              *)
(***************************************************************************)
EXTENDS ShardWalks, EvictionOrder, MCKeyValueStore

CONSTANTS a,      \* the key in the first shard
          third   \* the key that only the evictions have

VARIABLE family

TwoShards == [k \in Keys |-> IF k = a THEN 0 ELSE 1]

WalkOps     == {"set", "del", "hset", "size", "clear", "snapshot"}
EvictionOps == {"set", "get", "evict"}
AllOps      == WalkOps \cup EvictionOps

OfFamily(r) ==
  CASE family = "walks"     -> /\ r.op \in WalkOps
                               /\ r.op \in {"set", "del"} => r.key # third
                               /\ r.op = "hset" => r.key = a
    [] family = "evictions" -> r.op \in EvictionOps /\ (r.op = "set" => r.ttl = None)

FamilyInit == WalkInit /\ EvictionInit /\ family \in {"walks", "evictions"}

FamilyNext ==
  /\ \/ family = "walks" /\ WalkNext /\ UNCHANGED <<used, excused>>
     \/ family = "evictions" /\ EvictionNext /\ UNCHANGED <<always, ever>>
  /\ \A t \in Threads : req'[t] # None => OfFamily(req'[t])
  /\ UNCHANGED family

FamilySpec == FamilyInit /\ [][FamilyNext]_<<walkVars, used, excused, family>>

Symmetry == Permutations(Threads)
=============================================================================
