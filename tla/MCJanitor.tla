----------------------------- MODULE MCJanitor -----------------------------
(***************************************************************************)
(* Values for the constants of Janitor that a .cfg cannot write, and the   *)
(* clients cut into families, one of which is chosen at the start: all the *)
(* string commands on one key but INCRBY, which takes its locks as SET     *)
(* does; a few on two keys in two shards, which make the store grow beyond *)
(* its limit; or two keys in one shard, which then has more strings than a *)
(* purge looks at.                                                         *)
(***************************************************************************)
EXTENDS Janitor, MCKeyValueStore

CONSTANTS
  a,   \* the key in the first shard
  b    \* a key in the second shard, where the others are as well

VARIABLE family

ServerOps == (StringOps \ {"incr_by"}) \cup {"ttl"}
TwoShards == [k \in Keys |-> IF k = a THEN 0 ELSE 1]

\* A TTL of 0 is none for set.  The other families have two instants, which
\* is enough to have keys that expire in either order.
OfFamily(r) ==
  /\ r.op = "set" => r.ttl # 0
  /\ CASE family = "one"   -> r.op \in ServerOps /\ r.key = a
       [] family = "two"   -> r.op \in {"set", "get", "hset"} /\ r.key \in {a, b}
       [] family = "crowd" -> r.op = "set" /\ r.key # a

FamilyInit == JanitorInit /\ family \in {"one", "two", "crowd"}

FamilyNext ==
  /\ JanitorNext
  /\ \A t \in Clients : req'[t] # None => OfFamily(req'[t])
  /\ family # "one" => clock' <= 1
  /\ UNCHANGED family

FamilySpec == FamilyInit /\ [][FamilyNext]_<<allVars, family>> /\ Fairness
=============================================================================
