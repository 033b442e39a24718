-------------------------- MODULE MCKeyValueStore --------------------------
(* Values for the constants of KeyValueStore that a .cfg cannot write.     *)
EXTENDS KeyValueStore, MCStoreOps

OneShard == [k \in Keys |-> 0]

BothEnds   == {0, -1}

StringOps    == {"set", "get", "del", "exists", "expire", "incr_by"}
ContainerOps == {"del", "exists", "hset", "hget", "hdel", "hexists", "hlen",
                 "hgetall", "lpush", "rpush", "lpop", "rpop", "llen", "lrange"}
BothFamilies == StringOps \cup ContainerOps
=============================================================================
