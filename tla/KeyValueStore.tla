--------------------------- MODULE KeyValueStore ---------------------------
(***************************************************************************)
(* The sharded store as its callers use it: any number of threads inside   *)
(* its methods at once.                                                    *)
(*                                                                         *)
(* Every access to a shard is made under that shard's shared_mutex and no  *)
(* method holds two of them, so a critical section is one step.  What the  *)
(* lock does not cover is kept apart: the clock is read before the lock is *)
(* taken, get and ttl give the shared lock up before they take the         *)
(* exclusive one, size, clear, purge_expired_keys, evict_lru_keys and       *)
(* get_snapshot visit the shards one at a time, and evict_lru_keys erases   *)
(* later, one by one, what it has sampled.                                  *)
(*                                                                         *)
(* A call is three or more steps: Call (the arguments are bound and the    *)
(* clock is read), the critical sections, and Return.                      *)
(***************************************************************************)
EXTENDS StoreOps

CONSTANTS
  Threads,     \* the threads that call the store
  NumShards,   \* 64 in the code
  ShardOf,     \* get_shard_index: hash of the key modulo NumShards
  Ops,         \* the methods the threads call
  Inputs,      \* the values they store
  TTLs,        \* the TTLs they give, in seconds
  Deltas,      \* the deltas they give incr_by
  Indices,     \* the indices they give lrange
  Limits,      \* the max_keys_per_shard they give purge_expired_keys
  Counts,      \* the keys_to_evict they give evict_lru_keys
  SampleSize,  \* 10 in the code: strings sampled in each shard
  ClockBound,  \* bound: the clock stops here
  ListBound    \* bound: no push is called on a list of this length

ASSUME ShardAssumption ==
  /\ NumShards \in Nat \ {0}
  /\ ShardOf \in [Keys -> 0 .. NumShards - 1]

ASSUME RequestAssumption ==
  /\ Inputs \subseteq Values /\ Deltas \subseteq Numbers
  /\ TTLs \subseteq Int /\ Indices \subseteq Int
  /\ Limits \subseteq Nat /\ Counts \subseteq Nat /\ SampleSize \in Nat \ {0}
  /\ ClockBound \in Nat /\ ListBound \in Nat

KeyReads == {"get", "exists", "ttl", "hlen", "hgetall", "llen"}
KeyOps   == KeyReads \cup {"del", "lpop", "rpop"}
Walks    == {"size", "clear", "purge", "evict", "snapshot"}

\* A method and its arguments.
AllRequests ==
       [op : {"set"}, key : Keys, val : Inputs, ttl : TTLs \cup {None}]
  \cup [op : KeyOps, key : Keys]
  \cup [op : {"expire"}, key : Keys, ttl : TTLs]
  \cup [op : {"incr_by"}, key : Keys, delta : Deltas]
  \cup [op : {"hset"}, key : Keys, field : Fields, val : Inputs]
  \cup [op : {"hget", "hdel", "hexists"}, key : Keys, field : Fields]
  \cup [op : {"lpush", "rpush"}, key : Keys, val : Inputs]
  \cup [op : {"lrange"}, key : Keys, start : Indices, stop : Indices]
  \cup [op : {"size", "clear", "snapshot"}]
  \cup [op : {"purge"}, limit : Limits]
  \cup [op : {"evict"}, count : Counts]

ASSUME IdleAssumption == None \notin AllRequests

Requests == {r \in AllRequests : r.op \in Ops}

VARIABLES
  store,   \* the three maps of every shard
  clock,   \* steady_clock
  req,     \* what each thread is executing; None outside the store
  now,     \* the time a call has read
  pc,      \* where each thread is in its call
  shard,   \* the shard a walk visits next
  ret      \* the reply, or the part of it a call has found so far

vars == <<store, clock, req, now, pc, shard, ret>>

Init ==
  /\ store = EmptyStore
  /\ clock = 0
  /\ req   = [t \in Threads |-> None]
  /\ now   = [t \in Threads |-> 0]
  /\ pc    = [t \in Threads |-> "idle"]
  /\ shard = [t \in Threads |-> 0]
  /\ ret   = [t \in Threads |-> None]

-----------------------------------------------------------------------------
(* Calls                                                                   *)

Tick ==
  /\ clock < ClockBound
  /\ clock' = clock + 1
  /\ UNCHANGED <<store, req, now, pc, shard, ret>>

WithinListBound(r) ==
  r.op \in {"lpush", "rpush"} => Len(ListOf(store, r.key)) < ListBound

\* What a method has gathered before its first critical section.
NothingYet(r) ==
  CASE r.op \in {"size", "purge"} -> 0
    [] r.op = "snapshot" -> {}
    [] r.op = "evict" -> [sample |-> {}, victims |-> << >>, evicted |-> 0]
    [] OTHER -> None

Call(t, r) ==
  /\ pc[t] = "idle"
  /\ WithinListBound(r)
  /\ req' = [req EXCEPT ![t] = r]
  /\ now' = [now EXCEPT ![t] = clock]
  /\ pc'  = [pc EXCEPT ![t] = "run"]
  /\ ret' = [ret EXCEPT ![t] = NothingYet(r)]
  /\ UNCHANGED <<store, clock, shard>>

Return(t) ==
  /\ pc[t] = "done"
  /\ req'   = [req EXCEPT ![t] = None]
  /\ now'   = [now EXCEPT ![t] = 0]
  /\ pc'    = [pc EXCEPT ![t] = "idle"]
  /\ shard' = [shard EXCEPT ![t] = 0]
  /\ ret'   = [ret EXCEPT ![t] = None]
  /\ UNCHANGED <<store, clock>>

\* Thread t is at `at' in the method `op'.
In(t, op, at) == pc[t] = at /\ req[t].op = op

\* The rest of the state when a section ends, and the end of the last one.
Frame == UNCHANGED <<clock, req, now>>

Finish(t, reply) ==
  /\ pc'  = [pc EXCEPT ![t] = "done"]
  /\ ret' = [ret EXCEPT ![t] = reply]
  /\ UNCHANGED shard
  /\ Frame

GoOn(t, at, found) ==
  /\ pc'  = [pc EXCEPT ![t] = at]
  /\ ret' = [ret EXCEPT ![t] = found]
  /\ UNCHANGED <<store, shard>>
  /\ Frame

-----------------------------------------------------------------------------
(* Strings and counters                                                    *)

\* Mutant: set overwrites the value and leaves the TTL of the old entry.
SetKeepingTtl(t) ==
  LET r   == req[t]
      old == store.str[r.key]
      new == AfterSet(store, r.key, r.val, r.ttl, now[t])
  IN /\ In(t, "set", "run")
     /\ store' = IF old = None THEN new
                 ELSE [new EXCEPT !.str[r.key].expires_at = old.expires_at]
     /\ Finish(t, None)

Set(t) ==
  /\ In(t, "set", "run")
  /\ store' = AfterSet(store, req[t].key, req[t].val, req[t].ttl, now[t])
  /\ Finish(t, None)

\* get, under the shared lock.  The value of a live entry is copied; the
\* lock is released before the exclusive one is taken.
GetLookup(t) ==
  LET e == store.str[req[t].key] IN
  /\ In(t, "get", "run")
  /\ \/ e = None /\ Finish(t, None) /\ UNCHANGED store
     \/ Live(e, now[t]) /\ GoOn(t, "touch", e.value)
     \/ Expired(e, now[t]) /\ GoOn(t, "reap", None)

\* Mutant: get writes back the entry it copied under the shared lock.
GetTouchWritingBack(t) ==
  /\ In(t, "get", "touch")
  /\ store' = AfterSet(store, req[t].key, ret[t], None, now[t])
  /\ Finish(t, ret[t])

\* get, under the exclusive lock: the access time of the entry found now.
GetTouch(t) ==
  /\ In(t, "get", "touch")
  /\ store' = AfterTouch(store, req[t].key, now[t])
  /\ Finish(t, ret[t])

\* Mutant: get erases without a second look, as ttl does.
GetReapBlindly(t) ==
  /\ In(t, "get", "reap")
  /\ store' = AfterErase(store, req[t].key)
  /\ Finish(t, None)

\* get, under the exclusive lock: the entry is looked up again, erased if it
\* is (still) expired and returned if it is not.
GetReap(t) ==
  LET k == req[t].key IN
  /\ In(t, "get", "reap")
  /\ store' = IF Expired(store.str[k], now[t]) THEN AfterErase(store, k)
              ELSE store
  /\ Finish(t, GetReply(store, k, now[t]))

Del(t) ==
  /\ In(t, "del", "run")
  /\ store' = AfterDel(store, req[t].key)
  /\ Finish(t, DelReply(store, req[t].key))

Exists(t) ==
  /\ In(t, "exists", "run")
  /\ Finish(t, ExistsReply(store, req[t].key, now[t]))
  /\ UNCHANGED store

Expire(t) ==
  /\ In(t, "expire", "run")
  /\ store' = AfterExpire(store, req[t].key, req[t].ttl, now[t])
  /\ Finish(t, ExpireReply(store, req[t].key, now[t]))

\* ttl, under the shared lock.
TtlLookup(t) ==
  LET k == req[t].key IN
  /\ In(t, "ttl", "run")
  /\ IF Expired(store.str[k], now[t])
     THEN GoOn(t, "reap", None)
     ELSE /\ Finish(t, TtlReply(store, k, now[t]))
          /\ UNCHANGED store

\* ttl, under the exclusive lock: the key is erased without a second look.
TtlReap(t) ==
  /\ In(t, "ttl", "reap")
  /\ store' = AfterErase(store, req[t].key)
  /\ Finish(t, -2)

Incr(t) ==
  LET r == req[t] IN
  /\ In(t, "incr_by", "run")
  /\ store' = AfterIncr(store, r.key, r.delta, now[t])
  /\ Finish(t, IncrReply(store, r.key, r.delta, now[t]))

-----------------------------------------------------------------------------
(* Hashes                                                                  *)

HSet(t) ==
  LET r == req[t] IN
  /\ In(t, "hset", "run")
  /\ store' = AfterHSet(store, r.key, r.field, r.val)
  /\ Finish(t, HGetReply(store, r.key, r.field) = None)

HDel(t) ==
  LET r == req[t] IN
  /\ In(t, "hdel", "run")
  /\ store' = AfterHDel(store, r.key, r.field)
  /\ Finish(t, HGetReply(store, r.key, r.field) # None)

\* hget, hexists (which calls hget), hlen and hgetall: one shared section.
HashRead(t) ==
  LET r == req[t] IN
  /\ \/ /\ In(t, "hget", "run")
        /\ Finish(t, HGetReply(store, r.key, r.field))
     \/ /\ In(t, "hexists", "run")
        /\ Finish(t, HGetReply(store, r.key, r.field) # None)
     \/ In(t, "hlen", "run")    /\ Finish(t, HLenReply(store, r.key))
     \/ In(t, "hgetall", "run") /\ Finish(t, HGetAllReply(store, r.key))
  /\ UNCHANGED store

-----------------------------------------------------------------------------
(* Lists                                                                   *)

LPush(t) ==
  /\ In(t, "lpush", "run")
  /\ store' = AfterLPush(store, req[t].key, req[t].val)
  /\ Finish(t, Len(ListOf(store', req[t].key)))

RPush(t) ==
  /\ In(t, "rpush", "run")
  /\ store' = AfterRPush(store, req[t].key, req[t].val)
  /\ Finish(t, Len(ListOf(store', req[t].key)))

LPop(t) ==
  /\ In(t, "lpop", "run")
  /\ store' = AfterLPop(store, req[t].key)
  /\ Finish(t, LPopReply(store, req[t].key))

RPop(t) ==
  /\ In(t, "rpop", "run")
  /\ store' = AfterRPop(store, req[t].key)
  /\ Finish(t, RPopReply(store, req[t].key))

\* llen and lrange: one shared section.
ListRead(t) ==
  LET r == req[t] IN
  /\ \/ In(t, "llen", "run") /\ Finish(t, Len(ListOf(store, r.key)))
     \/ /\ In(t, "lrange", "run")
        /\ Finish(t, LRange(ListOf(store, r.key), r.start, r.stop))
  /\ UNCHANGED store

-----------------------------------------------------------------------------
(* Walks over the shards                                                   *)

KeysOf(s) == {k \in Keys : ShardOf[k] = s}

\* Mutant: size counts expired strings.
ShardCountWithExpired(st, s, at) ==
    Cardinality({k \in KeysOf(s) : st.str[k] # None})
  + Cardinality({k \in KeysOf(s) : st.hash[k] # None})
  + Cardinality({k \in KeysOf(s) : st.list[k] # None})

\* What size counts in a shard: live strings, and every hash and list.
ShardCount(st, s, at) ==
    Cardinality({k \in KeysOf(s) : Live(st.str[k], at)})
  + Cardinality({k \in KeysOf(s) : st.hash[k] # None})
  + Cardinality({k \in KeysOf(s) : st.list[k] # None})

\* Mutant: clear forgets the hashes.
AfterClearWithoutHashes(st, s) ==
  LET Kept(m) == [k \in Keys |-> IF k \in KeysOf(s) THEN None ELSE m[k]]
  IN [st EXCEPT !.str = Kept(@), !.list = Kept(@)]

AfterClear(st, s) ==
  LET Kept(m) == [k \in Keys |-> IF k \in KeysOf(s) THEN None ELSE m[k]]
  IN [str |-> Kept(st.str), hash |-> Kept(st.hash), list |-> Kept(st.list)]

\* The walk goes to the next shard, or ends after the last one.
Walk(t, found) ==
  /\ shard' = [shard EXCEPT ![t] = shard[t] + 1]
  /\ pc'    = [pc EXCEPT ![t] = IF shard[t] + 1 = NumShards THEN "done" ELSE "run"]
  /\ ret'   = [ret EXCEPT ![t] = found]
  /\ Frame

SizeShard(t) ==
  /\ In(t, "size", "run")
  /\ Walk(t, ret[t] + ShardCount(store, shard[t], now[t]))
  /\ UNCHANGED store

ClearShard(t) ==
  /\ In(t, "clear", "run")
  /\ store' = AfterClear(store, shard[t])
  /\ Walk(t, None)

\* Mutant: the entry at the limit is not looked at any more.
WindowsOneShort(s, limit) ==
  LET present == {k \in KeysOf(s) : store.str[k] # None}
  IN {w \in SUBSET present :
        Cardinality(w) = IF Cardinality(present) < limit
                         THEN Cardinality(present) ELSE limit - 1}

\* The first `limit' entries of the string map of a shard, in the order of
\* the unordered_map: any that many.
Windows(s, limit) ==
  LET present == {k \in KeysOf(s) : store.str[k] # None}
  IN {w \in SUBSET present :
        Cardinality(w) = IF Cardinality(present) < limit
                         THEN Cardinality(present) ELSE limit}

PurgeShard(t) ==
  /\ In(t, "purge", "run")
  /\ \E w \in Windows(shard[t], req[t].limit) :
       LET dead == {k \in w : Expired(store.str[k], now[t])} IN
       /\ store' = [store EXCEPT !.str =
                      [k \in Keys |-> IF k \in dead THEN None ELSE @[k]]]
       /\ Walk(t, ret[t] + Cardinality(dead))

\* Mutant: the snapshot takes expired strings too.
SnapshotShardWithExpired(t) ==
  LET ks == KeysOf(shard[t]) IN
  /\ In(t, "snapshot", "run")
  /\ Walk(t, ret[t]
       \cup {<<"str", k, store.str[k].value>> : k \in {j \in ks : store.str[j] # None}}
       \cup {<<"hash", k, store.hash[k]>> : k \in {j \in ks : store.hash[j] # None}}
       \cup {<<"list", k, store.list[k]>> : k \in {j \in ks : store.list[j] # None}})
  /\ UNCHANGED store

SnapshotShard(t) ==
  LET ks == KeysOf(shard[t]) IN
  /\ In(t, "snapshot", "run")
  /\ Walk(t, ret[t]
       \cup {<<"str", k, store.str[k].value>> : k \in {j \in ks : Live(store.str[j], now[t])}}
       \cup {<<"hash", k, store.hash[k]>> : k \in {j \in ks : store.hash[j] # None}}
       \cup {<<"list", k, store.list[k]>> : k \in {j \in ks : store.list[j] # None}})
  /\ UNCHANGED store

-----------------------------------------------------------------------------
(* Eviction                                                                *)

\* evict_lru_keys samples the shards under their shared locks.  The walk
\* ends in the state in which the sample is sorted and cut at the count.
SampleShard(t) ==
  /\ In(t, "evict", "run")
  /\ UNCHANGED store
  /\ IF req[t].count = 0
     THEN Finish(t, ret[t])
     ELSE \E w \in Windows(shard[t], SampleSize) :
            /\ shard' = [shard EXCEPT ![t] = shard[t] + 1]
            /\ ret'   = [ret EXCEPT ![t].sample =
                           @ \cup {<<k, store.str[k].last_accessed>> : k \in w}]
            /\ pc'    = [pc EXCEPT ![t] =
                           IF shard[t] + 1 = NumShards THEN "sort" ELSE "run"]
            /\ Frame

\* The sample in an order the sort may leave it in, cut at the count.
Sort(t) ==
  LET sample == ret[t].sample
      target == IF req[t].count < Cardinality(sample)
                THEN req[t].count ELSE Cardinality(sample)
  IN /\ In(t, "evict", "sort")
     /\ \E order \in [1 .. target -> sample] :
          /\ \A i, j \in 1 .. target :
               i < j => order[i] # order[j] /\ order[i][2] <= order[j][2]
          /\ \A c \in sample, i \in 1 .. target :
               (\A j \in 1 .. target : order[j] # c) => order[i][2] <= c[2]
          /\ ret' = [ret EXCEPT ![t] =
                [sample |-> {}, victims |-> [i \in 1 .. target |-> order[i][1]],
                 evicted |-> 0]]
     /\ pc' = [pc EXCEPT ![t] = "evict"]
     /\ UNCHANGED <<store, shard>>
     /\ Frame

\* The next victim is erased under its shard's exclusive lock, if the key is
\* still there.
EvictNext(t) ==
  LET victims == ret[t].victims IN
  /\ In(t, "evict", "evict")
  /\ IF victims = << >>
     THEN Finish(t, ret[t]) /\ UNCHANGED store
     ELSE /\ store' = AfterErase(store, Head(victims))
          /\ ret' = [ret EXCEPT ![t].victims = Tail(victims),
                                ![t].evicted =
                      IF store.str[Head(victims)] = None THEN @ ELSE @ + 1]
          /\ UNCHANGED <<pc, shard>>
          /\ Frame

-----------------------------------------------------------------------------
Section(t) ==
  \/ Set(t) \/ GetLookup(t) \/ GetTouch(t) \/ GetReap(t)
  \/ Del(t) \/ Exists(t) \/ Expire(t) \/ TtlLookup(t) \/ TtlReap(t) \/ Incr(t)
  \/ HSet(t) \/ HDel(t) \/ HashRead(t)
  \/ LPush(t) \/ RPush(t) \/ LPop(t) \/ RPop(t) \/ ListRead(t)
  \/ SizeShard(t) \/ ClearShard(t) \/ PurgeShard(t) \/ SnapshotShard(t)
  \/ SampleShard(t) \/ Sort(t) \/ EvictNext(t)

Next ==
  \/ Tick
  \/ \E t \in Threads :
       \/ \E r \in Requests : Call(t, r)
       \/ Section(t)
       \/ Return(t)

Spec == Init /\ [][Next]_vars

-----------------------------------------------------------------------------
(* Correctness                                                             *)

\* The maps hold entries of their types, and the calls in progress are
\* those a thread can be making.
TypeOK ==
  /\ store \in Stores
  /\ clock \in 0 .. ClockBound
  /\ req   \in [Threads -> AllRequests \cup {None}]
  /\ now   \in [Threads -> 0 .. ClockBound]
  /\ pc    \in [Threads -> {"idle", "run", "touch", "reap", "sort", "evict", "done"}]
  /\ shard \in [Threads -> 0 .. NumShards]

\* hash_map and list_map never keep a hash without fields or a list without
\* elements: exists, ttl and size take the presence of the key in the map
\* for the existence of the key, so one left behind by hdel, lpop or rpop
\* would be a key that exists and has nothing in it.
NoEmptyContainers ==
  \A k \in Keys : store.hash[k] # NoFields /\ store.list[k] # << >>

\* What a client can tell about a key: the value and deadline of a string
\* whose TTL has not run out, and the hash and the list.
Visible(st, k, at) ==
  [str  |-> IF Live(st.str[k], at)
            THEN <<st.str[k].value, st.str[k].expires_at>> ELSE None,
   hash |-> st.hash[k],
   list |-> st.list[k]]

Queries == KeyReads \cup {"hget", "hexists", "lrange", "size", "purge", "snapshot"}

Moves(t) == <<pc[t], shard[t]>>' # <<pc[t], shard[t]>>

\* A method that only asks (get with its access-time update and its passive
\* cleanup, exists, ttl, the hash and list reads, size, the purge and the
\* snapshot) changes nothing a client can see, whatever other threads did to
\* the key between the two critical sections of get or ttl, or since the
\* purge has read the clock.
QueriesInvisible ==
  [][\A t \in Threads : Moves(t) /\ req[t] # None /\ req[t].op \in Queries =>
       \A k \in Keys : Visible(store, k, clock)' = Visible(store, k, clock)]_vars

\* Refinement: get on an expired entry has not taken effect yet, ttl has.
\* The methods that visit all shards are not part of the abstract store.
OneKey(t) == req[t] # None /\ req[t].op \notin Walks

Phase(t) ==
  CASE ~OneKey(t) -> "idle"
    [] OneKey(t) /\ pc[t] = "run" -> "pending"
    [] OneKey(t) /\ pc[t] = "reap" /\ req[t].op = "get" -> "pending"
    [] OTHER -> "applied"

Asked(t)    == IF OneKey(t) THEN req[t] ELSE None
CalledAt(t) == IF OneKey(t) THEN now[t] ELSE 0

Replied(t) ==
  CASE Phase(t) # "applied" -> None
    [] Phase(t) = "applied" /\ pc[t] = "reap" -> -2
    [] OTHER -> ret[t]

Atomic == INSTANCE AtomicStore WITH
  Requests <- {r \in Requests : r.op \notin Walks},
  data  <- Timeless(store),
  phase <- [t \in Threads |-> Phase(t)],
  req   <- [t \in Threads |-> Asked(t)],
  since <- [t \in Threads |-> CalledAt(t)],
  reply <- [t \in Threads |-> Replied(t)],
  evicting <- \E t \in Threads : req[t] # None /\ req[t].op = "evict"

\* The methods on one key are linearizable: get takes effect when it copies
\* the value of a live entry, or when it looks a second time; ttl when it
\* finds the entry expired; every other method in its only section.  A
\* concurrent purge shows as TTLs running out, an eviction as strings that go
\* while evict_lru_keys runs.
Linearizable == Atomic!Spec
=============================================================================
