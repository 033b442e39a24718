---------------------------- MODULE AtomicStore ----------------------------
(***************************************************************************)
(* What the store promises a caller of one key: a method takes effect in   *)
(* one instant between its call and its return, as the sequential code of  *)
(* StoreOps says, with a clock reading made in between.  An entry whose    *)
(* TTL has run out may disappear at any time, any string may while keys    *)
(* are being evicted, and nothing else ever does.                          *)
(*                                                                         *)
(* The access times of entries are not part of the promise: they are 0     *)
(* here.  The methods that visit the shards one at a time (size, clear,    *)
(* the purge, the eviction, the snapshot) promise less and are left out.   *)
(***************************************************************************)
EXTENDS StoreOps

CONSTANTS Threads, Requests, ClockBound

VARIABLES
  data,    \* the store without access times
  clock,
  phase,   \* of each thread: idle, pending (not yet applied) or applied
  req,     \* the request of a thread that is not idle
  since,   \* when it was called
  reply,   \* its reply, once applied
  evicting \* whether somebody evicts keys: not for this module to say

vars == <<data, clock, phase, req, since, reply>>

\* What a request leaves in the store and what it replies at time `at'.
Effect(st, r, at) ==
  CASE r.op = "set"     -> AfterSet(st, r.key, r.val, r.ttl, at)
    [] r.op = "get"     -> IF Expired(st.str[r.key], at)
                           THEN AfterErase(st, r.key) ELSE st
    [] r.op = "del"     -> AfterDel(st, r.key)
    [] r.op = "expire"  -> AfterExpire(st, r.key, r.ttl, at)
    [] r.op = "incr_by" -> AfterIncr(st, r.key, r.delta, at)
    [] r.op = "hset"    -> AfterHSet(st, r.key, r.field, r.val)
    [] r.op = "hdel"    -> AfterHDel(st, r.key, r.field)
    [] r.op = "lpush"   -> AfterLPush(st, r.key, r.val)
    [] r.op = "rpush"   -> AfterRPush(st, r.key, r.val)
    [] r.op = "lpop"    -> AfterLPop(st, r.key)
    [] r.op = "rpop"    -> AfterRPop(st, r.key)
    [] OTHER            -> st

Answer(st, r, at) ==
  CASE r.op = "set"     -> None
    [] r.op = "get"     -> GetReply(st, r.key, at)
    [] r.op = "del"     -> DelReply(st, r.key)
    [] r.op = "exists"  -> ExistsReply(st, r.key, at)
    [] r.op = "ttl"     -> TtlReply(st, r.key, at)
    [] r.op = "expire"  -> ExpireReply(st, r.key, at)
    [] r.op = "incr_by" -> IncrReply(st, r.key, r.delta, at)
    [] r.op = "hset"    -> HGetReply(st, r.key, r.field) = None
    [] r.op \in {"hdel", "hexists"} -> HGetReply(st, r.key, r.field) # None
    [] r.op = "hget"    -> HGetReply(st, r.key, r.field)
    [] r.op = "hlen"    -> HLenReply(st, r.key)
    [] r.op = "hgetall" -> HGetAllReply(st, r.key)
    [] r.op = "lpush"   -> Len(ListOf(st, r.key)) + 1
    [] r.op = "rpush"   -> Len(ListOf(st, r.key)) + 1
    [] r.op = "lpop"    -> LPopReply(st, r.key)
    [] r.op = "rpop"    -> RPopReply(st, r.key)
    [] r.op = "llen"    -> Len(ListOf(st, r.key))
    [] r.op = "lrange"  -> LRange(ListOf(st, r.key), r.start, r.stop)

Init ==
  /\ data  = EmptyStore
  /\ clock = 0
  /\ phase = [t \in Threads |-> "idle"]
  /\ req   = [t \in Threads |-> None]
  /\ since = [t \in Threads |-> 0]
  /\ reply = [t \in Threads |-> None]

Tick ==
  /\ clock < ClockBound
  /\ clock' = clock + 1
  /\ UNCHANGED <<data, phase, req, since, reply>>

Invoke(t, r) ==
  /\ phase[t] = "idle"
  /\ phase' = [phase EXCEPT ![t] = "pending"]
  /\ req'   = [req EXCEPT ![t] = r]
  /\ since' = [since EXCEPT ![t] = clock]
  /\ UNCHANGED <<data, clock, reply>>

Apply(t) ==
  /\ phase[t] = "pending"
  /\ \E at \in since[t] .. clock :
       /\ data'  = Timeless(Effect(data, req[t], at))
       /\ reply' = [reply EXCEPT ![t] = Answer(data, req[t], at)]
  /\ phase' = [phase EXCEPT ![t] = "applied"]
  /\ UNCHANGED <<clock, req, since>>

Respond(t) ==
  /\ phase[t] = "applied"
  /\ phase' = [phase EXCEPT ![t] = "idle"]
  /\ req'   = [req EXCEPT ![t] = None]
  /\ since' = [since EXCEPT ![t] = 0]
  /\ reply' = [reply EXCEPT ![t] = None]
  /\ UNCHANGED <<data, clock>>

\* The TTLs of entries have run out and the entries go: several at once when
\* a purge finds them in one shard.
Lapse(ks) ==
  /\ \A k \in ks : Expired(data.str[k], clock)
  /\ data' = [data EXCEPT !.str = [k \in Keys |-> IF k \in ks THEN None ELSE @[k]]]
  /\ UNCHANGED <<clock, phase, req, since, reply>>

\* An eviction takes a string.
Evict(k) ==
  /\ evicting /\ data.str[k] # None
  /\ data' = AfterErase(data, k)
  /\ UNCHANGED <<clock, phase, req, since, reply>>

Next ==
  \/ Tick
  \/ \E t \in Threads :
       \/ \E r \in Requests : Invoke(t, r)
       \/ Apply(t)
       \/ Respond(t)
  \/ \E ks \in (SUBSET Keys) \ {{}} : Lapse(ks)
  \/ \E k \in Keys : Evict(k)

Spec == Init /\ [][Next]_vars
=============================================================================
