------------------------ MODULE KeyValueStore_proofs ------------------------
(***************************************************************************)
(* Proofs about KeyValueStore, for every number of threads, shards, keys   *)
(* and values and whatever methods the threads call: the types; that no    *)
(* empty hash or list is kept; that without ttl the methods that only ask  *)
(* change nothing a client can see; and that without ttl and clear the     *)
(* methods on one key are linearizable, that is, implement AtomicStore.    *)
(*                                                                         *)
(* What makes the invariants inductive is CallInv: a walk stands at a      *)
(* shard that exists, and the time a call has read is not later than the   *)
(* clock, so that an entry expired for the call is expired for everybody.  *)
(* The steps of ttl need that what it has found under the shared lock      *)
(* still stands (VerdictStands): trivially so where nobody calls it, and   *)
(* with one client (Janitor_proofs).                                       *)
(***************************************************************************)
EXTENDS KeyValueStore, StoreOps_proofs

\* There is one reply for each thread, of whatever type.
RetInv == ret = [t \in Threads |-> ret[t]]

CallInv == \A t \in Threads :
  /\ pc[t] = "idle" <=> req[t] = None
  /\ pc[t] = "idle" => shard[t] = 0
  /\ pc[t] = "run" => shard[t] < NumShards
  /\ now[t] <= clock

IInv == TypeOK /\ RetInv /\ CallInv /\ NoEmptyContainers

-----------------------------------------------------------------------------
(* Requests                                                                *)

\* The arguments a request has, by method.
LEMMA RequestFields ==
  ASSUME NEW r \in AllRequests
  PROVE  /\ r.op \notin Walks => r.key \in Keys
         /\ r.op = "set" => r.val \in Values /\ r.ttl \in Int \cup {None}
         /\ r.op = "expire" => r.ttl \in Int
         /\ r.op = "incr_by" => r.delta \in Numbers
         /\ r.op = "hset" => r.field \in Fields /\ r.val \in Values
         /\ r.op = "hdel" => r.field \in Fields
         /\ r.op \in {"lpush", "rpush"} => r.val \in Values
<1> USE RequestAssumption DEF Walks
<1>1. CASE r \in [op : {"set"}, key : Keys, val : Inputs, ttl : TTLs \cup {None}]
  BY <1>1
<1>2. CASE r \in [op : KeyOps, key : Keys]
  BY <1>2 DEF KeyOps, KeyReads
<1>3. CASE r \in [op : {"expire"}, key : Keys, ttl : TTLs]
  BY <1>3
<1>4. CASE r \in [op : {"incr_by"}, key : Keys, delta : Deltas]
  BY <1>4
<1>5. CASE r \in [op : {"hset"}, key : Keys, field : Fields, val : Inputs]
  BY <1>5
<1>6. CASE r \in [op : {"hget", "hdel", "hexists"}, key : Keys, field : Fields]
  BY <1>6
<1>7. CASE r \in [op : {"lpush", "rpush"}, key : Keys, val : Inputs]
  BY <1>7
<1>8. CASE r \in [op : {"lrange"}, key : Keys, start : Indices, stop : Indices]
  BY <1>8
<1>9. CASE \/ r \in [op : {"size", "clear", "snapshot"}]
           \/ r \in [op : {"purge"}, limit : Limits]
           \/ r \in [op : {"evict"}, count : Counts]
  BY <1>9
<1> QED
  BY <1>1, <1>2, <1>3, <1>4, <1>5, <1>6, <1>7, <1>8, <1>9 DEF AllRequests

\* A thread in a section has a request.
LEMMA InRequest ==
  ASSUME TypeOK, CallInv, NEW t \in Threads, pc[t] # "idle"
  PROVE  req[t] \in AllRequests /\ now[t] \in Nat
BY RequestAssumption DEF TypeOK, CallInv

-----------------------------------------------------------------------------
(* What a critical section does to the control state                       *)

Busy == {"run", "touch", "reap", "sort", "evict", "done"}

\* A section moves its own thread only, to another place inside its call.
LEMMA SectionMoves ==
  ASSUME TypeOK, RetInv, CallInv, NEW t \in Threads, Section(t)
  PROVE  /\ UNCHANGED <<clock, req, now>>
         /\ pc[t] # "idle"
         /\ \E p \in Busy : pc' = [pc EXCEPT ![t] = p]
         /\ \E found : ret' = [ret EXCEPT ![t] = found]
         /\ \/ UNCHANGED shard /\ pc'[t] \in Busy \ {"run"}
            \/ /\ shard' = [shard EXCEPT ![t] = @ + 1]
               /\ pc[t] = "run"
               /\ pc'[t] = "run" => shard[t] + 1 # NumShards
<1> USE DEF TypeOK, In, Finish, GoOn, Frame, Busy
<1>1. CASE Set(t) \/ Del(t) \/ Exists(t) \/ Expire(t) \/ Incr(t)
  BY <1>1 DEF Set, Del, Exists, Expire, Incr
<1>2. CASE GetLookup(t) \/ GetTouch(t) \/ GetReap(t) \/ TtlLookup(t) \/ TtlReap(t)
  BY <1>2 DEF GetLookup, GetTouch, GetReap, TtlLookup, TtlReap
<1>3. CASE HSet(t) \/ HDel(t) \/ HashRead(t)
  BY <1>3 DEF HSet, HDel, HashRead
<1>4. CASE LPush(t) \/ RPush(t) \/ LPop(t) \/ RPop(t) \/ ListRead(t)
  BY <1>4 DEF LPush, RPush, LPop, RPop, ListRead
<1>5. CASE SizeShard(t) \/ ClearShard(t) \/ PurgeShard(t) \/ SnapshotShard(t)
  BY <1>5 DEF SizeShard, ClearShard, PurgeShard, SnapshotShard, Walk
<1>6. CASE SampleShard(t)
  BY <1>6 DEF SampleShard
<1>7. CASE Sort(t)
  BY <1>7 DEF Sort
<1>8. CASE EvictNext(t)
  BY <1>8 DEF EvictNext
<1> QED
  BY <1>1, <1>2, <1>3, <1>4, <1>5, <1>6, <1>7, <1>8 DEF Section

-----------------------------------------------------------------------------
(* What a critical section does to the store                               *)

\* A section leaves a store of the declared type, and no empty container.
LEMMA SectionStore ==
  ASSUME TypeOK, RetInv, CallInv, NEW t \in Threads, Section(t)
  PROVE  store' \in Stores /\ (NoEmpties(store) => NoEmpties(store'))
<1> DEFINE r == req[t]
<1>1. pc[t] # "idle" /\ store \in Stores
  BY SectionMoves DEF TypeOK
<1>2. r \in AllRequests /\ now[t] \in Nat
  BY <1>1, InRequest
<1> HIDE DEF r
<1>3. ASSUME store'.hash = store.hash, store'.list = store.list
      PROVE  NoEmpties(store) => NoEmpties(store')
  BY <1>3 DEF NoEmpties
<1>4. CASE Set(t)
  <2>1. r.op = "set" /\ store' = AfterSet(store, r.key, r.val, r.ttl, now[t])
    BY <1>4 DEF Set, In, r
  <2>2. r.key \in Keys /\ r.val \in Values /\ r.ttl \in Int \cup {None}
    BY <1>2, <2>1, RequestFields DEF Walks
  <2>3. store'.hash = store.hash /\ store'.list = store.list
    BY <1>1, <2>1 DEF AfterSet, Stores
  <2> QED
    BY <1>1, <1>2, <1>3, <2>1, <2>2, <2>3, SetType
<1>5. CASE GetLookup(t) \/ Exists(t) \/ HashRead(t) \/ ListRead(t) \/ SizeShard(t)
           \/ SnapshotShard(t) \/ SampleShard(t) \/ Sort(t)
  <2>1. store' = store
    BY <1>5 DEF GetLookup, GoOn, Exists, HashRead, ListRead, SizeShard, SnapshotShard,
                SampleShard, Sort
  <2> QED
    BY <1>1, <1>3, <2>1
<1>6. CASE GetTouch(t)
  <2>1. r.op = "get" /\ store' = AfterTouch(store, r.key, now[t])
    BY <1>6 DEF GetTouch, In, r
  <2>2. r.key \in Keys
    BY <1>2, <2>1, RequestFields DEF Walks
  <2>3. store'.hash = store.hash /\ store'.list = store.list
    BY <1>1, <2>1 DEF AfterTouch, Stores
  <2> QED
    BY <1>1, <1>2, <1>3, <2>1, <2>2, <2>3, TouchType
<1>7. CASE GetReap(t) \/ TtlLookup(t) \/ TtlReap(t) \/ EvictNext(t)
  <2>1. store' = store \/ \E k : store' = AfterErase(store, k)
    BY <1>7 DEF GetReap, TtlLookup, TtlReap, EvictNext, GoOn
  <2>2. CASE store' = store
    BY <1>1, <1>3, <2>2
  <2>3. ASSUME NEW k, store' = AfterErase(store, k)
        PROVE  store' \in Stores /\ (NoEmpties(store) => NoEmpties(store'))
    <3>1. store'.hash = store.hash /\ store'.list = store.list
      BY <1>1, <2>3 DEF AfterErase, Stores
    <3> QED
      BY <1>1, <1>3, <2>3, <3>1, EraseType
  <2> QED
    BY <2>1, <2>2, <2>3
<1>8. CASE Del(t)
  <2>1. r.op = "del" /\ store' = AfterDel(store, r.key)
    BY <1>8 DEF Del, In, r
  <2>2. r.key \in Keys
    BY <1>2, <2>1, RequestFields DEF Walks
  <2>3. None # NoFields /\ None # << >>
    BY NoneIsNotEmpty
  <2>4. \A k \in Keys : store'.hash[k] \in {store.hash[k], None}
                     /\ store'.list[k] \in {store.list[k], None}
    BY <1>1, <2>1, <2>2 DEF AfterDel, Stores
  <2> QED
    BY <1>1, <2>1, <2>2, <2>3, <2>4, DelType DEF NoEmpties
<1>9. CASE Expire(t)
  <2>1. r.op = "expire" /\ store' = AfterExpire(store, r.key, r.ttl, now[t])
    BY <1>9 DEF Expire, In, r
  <2>2. r.key \in Keys /\ r.ttl \in Int
    BY <1>2, <2>1, RequestFields DEF Walks
  <2>3. store'.hash = store.hash /\ store'.list = store.list
    BY <1>1, <2>1 DEF AfterExpire, AfterErase, Stores
  <2> QED
    BY <1>1, <1>2, <1>3, <2>1, <2>2, <2>3, ExpireType
<1>10. CASE Incr(t)
  <2>1. r.op = "incr_by" /\ store' = AfterIncr(store, r.key, r.delta, now[t])
    BY <1>10 DEF Incr, In, r
  <2>2. r.key \in Keys /\ r.delta \in Numbers
    BY <1>2, <2>1, RequestFields DEF Walks
  <2>3. store'.hash = store.hash /\ store'.list = store.list
    BY <1>1, <2>1 DEF AfterIncr, Stores
  <2> QED
    BY <1>1, <1>2, <1>3, <2>1, <2>2, <2>3, IncrType
<1>11. CASE HSet(t)
  <2>1. r.op = "hset" /\ store' = AfterHSet(store, r.key, r.field, r.val)
    BY <1>11 DEF HSet, In, r
  <2>2. r.key \in Keys /\ r.field \in Fields /\ r.val \in Values
    BY <1>2, <2>1, RequestFields DEF Walks
  <2> QED
    BY <1>1, <2>1, <2>2, HSetType
<1>12. CASE HDel(t)
  <2>1. r.op = "hdel" /\ store' = AfterHDel(store, r.key, r.field)
    BY <1>12 DEF HDel, In, r
  <2>2. r.key \in Keys /\ r.field \in Fields
    BY <1>2, <2>1, RequestFields DEF Walks
  <2> QED
    BY <1>1, <2>1, <2>2, HDelType
<1>13. CASE LPush(t) \/ RPush(t)
  <2>1. r.op \in {"lpush", "rpush"}
        /\ store' \in {AfterLPush(store, r.key, r.val), AfterRPush(store, r.key, r.val)}
    BY <1>13 DEF LPush, RPush, In, r
  <2>2. r.key \in Keys /\ r.val \in Values
    BY <1>2, <2>1, RequestFields DEF Walks
  <2> QED
    BY <1>1, <2>1, <2>2, PushType
<1>14. CASE LPop(t) \/ RPop(t)
  <2>1. r.op \in {"lpop", "rpop"}
        /\ store' \in {AfterLPop(store, r.key), AfterRPop(store, r.key)}
    BY <1>14 DEF LPop, RPop, In, r
  <2>2. r.key \in Keys
    BY <1>2, <2>1, RequestFields DEF Walks
  <2> QED
    BY <1>1, <2>1, <2>2, PopType
<1>15. CASE ClearShard(t)
  <2>1. store' = AfterClear(store, shard[t])
    BY <1>15 DEF ClearShard
  <2>2. store' \in Stores
    BY <1>1, <2>1 DEF AfterClear, Stores
  <2>3. None # NoFields /\ None # << >>
    BY NoneIsNotEmpty
  <2>4. \A k \in Keys : store'.hash[k] \in {store.hash[k], None}
                     /\ store'.list[k] \in {store.list[k], None}
    BY <1>1, <2>1 DEF AfterClear, Stores
  <2> QED
    BY <2>2, <2>3, <2>4 DEF NoEmpties
<1>16. CASE PurgeShard(t)
  <2>1. PICK dead : store' = [store EXCEPT !.str =
                                [k \in Keys |-> IF k \in dead THEN None ELSE @[k]]]
    BY <1>16 DEF PurgeShard
  <2> QED
    BY <1>1, <1>3, <2>1 DEF Stores
<1> QED
  BY <1>4, <1>5, <1>6, <1>7, <1>8, <1>9, <1>10, <1>11, <1>12, <1>13, <1>14, <1>15,
     <1>16 DEF Section, r

-----------------------------------------------------------------------------
(* The invariant                                                           *)

\* The initial state satisfies it.
LEMMA InitInv == Init => IInv
<1> SUFFICES ASSUME Init PROVE IInv
  OBVIOUS
<1>1. store \in Stores
  BY DEF Init, EmptyStore, Stores
<1>2. TypeOK
  BY <1>1, RequestAssumption, ShardAssumption DEF Init, TypeOK
<1>3. CallInv
  BY ShardAssumption DEF Init, CallInv
<1>4. NoEmptyContainers
  BY NoneIsNotEmpty DEF Init, EmptyStore, NoEmptyContainers
<1>5. RetInv
  BY DEF Init, RetInv
<1> QED
  BY <1>2, <1>3, <1>4, <1>5 DEF IInv

\* Time passes.
LEMMA TickKeeps == ASSUME IInv, Tick PROVE IInv'
<1> USE DEF IInv
<1>1. TypeOK'
  BY RequestAssumption DEF Tick, TypeOK
<1>2. CallInv'
  BY DEF Tick, TypeOK, CallInv
<1>3. RetInv' /\ NoEmptyContainers'
  BY DEF Tick, RetInv, NoEmptyContainers
<1> QED
  BY <1>1, <1>2, <1>3

\* A thread enters the store, with whatever request.
LEMMA CallKeeps ==
  ASSUME IInv, NEW t \in Threads, NEW r \in AllRequests, Call(t, r)
  PROVE  IInv'
<1> USE DEF IInv
<1>1. r # None
  BY IdleAssumption
<1>2. TypeOK'
  BY DEF Call, TypeOK
<1>3. CallInv'
  BY <1>1, ShardAssumption DEF Call, TypeOK, CallInv
<1>4. RetInv'
  BY DEF Call, RetInv
<1>5. NoEmptyContainers'
  BY DEF Call, NoEmptyContainers
<1> QED
  BY <1>2, <1>3, <1>4, <1>5

\* It runs a critical section.
LEMMA SectionKeeps == ASSUME IInv, NEW t \in Threads, Section(t) PROVE IInv'
<1> USE DEF IInv
<1>1. PICK p \in Busy : pc' = [pc EXCEPT ![t] = p]
  BY SectionMoves
<1>2. UNCHANGED <<clock, req, now>> /\ pc[t] # "idle"
  BY SectionMoves
<1>3. store' \in Stores /\ NoEmptyContainers'
  BY SectionStore DEF NoEmptyContainers, NoEmpties
<1>4. RetInv'
  <2>1. PICK found : ret' = [ret EXCEPT ![t] = found]
    BY SectionMoves
  <2> QED
    BY <2>1 DEF RetInv
<1>5. CASE UNCHANGED shard /\ pc'[t] \in Busy \ {"run"}
  <2>1. TypeOK'
    BY <1>1, <1>2, <1>3, <1>5 DEF TypeOK, Busy
  <2>2. CallInv'
    BY <1>1, <1>2, <1>5 DEF TypeOK, CallInv, Busy
  <2> QED
    BY <1>3, <1>4, <2>1, <2>2
<1>6. CASE /\ shard' = [shard EXCEPT ![t] = @ + 1]
           /\ pc[t] = "run"
           /\ pc'[t] = "run" => shard[t] + 1 # NumShards
  <2>1. shard[t] + 1 \in 0 .. NumShards
    BY <1>6, ShardAssumption DEF TypeOK, CallInv
  <2>2. TypeOK'
    BY <1>1, <1>2, <1>3, <1>6, <2>1 DEF TypeOK, Busy
  <2>3. CallInv'
    BY <1>1, <1>2, <1>6, <2>1, ShardAssumption DEF TypeOK, CallInv, Busy
  <2> QED
    BY <1>3, <1>4, <2>2, <2>3
<1> QED
  BY <1>5, <1>6, SectionMoves

\* It leaves the store.
LEMMA ReturnKeeps == ASSUME IInv, NEW t \in Threads, Return(t) PROVE IInv'
<1> USE DEF IInv
<1>1. TypeOK'
  BY RequestAssumption, ShardAssumption DEF Return, TypeOK
<1>2. CallInv'
  BY ShardAssumption DEF Return, TypeOK, CallInv
<1>3. RetInv' /\ NoEmptyContainers'
  BY DEF Return, RetInv, NoEmptyContainers
<1> QED
  BY <1>1, <1>2, <1>3

\* Nothing happens.
LEMMA StutterKeeps == ASSUME IInv, UNCHANGED vars PROVE IInv'
BY DEF IInv, vars, TypeOK, RetInv, CallInv, NoEmptyContainers

\* Every step preserves the invariant.
LEMMA StepInv == IInv /\ [Next]_vars => IInv'
<1> SUFFICES ASSUME IInv, [Next]_vars PROVE IInv'
  OBVIOUS
<1>1. ASSUME NEW t \in Threads, NEW r \in Requests, Call(t, r) PROVE IInv'
  BY <1>1, CallKeeps DEF Requests
<1> QED
  BY <1>1, TickKeeps, SectionKeeps, ReturnKeeps, StutterKeeps DEF Next

\* IInv is inductive.
THEOREM Invariance == Spec => []IInv
BY InitInv, StepInv, PTL DEF Spec

\* The maps and the calls in progress keep their types.
THEOREM TypeCorrect == Spec => []TypeOK
<1>1. IInv => TypeOK
  BY DEF IInv
<1> QED
  BY Invariance, <1>1, PTL

\* hdel, lpop and rpop (KeyValueStore.cpp:215-227 and 278-302) never leave a
\* hash without fields or a list without elements.
THEOREM NoEmptyContainersKept == Spec => []NoEmptyContainers
<1>1. IInv => NoEmptyContainers
  BY DEF IInv
<1> QED
  BY Invariance, <1>1, PTL

-----------------------------------------------------------------------------
(* Methods that only ask                                                   *)

\* The access time of an entry is nothing a client sees.
LEMMA TouchInvisible ==
  ASSUME NEW st \in Stores, NEW k \in Keys, NEW n \in Nat, NEW j \in Keys, NEW at \in Nat
  PROVE  Visible(AfterTouch(st, k, n), j, at) = Visible(st, j, at)
<1>1. CASE st.str[k] = None
  BY <1>1 DEF AfterTouch
<1>2. CASE st.str[k] # None
  <2> DEFINE new == AfterTouch(st, k, n)
  <2>1. st.str[k] \in Entries
    BY <1>2 DEF Stores
  <2>2. new.hash = st.hash /\ new.list = st.list
    BY <1>2 DEF AfterTouch, Stores
  <2>3. /\ new.str[k].value = st.str[k].value
        /\ new.str[k].expires_at = st.str[k].expires_at
        /\ new.str[k] \in Entries
    BY <1>2, <2>1 DEF AfterTouch, Stores, Entries
  <2>4. j # k => new.str[j] = st.str[j]
    BY <1>2 DEF AfterTouch, Stores
  <2> HIDE DEF new
  <2>5. new.str[k] # None
    BY <2>3, NoneAssumption
  <2> QED
    BY <1>2, <2>2, <2>3, <2>4, <2>5 DEF Visible, Live, Expired, new
<1> QED
  BY <1>1, <1>2

\* Nor is the removal of entries that had expired when an earlier clock was
\* read: no client reads one any more.
LEMMA ReapInvisible ==
  ASSUME NEW st \in Stores, NEW new, NEW n \in Nat, NEW at \in Nat, n <= at,
         new.hash = st.hash, new.list = st.list,
         \A k \in Keys : \/ new.str[k] = st.str[k]
                         \/ Expired(st.str[k], n) /\ new.str[k] = None,
         NEW j \in Keys
  PROVE  Visible(new, j, at) = Visible(st, j, at)
<1>1. CASE new.str[j] = st.str[j]
  BY <1>1 DEF Visible
<1>2. CASE Expired(st.str[j], n) /\ new.str[j] = None
  <2>1. st.str[j] \in Entries
    BY <1>2 DEF Expired, Stores
  <2>2. st.str[j].expires_at \in Int
    BY <1>2, <2>1 DEF Expired, Entries
  <2>3. Expired(st.str[j], at)
    BY <1>2, <2>2 DEF Expired
  <2> QED
    BY <1>2, <2>3 DEF Visible, Live
<1> QED
  BY <1>1, <1>2

\* What ttl has found under the shared lock, that the entry has expired, is
\* still so when it takes the exclusive one, unless the entry has gone.
VerdictStands(t) ==
  In(t, "ttl", "reap") =>
    store.str[req[t].key] = None \/ Expired(store.str[req[t].key], now[t])

\* One step of a method that only asks, when it is not a ttl overtaken.
LEMMA QueryStep ==
  ASSUME IInv, NEW t \in Threads, VerdictStands(t), Section(t), req[t].op \in Queries,
         NEW j \in Keys
  PROVE  Visible(store', j, clock) = Visible(store, j, clock)
<1> DEFINE r == req[t]
<1>1. /\ store \in Stores /\ clock \in Nat /\ now[t] \in Nat /\ now[t] <= clock
      /\ pc[t] # "idle" /\ r \in AllRequests
  BY SectionMoves, InRequest, RequestAssumption DEF IInv, TypeOK, CallInv
<1>3. CASE GetLookup(t) \/ Exists(t) \/ HashRead(t) \/ ListRead(t) \/ SizeShard(t)
           \/ SnapshotShard(t)
  BY <1>3 DEF GetLookup, GoOn, Exists, HashRead, ListRead, SizeShard, SnapshotShard
<1>4. CASE GetTouch(t)
  <2>1. r.op = "get" /\ store' = AfterTouch(store, r.key, now[t])
    BY <1>4 DEF GetTouch, In
  <2>2. r.key \in Keys
    BY <1>1, <2>1, RequestFields DEF Walks
  <2> QED
    BY <1>1, <2>1, <2>2, TouchInvisible
<1>5. CASE GetReap(t)
  <2>1. store' = store \/ (Expired(store.str[r.key], now[t])
                           /\ store' = AfterErase(store, r.key))
    BY <1>5 DEF GetReap
  <2>2. /\ store'.hash = store.hash /\ store'.list = store.list
        /\ \A k \in Keys : \/ store'.str[k] = store.str[k]
                           \/ Expired(store.str[k], now[t]) /\ store'.str[k] = None
    BY <1>1, <2>1 DEF AfterErase, Stores
  <2> QED
    BY <1>1, <2>2, ReapInvisible
<1>6. CASE PurgeShard(t)
  <2>1. PICK w : store' = [store EXCEPT !.str =
                   [k \in Keys |-> IF k \in {i \in w : Expired(store.str[i], now[t])}
                                   THEN None ELSE @[k]]]
    BY <1>6 DEF PurgeShard
  <2>2. /\ store'.hash = store.hash /\ store'.list = store.list
        /\ \A k \in Keys : \/ store'.str[k] = store.str[k]
                           \/ Expired(store.str[k], now[t]) /\ store'.str[k] = None
    BY <1>1, <2>1 DEF Stores
  <2> QED
    BY <1>1, <2>2, ReapInvisible
<1>2. CASE TtlLookup(t)
  BY <1>2 DEF TtlLookup, GoOn
<1>8. CASE TtlReap(t)
  <2>1. In(t, "ttl", "reap") /\ store' = AfterErase(store, r.key)
    BY <1>8 DEF TtlReap
  <2>2. store.str[r.key] = None \/ Expired(store.str[r.key], now[t])
    BY <2>1 DEF VerdictStands
  <2>3. /\ store'.hash = store.hash /\ store'.list = store.list
        /\ \A k \in Keys : \/ store'.str[k] = store.str[k]
                           \/ Expired(store.str[k], now[t]) /\ store'.str[k] = None
    BY <1>1, <2>1, <2>2 DEF AfterErase, Stores
  <2> QED
    BY <1>1, <2>3, ReapInvisible
<1>7. \/ GetLookup(t) \/ Exists(t) \/ HashRead(t) \/ ListRead(t) \/ SizeShard(t)
      \/ SnapshotShard(t) \/ GetTouch(t) \/ GetReap(t) \/ PurgeShard(t)
      \/ TtlLookup(t) \/ TtlReap(t)
  BY DEF Section, Queries, KeyReads, In, Set, Del, Expire, Incr,
              HSet, HDel, LPush, RPush, LPop, RPop, ClearShard, SampleShard, Sort, EvictNext
<1> QED
  BY <1>2, <1>3, <1>4, <1>5, <1>6, <1>7, <1>8

\* What QueriesInvisible says of a step.
Invisible ==
  \A t \in Threads : Moves(t) /\ req[t] # None /\ req[t].op \in Queries =>
    \A k \in Keys : Visible(store, k, clock)' = Visible(store, k, clock)

\* A section moves no thread but its own.
LEMMA SectionInvisible ==
  ASSUME IInv, \A t \in Threads : VerdictStands(t), NEW u \in Threads, Section(u)
  PROVE  Invisible
<1> SUFFICES ASSUME NEW t \in Threads, Moves(t), req[t] # None, req[t].op \in Queries,
                    NEW k \in Keys
             PROVE  Visible(store', k, clock') = Visible(store, k, clock)
  BY DEF Invisible
<1>1. u = t
  BY SectionMoves DEF IInv, TypeOK, Moves
<1>2. clock' = clock
  BY SectionMoves DEF IInv
<1>3. Visible(store', k, clock) = Visible(store, k, clock)
  BY <1>1, QueryStep
<1> QED
  BY <1>2, <1>3

\* A thread that enters or leaves the store changes nothing, and time moves
\* no thread.
LEMMA OutsideInvisible ==
  ASSUME \/ Tick \/ UNCHANGED vars
         \/ \E t \in Threads : Return(t) \/ \E r : Call(t, r)
  PROVE  Invisible
BY DEF Tick, vars, Return, Call, Invisible, Moves

\* The calls in progress are of the methods in use.
OpsInv == \A t \in Threads : req[t] # None => req[t].op \in Ops

\* They always are.
LEMMA OnlyOps == Spec => []OpsInv
<1>1. Init => OpsInv
  BY DEF Init, OpsInv
<1>2. IInv /\ OpsInv /\ [Next]_vars => OpsInv'
  <2> SUFFICES ASSUME IInv, OpsInv, [Next]_vars PROVE OpsInv'
    OBVIOUS
  <2>1. ASSUME NEW t \in Threads, NEW r \in Requests, Call(t, r) PROVE OpsInv'
    BY <2>1 DEF Call, IInv, TypeOK, OpsInv, Requests
  <2>2. ASSUME NEW t \in Threads, Section(t) PROVE OpsInv'
    BY <2>2, SectionMoves DEF IInv, OpsInv
  <2>3. ASSUME NEW t \in Threads, Return(t) PROVE OpsInv'
    BY <2>3 DEF Return, IInv, TypeOK, OpsInv
  <2>4. CASE Tick \/ UNCHANGED vars
    BY <2>4 DEF Tick, vars, OpsInv
  <2> QED
    BY <2>1, <2>2, <2>3, <2>4 DEF Next
<1> QED
  BY Invariance, <1>1, <1>2, PTL DEF Spec

\* Nobody is overtaken in ttl where nobody calls it.
LEMMA VerdictsStand == ASSUME "ttl" \notin Ops, OpsInv, IInv
                       PROVE  \A t \in Threads : VerdictStands(t)
BY DEF VerdictStands, In, OpsInv, IInv, CallInv

\* get with its two sections (KeyValueStore.cpp:20-56) and the purge
\* (341-360) change nothing a client sees, with any number of threads in the
\* store: what another thread has done to the key since the clock was read
\* is never undone.  ttl (127-131) is the exception.
THEOREM QueriesInvisibleWithoutTtl ==
  ASSUME "ttl" \notin Ops
  PROVE  Spec => QueriesInvisible
<1>1. IInv /\ OpsInv /\ [Next]_vars => Invisible
  BY SectionInvisible, OutsideInvisible, VerdictsStand DEF Next
<1>2. (IInv /\ OpsInv /\ [Next]_vars) => [Invisible]_vars
  BY <1>1
<1>3. QueriesInvisible <=> [][Invisible]_vars
  BY DEF QueriesInvisible, Invisible
<1> QED
  BY Invariance, OnlyOps, <1>2, <1>3, PTL DEF Spec

-----------------------------------------------------------------------------
(* The abstract store                                                      *)

\* The other threads stay where they are for the abstract store.
Others(t) == \A u \in Threads \ {t} :
  /\ Phase(u)' = Phase(u) /\ Asked(u)' = Asked(u)
  /\ CalledAt(u)' = CalledAt(u) /\ Replied(u)' = Replied(u)

\* The abstract variables when one thread moves.
LEMMA Moving ==
  ASSUME NEW t \in Threads, Others(t)
  PROVE  /\ [u \in Threads |-> Phase(u)]' = [[u \in Threads |-> Phase(u)] EXCEPT ![t] = Phase(t)']
         /\ [u \in Threads |-> Asked(u)]' = [[u \in Threads |-> Asked(u)] EXCEPT ![t] = Asked(t)']
         /\ [u \in Threads |-> CalledAt(u)]' = [[u \in Threads |-> CalledAt(u)] EXCEPT ![t] = CalledAt(t)']
         /\ [u \in Threads |-> Replied(u)]' = [[u \in Threads |-> Replied(u)] EXCEPT ![t] = Replied(t)']
BY DEF Others

\* What makes a step Invoke of the abstract store,
LEMMA Invokes ==
  ASSUME NEW t \in Threads, NEW r \in Requests, r.op \notin Walks, Others(t),
         Phase(t) = "idle", Phase(t)' = "pending", Asked(t)' = r, CalledAt(t)' = clock,
         Replied(t)' = Replied(t), UNCHANGED <<store, clock>>
  PROVE  Atomic!Invoke(t, r)
BY Moving DEF Atomic!Invoke

\* Apply,
LEMMA Applies ==
  ASSUME NEW t \in Threads, Others(t), 
         Phase(t) = "pending", Phase(t)' = "applied", Asked(t)' = Asked(t), CalledAt(t)' = CalledAt(t),
         UNCHANGED clock, NEW at \in CalledAt(t) .. clock,
         Timeless(store)' = Atomic!Timeless(Atomic!Effect(Timeless(store), Asked(t), at)),
         Replied(t)' = Atomic!Answer(Timeless(store), Asked(t), at)
  PROVE  Atomic!Apply(t)
<1>1. Asked(t) = [u \in Threads |-> Asked(u)][t]
  OBVIOUS
<1> QED
BY Moving DEF Atomic!Apply

\* Respond,
LEMMA Responds ==
  ASSUME NEW t \in Threads, Others(t),
         Phase(t) = "applied", Phase(t)' = "idle", Asked(t)' = None, CalledAt(t)' = 0,
         Replied(t)' = None, UNCHANGED <<store, clock>>
  PROVE  Atomic!Respond(t)
BY Moving DEF Atomic!Respond

\* And so does this one.
Still(t) == /\ Phase(t)' = Phase(t) /\ Asked(t)' = Asked(t)
            /\ CalledAt(t)' = CalledAt(t) /\ Replied(t)' = Replied(t)

\* or one in which no thread moves:
LEMMA Rests ==
  ASSUME NEW t \in Threads, Others(t), Still(t)
  PROVE  /\ [u \in Threads |-> Phase(u)]' = [u \in Threads |-> Phase(u)]
         /\ [u \in Threads |-> Asked(u)]' = [u \in Threads |-> Asked(u)]
         /\ [u \in Threads |-> CalledAt(u)]' = [u \in Threads |-> CalledAt(u)]
         /\ [u \in Threads |-> Replied(u)]' = [u \in Threads |-> Replied(u)]
BY DEF Others, Still

\* a stutter,
LEMMA Stutters ==
  ASSUME NEW t \in Threads, Others(t), Still(t), UNCHANGED clock,
         Timeless(store)' = Timeless(store)
  PROVE  UNCHANGED Atomic!vars
BY Rests DEF Atomic!vars

\* Lapse,
LEMMA Lapses ==
  ASSUME NEW t \in Threads, Others(t), Still(t), UNCHANGED clock, NEW ks \in SUBSET Keys,
         \A k \in ks : Atomic!Expired(Timeless(store).str[k], clock),
         Timeless(store)' = [Timeless(store) EXCEPT !.str =
                               [k \in Keys |-> IF k \in ks THEN None ELSE @[k]]]
  PROVE  Atomic!Lapse(ks)
BY Rests DEF Atomic!Lapse

\* or Evict.
LEMMA Evicts ==
  ASSUME NEW t \in Threads, Others(t), Still(t), UNCHANGED clock, NEW k \in Keys,
         \E u \in Threads : req[u] # None /\ req[u].op = "evict",
         Timeless(store).str[k] # None,
         Timeless(store)' = Atomic!AfterErase(Timeless(store), k)
  PROVE  Atomic!Evict(k)
BY Rests DEF Atomic!Evict

\* AtomicStore has StoreOps by a name of its own; its operators are the same.
LEMMA SameOperators ==
  /\ \A st : Atomic!Timeless(st) = Timeless(st)
  /\ \A e, at : Atomic!Expired(e, at) = Expired(e, at) /\ Atomic!Live(e, at) = Live(e, at)
  /\ \A st, k : Atomic!AfterErase(st, k) = AfterErase(st, k)
<1>1. \A st : Atomic!Timeless(st) = Timeless(st)
  BY DEF Atomic!Timeless, Timeless
<1>2. \A e, at : Atomic!Expired(e, at) = Expired(e, at)
  BY DEF Atomic!Expired, Expired
<1>3. \A e, at : Atomic!Live(e, at) = Live(e, at)
  BY <1>2 DEF Atomic!Live, Live
<1>4. \A st, k : Atomic!AfterErase(st, k) = AfterErase(st, k)
  BY DEF Atomic!AfterErase, AfterErase
<1> QED
  BY <1>1, <1>2, <1>3, <1>4

\* What the abstract store makes of the requests on strings,
LEMMA AtomicStrings ==
  ASSUME NEW st, NEW r, NEW at
  PROVE  /\ r.op = "set" => Atomic!Effect(st, r, at) = AfterSet(st, r.key, r.val, r.ttl, at)
                            /\ Atomic!Answer(st, r, at) = None
         /\ r.op = "get" => Atomic!Effect(st, r, at) = (IF Expired(st.str[r.key], at)
                                                        THEN AfterErase(st, r.key) ELSE st)
                            /\ Atomic!Answer(st, r, at) = GetReply(st, r.key, at)
         /\ r.op = "del" => Atomic!Effect(st, r, at) = AfterDel(st, r.key)
                            /\ Atomic!Answer(st, r, at) = DelReply(st, r.key)
         /\ r.op = "exists" => Atomic!Effect(st, r, at) = st
                            /\ Atomic!Answer(st, r, at) = ExistsReply(st, r.key, at)
         /\ r.op = "ttl" => Atomic!Effect(st, r, at) = st
                            /\ Atomic!Answer(st, r, at) = TtlReply(st, r.key, at)
         /\ r.op = "expire" => Atomic!Effect(st, r, at) = AfterExpire(st, r.key, r.ttl, at)
                            /\ Atomic!Answer(st, r, at) = ExpireReply(st, r.key, at)
         /\ r.op = "incr_by" => Atomic!Effect(st, r, at) = AfterIncr(st, r.key, r.delta, at)
                            /\ Atomic!Answer(st, r, at) = IncrReply(st, r.key, r.delta, at)
BY DEF Atomic!Effect, Atomic!Answer, Atomic!AfterSet, AfterSet, Atomic!After, After,
       Atomic!WrapTime, WrapTime, Atomic!Expired, Expired, Atomic!AfterErase, AfterErase,
       Atomic!GetReply, GetReply, Atomic!Live, Live, Atomic!AfterDel, AfterDel,
       Atomic!DelReply, DelReply, Atomic!ExistsReply, ExistsReply, Atomic!TtlReply, TtlReply,
       Atomic!ExpireReply, ExpireReply, Atomic!AfterExpire, AfterExpire,
       Atomic!IncrReply, IncrReply, Atomic!AfterIncr, AfterIncr, Atomic!Wrap, Wrap,
       Atomic!Stoll, Stoll

\* of those that change hashes and lists,
LEMMA AtomicContainers ==
  ASSUME NEW st, NEW r, NEW at
  PROVE  /\ r.op = "hset" => Atomic!Effect(st, r, at) = AfterHSet(st, r.key, r.field, r.val)
                            /\ Atomic!Answer(st, r, at) = (HGetReply(st, r.key, r.field) = None)
         /\ r.op = "hdel" => Atomic!Effect(st, r, at) = AfterHDel(st, r.key, r.field)
                            /\ Atomic!Answer(st, r, at) = (HGetReply(st, r.key, r.field) # None)
         /\ r.op = "lpush" => Atomic!Effect(st, r, at) = AfterLPush(st, r.key, r.val)
                            /\ Atomic!Answer(st, r, at) = Len(ListOf(st, r.key)) + 1
         /\ r.op = "rpush" => Atomic!Effect(st, r, at) = AfterRPush(st, r.key, r.val)
                            /\ Atomic!Answer(st, r, at) = Len(ListOf(st, r.key)) + 1
         /\ r.op = "lpop" => Atomic!Effect(st, r, at) = AfterLPop(st, r.key)
                            /\ Atomic!Answer(st, r, at) = LPopReply(st, r.key)
         /\ r.op = "rpop" => Atomic!Effect(st, r, at) = AfterRPop(st, r.key)
                            /\ Atomic!Answer(st, r, at) = RPopReply(st, r.key)
BY DEF Atomic!Effect, Atomic!Answer, Atomic!HGetReply, HGetReply, Atomic!AfterHSet, AfterHSet,
       Atomic!AfterHDel, AfterHDel, Atomic!NoFields, NoFields, Atomic!ListOf, ListOf,
       Atomic!AfterLPush, AfterLPush, Atomic!AfterRPush, AfterRPush, Atomic!LPopReply, LPopReply,
       Atomic!RPopReply, RPopReply, Atomic!AfterLPop, AfterLPop, Atomic!AfterRPop, AfterRPop,
       Atomic!Stored, Stored

\* and of those that only read them.
LEMMA AtomicReads ==
  ASSUME NEW st, NEW r, NEW at
  PROVE  /\ r.op \in {"hget", "hexists", "hlen", "hgetall", "llen", "lrange"} =>
              Atomic!Effect(st, r, at) = st
         /\ r.op = "hget" => Atomic!Answer(st, r, at) = HGetReply(st, r.key, r.field)
         /\ r.op = "hexists" => Atomic!Answer(st, r, at) = (HGetReply(st, r.key, r.field) # None)
         /\ r.op = "hlen" => Atomic!Answer(st, r, at) = HLenReply(st, r.key)
         /\ r.op = "hgetall" => Atomic!Answer(st, r, at) = HGetAllReply(st, r.key)
         /\ r.op = "llen" => Atomic!Answer(st, r, at) = Len(ListOf(st, r.key))
         /\ r.op = "lrange" => Atomic!Answer(st, r, at) = LRange(ListOf(st, r.key), r.start, r.stop)
<1>1. r.op \in {"hget", "hexists", "hlen", "hgetall", "llen", "lrange"} =>
              Atomic!Effect(st, r, at) = st
  BY DEF Atomic!Effect
<1>2. /\ r.op = "hget" => Atomic!Answer(st, r, at) = HGetReply(st, r.key, r.field)
      /\ r.op = "hexists" => Atomic!Answer(st, r, at) = (HGetReply(st, r.key, r.field) # None)
  BY DEF Atomic!Answer, Atomic!HGetReply, HGetReply
<1>5. \A f : Atomic!HGetReply(st, r.key, f) = HGetReply(st, r.key, f)
  BY DEF Atomic!HGetReply, HGetReply
<1>6. Atomic!HGetAllReply(st, r.key) = HGetAllReply(st, r.key)
  BY <1>5 DEF Atomic!HGetAllReply, HGetAllReply
<1>7. Atomic!HLenReply(st, r.key) = HLenReply(st, r.key)
  BY <1>6 DEF Atomic!HLenReply, HLenReply, Atomic!Cardinality, Cardinality
<1>3. /\ r.op = "hlen" => Atomic!Answer(st, r, at) = HLenReply(st, r.key)
      /\ r.op = "hgetall" => Atomic!Answer(st, r, at) = HGetAllReply(st, r.key)
  BY <1>6, <1>7 DEF Atomic!Answer
<1>4. /\ r.op = "llen" => Atomic!Answer(st, r, at) = Len(ListOf(st, r.key))
      /\ r.op = "lrange" => Atomic!Answer(st, r, at) = LRange(ListOf(st, r.key), r.start, r.stop)
  BY DEF Atomic!Answer, Atomic!ListOf, ListOf, Atomic!LRange, LRange
<1> QED
  BY <1>1, <1>2, <1>3, <1>4

-----------------------------------------------------------------------------
(* What the sections are in the abstract store                             *)

\* Its own section moves no other thread, and no request.
LEMMA SectionOthers ==
  ASSUME IInv, NEW t \in Threads, Section(t)
  PROVE  Others(t) /\ Asked(t)' = Asked(t) /\ CalledAt(t)' = CalledAt(t)
<1>1. UNCHANGED <<clock, req, now>>
  BY SectionMoves DEF IInv
<1>2. \A u \in Threads \ {t} : pc'[u] = pc[u]
  BY SectionMoves DEF IInv, TypeOK
<1>3. \A u \in Threads \ {t} : ret'[u] = ret[u]
  BY SectionMoves DEF IInv, RetInv
<1>4. \A u \in Threads : OneKey(u)' = OneKey(u)
  BY <1>1 DEF OneKey
<1>5. Asked(t)' = Asked(t) /\ CalledAt(t)' = CalledAt(t)
  BY <1>1 DEF Asked, CalledAt, OneKey
<1>6. ASSUME NEW u \in Threads \ {t} PROVE Phase(u)' = Phase(u)
  BY <1>1, <1>2 DEF Phase, OneKey
<1>7. ASSUME NEW u \in Threads \ {t} PROVE Asked(u)' = Asked(u) /\ CalledAt(u)' = CalledAt(u)
  BY <1>1 DEF Asked, CalledAt, OneKey
<1>8. ASSUME NEW u \in Threads \ {t} PROVE Replied(u)' = Replied(u)
  BY <1>2, <1>3, <1>6 DEF Replied
<1> QED
  BY <1>5, <1>6, <1>7, <1>8 DEF Others

\* The section in which a method on one key takes effect.
LEMMA FinishApplies ==
  ASSUME IInv, NEW t \in Threads, OneKey(t), Section(t), NEW reply, Finish(t, reply),
         Phase(t) = "pending",
         NEW after \in Stores, store' \in Stores, Alike(store', after),
         after = Atomic!Effect(Timeless(store), req[t], now[t]),
         reply = Atomic!Answer(Timeless(store), req[t], now[t])
  PROVE  Atomic!Apply(t)
<1>1. Others(t) /\ Asked(t)' = Asked(t) /\ CalledAt(t)' = CalledAt(t)
  BY SectionOthers
<1>2. Asked(t) = req[t] /\ CalledAt(t) = now[t]
  BY DEF Asked, CalledAt
<1>3. pc'[t] = "done" /\ ret'[t] = reply /\ UNCHANGED <<clock, req, now>>
  BY DEF Finish, Frame, IInv, TypeOK, RetInv
<1>4. Phase(t)' = "applied"
  BY <1>3 DEF Phase, OneKey
<1>5. Replied(t)' = reply
  BY <1>3, <1>4 DEF Replied
<1>6. now[t] \in CalledAt(t) .. clock
  BY <1>2, RequestAssumption DEF IInv, TypeOK, CallInv
<1>7. Timeless(store)' = Atomic!Timeless(after)
  BY SameTimeless, SameOperators
<1> QED
  BY <1>1, <1>2, <1>3, <1>4, <1>5, <1>6, <1>7, Applies

\* A call on one key is pending in its first section, and get in its last.
LEMMA PendingCalls ==
  ASSUME NEW t \in Threads, req[t] # None, req[t].op \notin Walks,
         pc[t] = "run" \/ (pc[t] = "reap" /\ req[t].op = "get")
  PROVE  OneKey(t) /\ Phase(t) = "pending"
BY DEF OneKey, Phase

\* The last section of a method on strings is the instant in which it takes
\* effect.
LEMMA StringSections ==
  ASSUME IInv, NEW t \in Threads, Section(t),
         \/ Set(t) \/ GetReap(t) \/ Del(t) \/ Exists(t) \/ Expire(t) \/ Incr(t)
  PROVE  Atomic!Apply(t)
<1> DEFINE r == req[t]
           n == now[t]
           su == Timeless(store)
<1>1. /\ r \in AllRequests /\ r # None /\ n \in Nat /\ store \in Stores
      /\ su \in Stores /\ Alike(store, su) /\ store' \in Stores
  BY SectionMoves, SectionStore, InRequest, TimelessType, IdleAssumption DEF IInv, TypeOK
<1>2. r.op \notin Walks /\ (pc[t] = "run" \/ (pc[t] = "reap" /\ r.op = "get"))
  BY DEF Set, GetReap, Del, Exists, Expire, Incr, In, Walks
<1>3. OneKey(t) /\ Phase(t) = "pending" /\ r.key \in Keys
  BY <1>1, <1>2, PendingCalls, RequestFields
<1> HIDE DEF su
<1>4. SUFFICES \E after \in Stores : /\ Alike(store', after)
                                     /\ after = Atomic!Effect(su, r, n)
                                     /\ Finish(t, Atomic!Answer(su, r, n))
  BY <1>1, <1>3, FinishApplies DEF su
<1>5. CASE Set(t)
  <2>1. r.op = "set" /\ store' = AfterSet(store, r.key, r.val, r.ttl, n) /\ Finish(t, None)
    BY <1>5 DEF Set, In
  <2>2. r.val \in Values /\ r.ttl \in Int \cup {None}
    BY <1>1, <2>1, RequestFields
  <2>3. /\ Alike(store', AfterSet(su, r.key, r.val, r.ttl, n))
        /\ AfterSet(su, r.key, r.val, r.ttl, n) \in Stores
    BY <1>1, <1>3, <2>1, <2>2, SameSet, SetType
  <2> QED
    BY <2>1, <2>3, AtomicStrings
<1>6. CASE GetReap(t)
  <2>1. /\ r.op = "get"
        /\ store' = IF Expired(store.str[r.key], n) THEN AfterErase(store, r.key) ELSE store
        /\ Finish(t, GetReply(store, r.key, n))
    BY <1>6 DEF GetReap, In
  <2>2. /\ Expired(store.str[r.key], n) <=> Expired(su.str[r.key], n)
        /\ GetReply(store, r.key, n) = GetReply(su, r.key, n)
    BY <1>1, <1>3, SameClock, SameReads
  <2>3. /\ Alike(AfterErase(store, r.key), AfterErase(su, r.key))
        /\ AfterErase(su, r.key) \in Stores
    BY <1>1, <1>3, SameErase, EraseType
  <2> QED
    BY <1>1, <2>1, <2>2, <2>3, AtomicStrings
<1>7. CASE Del(t)
  <2>1. r.op = "del" /\ store' = AfterDel(store, r.key) /\ Finish(t, DelReply(store, r.key))
    BY <1>7 DEF Del, In
  <2>2. /\ Alike(store', AfterDel(su, r.key)) /\ DelReply(store, r.key) = DelReply(su, r.key)
        /\ AfterDel(su, r.key) \in Stores
    BY <1>1, <1>3, <2>1, SameDel, DelType
  <2> QED
    BY <2>1, <2>2, AtomicStrings
<1>8. CASE Exists(t)
  <2>1. r.op = "exists" /\ store' = store /\ Finish(t, ExistsReply(store, r.key, n))
    BY <1>8 DEF Exists, In
  <2>2. ExistsReply(store, r.key, n) = ExistsReply(su, r.key, n)
    BY <1>1, <1>3, SameReads
  <2> QED
    BY <1>1, <2>1, <2>2, AtomicStrings
<1>9. CASE Expire(t)
  <2>1. /\ r.op = "expire" /\ store' = AfterExpire(store, r.key, r.ttl, n)
        /\ Finish(t, ExpireReply(store, r.key, n))
    BY <1>9 DEF Expire, In
  <2>2. r.ttl \in Int
    BY <1>1, <2>1, RequestFields
  <2>3. /\ Alike(store', AfterExpire(su, r.key, r.ttl, n))
        /\ AfterExpire(su, r.key, r.ttl, n) \in Stores
        /\ ExpireReply(store, r.key, n) = ExpireReply(su, r.key, n)
    BY <1>1, <1>3, <2>1, <2>2, SameExpire, ExpireType, SameReads
  <2> QED
    BY <2>1, <2>3, AtomicStrings
<1>10. CASE Incr(t)
  <2>1. /\ r.op = "incr_by" /\ store' = AfterIncr(store, r.key, r.delta, n)
        /\ Finish(t, IncrReply(store, r.key, r.delta, n))
    BY <1>10 DEF Incr, In
  <2>2. r.delta \in Numbers
    BY <1>1, <2>1, RequestFields
  <2>3. /\ Alike(store', AfterIncr(su, r.key, r.delta, n))
        /\ AfterIncr(su, r.key, r.delta, n) \in Stores
        /\ IncrReply(store, r.key, r.delta, n) = IncrReply(su, r.key, r.delta, n)
    BY <1>1, <1>3, <2>1, <2>2, SameIncr, IncrType
  <2> QED
    BY <2>1, <2>3, AtomicStrings
<1> QED
  BY <1>5, <1>6, <1>7, <1>8, <1>9, <1>10

\* The only section of a method on hashes or lists is that instant.
LEMMA ContainerSections ==
  ASSUME IInv, NEW t \in Threads, Section(t),
         \/ HSet(t) \/ HDel(t) \/ HashRead(t)
         \/ LPush(t) \/ RPush(t) \/ LPop(t) \/ RPop(t) \/ ListRead(t)
  PROVE  Atomic!Apply(t)
<1> DEFINE r == req[t]
           n == now[t]
           su == Timeless(store)
<1>1. /\ r \in AllRequests /\ r # None /\ n \in Nat /\ store \in Stores
      /\ su \in Stores /\ Alike(store, su) /\ store' \in Stores
  BY SectionMoves, SectionStore, InRequest, TimelessType, IdleAssumption DEF IInv, TypeOK
<1>2. r.op \notin Walks /\ pc[t] = "run"
  BY DEF HSet, HDel, HashRead, LPush, RPush, LPop, RPop, ListRead, In, Walks
<1>3. OneKey(t) /\ Phase(t) = "pending" /\ r.key \in Keys
  BY <1>1, <1>2, PendingCalls, RequestFields
<1> HIDE DEF su
<1>4. SUFFICES \E after \in Stores : /\ Alike(store', after)
                                     /\ after = Atomic!Effect(su, r, n)
                                     /\ Finish(t, Atomic!Answer(su, r, n))
  BY <1>1, <1>3, FinishApplies DEF su
<1>5. store.hash = su.hash /\ store.list = su.list
  BY <1>1 DEF Alike
<1>6. /\ \A k, f : HGetReply(store, k, f) = HGetReply(su, k, f)
      /\ \A k : ListOf(store, k) = ListOf(su, k)
  BY <1>5 DEF HGetReply, ListOf
<1>7. CASE HSet(t)
  <2>1. /\ r.op = "hset" /\ store' = AfterHSet(store, r.key, r.field, r.val)
        /\ Finish(t, HGetReply(store, r.key, r.field) = None)
    BY <1>7 DEF HSet, In
  <2>2. r.field \in Fields /\ r.val \in Values
    BY <1>1, <2>1, RequestFields
  <2>3. /\ Alike(store', AfterHSet(su, r.key, r.field, r.val))
        /\ AfterHSet(su, r.key, r.field, r.val) \in Stores
    BY <1>1, <1>3, <2>1, <2>2, SameHSet, HSetType
  <2> QED
    BY <1>6, <2>1, <2>3, AtomicContainers
<1>8. CASE HDel(t)
  <2>1. /\ r.op = "hdel" /\ store' = AfterHDel(store, r.key, r.field)
        /\ Finish(t, HGetReply(store, r.key, r.field) # None)
    BY <1>8 DEF HDel, In
  <2>2. r.field \in Fields
    BY <1>1, <2>1, RequestFields
  <2>3. /\ Alike(store', AfterHDel(su, r.key, r.field))
        /\ AfterHDel(su, r.key, r.field) \in Stores
    BY <1>1, <1>3, <2>1, <2>2, SameHDel, HDelType
  <2> QED
    BY <1>6, <2>1, <2>3, AtomicContainers
<1>9. CASE HashRead(t)
  <2>1. /\ store' = store
        /\ \/ r.op = "hget" /\ Finish(t, HGetReply(store, r.key, r.field))
           \/ r.op = "hexists" /\ Finish(t, HGetReply(store, r.key, r.field) # None)
           \/ r.op = "hlen" /\ Finish(t, HLenReply(store, r.key))
           \/ r.op = "hgetall" /\ Finish(t, HGetAllReply(store, r.key))
    BY <1>9 DEF HashRead, In
  <2>2. HGetAllReply(store, r.key) = HGetAllReply(su, r.key)
    BY <1>6 DEF HGetAllReply
  <2>3. HLenReply(store, r.key) = HLenReply(su, r.key)
    BY <2>2 DEF HLenReply
  <2> QED
    BY <1>1, <1>6, <2>1, <2>2, <2>3, AtomicReads
<1>10. CASE LPush(t) \/ RPush(t)
  <2>1. \/ /\ r.op = "lpush" /\ store' = AfterLPush(store, r.key, r.val)
           /\ Finish(t, Len(ListOf(store', r.key)))
        \/ /\ r.op = "rpush" /\ store' = AfterRPush(store, r.key, r.val)
           /\ Finish(t, Len(ListOf(store', r.key)))
    BY <1>10 DEF LPush, RPush, In
  <2>2. r.val \in Values
    BY <1>1, <2>1, RequestFields
  <2>3. Len(ListOf(store', r.key)) = Len(ListOf(su, r.key)) + 1
    BY <1>1, <1>3, <1>6, <2>1, <2>2, PushLength
  <2>4. /\ Alike(AfterLPush(store, r.key, r.val), AfterLPush(su, r.key, r.val))
        /\ Alike(AfterRPush(store, r.key, r.val), AfterRPush(su, r.key, r.val))
        /\ AfterLPush(su, r.key, r.val) \in Stores
        /\ AfterRPush(su, r.key, r.val) \in Stores
    BY <1>1, <1>3, <2>2, SameList, PushType
  <2> QED
    BY <2>1, <2>3, <2>4, AtomicContainers
<1>11. CASE LPop(t) \/ RPop(t)
  <2>1. \/ /\ r.op = "lpop" /\ store' = AfterLPop(store, r.key)
           /\ Finish(t, LPopReply(store, r.key))
        \/ /\ r.op = "rpop" /\ store' = AfterRPop(store, r.key)
           /\ Finish(t, RPopReply(store, r.key))
    BY <1>11 DEF LPop, RPop, In
  <2>2. /\ LPopReply(store, r.key) = LPopReply(su, r.key)
        /\ RPopReply(store, r.key) = RPopReply(su, r.key)
    BY <1>6 DEF LPopReply, RPopReply
  <2>3. /\ Alike(AfterLPop(store, r.key), AfterLPop(su, r.key))
        /\ Alike(AfterRPop(store, r.key), AfterRPop(su, r.key))
        /\ AfterLPop(su, r.key) \in Stores /\ AfterRPop(su, r.key) \in Stores
    BY <1>1, <1>3, SamePop, PopType
  <2> QED
    BY <2>1, <2>2, <2>3, AtomicContainers
<1>12. CASE ListRead(t)
  <2>1. /\ store' = store
        /\ \/ r.op = "llen" /\ Finish(t, Len(ListOf(store, r.key)))
           \/ r.op = "lrange" /\ Finish(t, LRange(ListOf(store, r.key), r.start, r.stop))
    BY <1>12 DEF ListRead, In
  <2> QED
    BY <1>1, <1>6, <2>1, AtomicReads
<1> QED
  BY <1>7, <1>8, <1>9, <1>10, <1>11, <1>12

\* get's first section is, if it finds a live entry or none.
LEMMA GetLookupRefines ==
  ASSUME IInv, NEW t \in Threads, Section(t), GetLookup(t)
  PROVE  Atomic!Apply(t) \/ UNCHANGED Atomic!vars
<1> DEFINE r == req[t]
           n == now[t]
           e == store.str[r.key]
           su == Timeless(store)
<1>1. /\ r \in AllRequests /\ r # None /\ n \in Nat /\ store \in Stores
      /\ su \in Stores /\ Alike(store, su) /\ store' = store /\ store' \in Stores
  BY SectionMoves, InRequest, TimelessType, IdleAssumption DEF IInv, TypeOK, GetLookup, GoOn
<1>2. r.op = "get" /\ r.op \notin Walks /\ pc[t] = "run"
  BY DEF GetLookup, In, Walks
<1>3. OneKey(t) /\ Phase(t) = "pending" /\ r.key \in Keys
  BY <1>1, <1>2, PendingCalls, RequestFields
<1>4. Others(t) /\ Asked(t)' = Asked(t) /\ CalledAt(t)' = CalledAt(t)
  BY SectionOthers
<1>5. UNCHANGED <<clock, req, now>>
  BY SectionMoves DEF IInv
<1>6. Timeless(store)' = Timeless(store)
  BY <1>1
<1> HIDE DEF su
<1>7. ~Expired(e, n) => /\ Atomic!Effect(su, r, n) = su
                        /\ Atomic!Answer(su, r, n) = GetReply(store, r.key, n)
  BY <1>1, <1>2, <1>3, SameClock, SameReads, AtomicStrings
<1>8. CASE Finish(t, None) /\ e = None
  <2>1. ~Expired(e, n) /\ GetReply(store, r.key, n) = None
    BY <1>8 DEF Expired, GetReply, Live
  <2> QED
    BY <1>1, <1>3, <1>7, <1>8, <2>1, FinishApplies DEF su
<1>9. CASE GoOn(t, "touch", e.value) /\ Live(e, n)
  <2>1. ~Expired(e, n) /\ GetReply(store, r.key, n) = e.value
    BY <1>9 DEF GetReply, Live
  <2>2. pc'[t] = "touch" /\ ret'[t] = e.value
    BY <1>9 DEF GoOn, IInv, TypeOK, RetInv
  <2>3. Phase(t)' = "applied" /\ Replied(t)' = e.value
    BY <1>3, <1>5, <2>2 DEF Phase, Replied, OneKey
  <2>4. Asked(t) = r /\ CalledAt(t) = n /\ n \in CalledAt(t) .. clock
    BY <1>3, RequestAssumption DEF Asked, CalledAt, IInv, TypeOK, CallInv
  <2>5. Timeless(store)' = Atomic!Timeless(su)
    BY <1>1, SameTimeless, SameOperators
  <2> QED
    BY <1>3, <1>4, <1>5, <1>7, <2>1, <2>3, <2>4, <2>5, Applies DEF su
<1>10. CASE GoOn(t, "reap", None)
  <2>1. pc'[t] = "reap"
    BY <1>10 DEF GoOn, IInv, TypeOK
  <2>2. Phase(t)' = "pending"
    BY <1>2, <1>3, <1>5, <2>1 DEF Phase, OneKey
  <2>3. Replied(t)' = Replied(t)
    BY <1>3, <2>2 DEF Replied
  <2> QED
    BY <1>3, <1>4, <1>5, <1>6, <2>2, <2>3, Stutters DEF Still
<1> QED
  BY <1>8, <1>9, <1>10 DEF GetLookup

\* Then its second section is a stutter.
LEMMA GetTouchRefines ==
  ASSUME IInv, NEW t \in Threads, Section(t), GetTouch(t)
  PROVE  UNCHANGED Atomic!vars
<1> DEFINE r == req[t]
<1>1. /\ r \in AllRequests /\ r # None /\ now[t] \in Nat /\ store \in Stores /\ store' \in Stores
  BY SectionMoves, SectionStore, InRequest, IdleAssumption DEF IInv, TypeOK
<1>2. /\ r.op = "get" /\ r.op \notin Walks /\ pc[t] = "touch" /\ Finish(t, ret[t])
      /\ store' = AfterTouch(store, r.key, now[t])
  BY DEF GetTouch, In, Walks
<1>3. OneKey(t) /\ r.key \in Keys
  BY <1>1, <1>2, RequestFields DEF OneKey
<1>4. Others(t) /\ Asked(t)' = Asked(t) /\ CalledAt(t)' = CalledAt(t)
  BY SectionOthers
<1>5. UNCHANGED <<clock, req, now>>
  BY SectionMoves DEF IInv
<1>6. Timeless(store)' = Timeless(store)
  BY <1>1, <1>2, <1>3, SameTouch, SameTimeless
<1>7. pc'[t] = "done" /\ ret'[t] = ret[t]
  BY <1>2 DEF Finish, IInv, TypeOK, RetInv
<1>8. Phase(t) = "applied" /\ Phase(t)' = "applied"
  BY <1>2, <1>3, <1>5, <1>7 DEF Phase, OneKey
<1>9. Replied(t)' = Replied(t)
  BY <1>2, <1>7, <1>8 DEF Replied
<1> QED
  BY <1>4, <1>5, <1>6, <1>8, <1>9, Stutters DEF Still

\* ttl's first section is the instant, whatever it finds.
LEMMA TtlLookupRefines ==
  ASSUME IInv, NEW t \in Threads, Section(t), TtlLookup(t)
  PROVE  Atomic!Apply(t)
<1> DEFINE r == req[t]
           n == now[t]
           e == store.str[r.key]
           su == Timeless(store)
<1>1. /\ r \in AllRequests /\ r # None /\ n \in Nat /\ store \in Stores
      /\ su \in Stores /\ Alike(store, su) /\ store' = store /\ store' \in Stores
  BY SectionMoves, InRequest, TimelessType, IdleAssumption DEF IInv, TypeOK, TtlLookup, GoOn
<1>2. r.op = "ttl" /\ r.op \notin Walks /\ pc[t] = "run"
  BY DEF TtlLookup, In, Walks
<1>3. OneKey(t) /\ Phase(t) = "pending" /\ r.key \in Keys
  BY <1>1, <1>2, PendingCalls, RequestFields
<1>4. Others(t) /\ Asked(t)' = Asked(t) /\ CalledAt(t)' = CalledAt(t)
  BY SectionOthers
<1>5. UNCHANGED <<clock, req, now>>
  BY SectionMoves DEF IInv
<1> HIDE DEF su
<1>6. /\ Atomic!Effect(su, r, n) = su
      /\ Atomic!Answer(su, r, n) = TtlReply(store, r.key, n)
  BY <1>1, <1>2, <1>3, SameReads, AtomicStrings
<1>7. CASE Finish(t, TtlReply(store, r.key, n))
  BY <1>1, <1>3, <1>6, <1>7, FinishApplies DEF su
<1>8. CASE GoOn(t, "reap", None) /\ Expired(e, n)
  <2>1. TtlReply(store, r.key, n) = -2
    BY <1>8 DEF TtlReply, Expired
  <2>2. pc'[t] = "reap"
    BY <1>8 DEF GoOn, IInv, TypeOK
  <2>3. Phase(t)' = "applied" /\ Replied(t)' = -2
    BY <1>2, <1>3, <1>5, <2>2 DEF Phase, Replied, OneKey
  <2>4. Asked(t) = r /\ CalledAt(t) = n /\ n \in CalledAt(t) .. clock
    BY <1>3, RequestAssumption DEF Asked, CalledAt, IInv, TypeOK, CallInv
  <2>5. Timeless(store)' = Atomic!Timeless(su)
    BY <1>1, SameTimeless, SameOperators
  <2> QED
    BY <1>3, <1>4, <1>5, <1>6, <2>1, <2>3, <2>4, <2>5, Applies DEF su
<1> QED
  BY <1>7, <1>8 DEF TtlLookup

\* Entries that had expired when the clock was read lapse when they go.
LEMMA DeadLapse ==
  ASSUME IInv, NEW t \in Threads, Others(t), Still(t), UNCHANGED clock, store' \in Stores,
         NEW dead \in SUBSET Keys, \A k \in dead : Expired(store.str[k], now[t]),
         store'.hash = store.hash, store'.list = store.list,
         \A k \in Keys : store'.str[k] = IF k \in dead THEN None ELSE store.str[k]
  PROVE  (\E ks \in (SUBSET Keys) \ {{}} : Atomic!Lapse(ks)) \/ UNCHANGED Atomic!vars
<1> DEFINE su == Timeless(store)
<1>1. store \in Stores /\ su \in Stores /\ Alike(store, su)
  BY TimelessType DEF IInv, TypeOK
<1>2. Timeless(store)' = [su EXCEPT !.str = [k \in Keys |-> IF k \in dead THEN None ELSE @[k]]]
  BY <1>1, TimelessErase
<1> HIDE DEF su
<1>3. ASSUME NEW k \in dead PROVE Atomic!Expired(su.str[k], clock)
  <2>1. Expired(su.str[k], now[t])
    BY <1>1, SameClock, InRequest, RequestAssumption DEF IInv, TypeOK
  <2>2. su.str[k] \in Entries
    BY <1>1, <2>1 DEF Expired, Stores
  <2>3. su.str[k].expires_at \in Int
    BY <2>1, <2>2 DEF Expired, Entries
  <2>4. now[t] <= clock /\ now[t] \in Int /\ clock \in Int
    BY RequestAssumption DEF IInv, TypeOK, CallInv
  <2>5. Expired(su.str[k], clock)
    BY <2>1, <2>3, <2>4 DEF Expired
  <2> QED
    BY <2>5, SameOperators
<1>4. CASE dead = {}
  <2>1. Timeless(store)' = su
    BY <1>1, <1>2, <1>4 DEF Stores
  <2> QED
    BY <2>1, Stutters DEF su
<1>5. CASE dead # {}
  BY <1>2, <1>3, <1>5, Lapses DEF su
<1> QED
  BY <1>4, <1>5

\* The erasure in ttl is a lapse while its verdict stands.
LEMMA TtlReapRefines ==
  ASSUME IInv, NEW t \in Threads, Section(t), TtlReap(t), VerdictStands(t)
  PROVE  (\E ks \in (SUBSET Keys) \ {{}} : Atomic!Lapse(ks)) \/ UNCHANGED Atomic!vars
<1> DEFINE r == req[t]
           dead == IF store.str[r.key] = None THEN {} ELSE {r.key}
<1>1. /\ r \in AllRequests /\ r # None /\ now[t] \in Nat /\ store \in Stores /\ store' \in Stores
  BY SectionMoves, SectionStore, InRequest, IdleAssumption DEF IInv, TypeOK
<1>2. /\ r.op = "ttl" /\ r.op \notin Walks /\ pc[t] = "reap" /\ Finish(t, -2)
      /\ store' = AfterErase(store, r.key) /\ In(t, "ttl", "reap")
  BY DEF TtlReap, In, Walks
<1>3. OneKey(t) /\ r.key \in Keys
  BY <1>1, <1>2, RequestFields DEF OneKey
<1>4. Others(t) /\ Asked(t)' = Asked(t) /\ CalledAt(t)' = CalledAt(t)
  BY SectionOthers
<1>5. UNCHANGED <<clock, req, now>>
  BY SectionMoves DEF IInv
<1>6. pc'[t] = "done" /\ ret'[t] = -2
  BY <1>2 DEF Finish, IInv, TypeOK, RetInv
<1>7. Phase(t) = "applied" /\ Phase(t)' = "applied"
  BY <1>2, <1>3, <1>5, <1>6 DEF Phase, OneKey
<1>8. Still(t)
  BY <1>2, <1>4, <1>6, <1>7 DEF Still, Replied
<1>9. dead \in SUBSET Keys /\ \A k \in dead : Expired(store.str[k], now[t])
  BY <1>2, <1>3 DEF VerdictStands
<1>10. /\ store'.hash = store.hash /\ store'.list = store.list
       /\ \A k \in Keys : store'.str[k] = IF k \in dead THEN None ELSE store.str[k]
  BY <1>1, <1>2, <1>3 DEF AfterErase, Stores
<1> HIDE DEF dead
<1> QED
  BY <1>1, <1>4, <1>5, <1>8, <1>9, <1>10, DeadLapse

\* A purge is a lapse of many entries, an eviction takes its strings one by one,
\* and the other walks leave the abstract store alone.
LEMMA WalkRefines ==
  ASSUME IInv, NEW t \in Threads, Section(t), req[t].op \in Walks \ {"clear"}
  PROVE  \/ \E ks \in (SUBSET Keys) \ {{}} : Atomic!Lapse(ks)
         \/ \E k \in Keys : Atomic!Evict(k)
         \/ UNCHANGED Atomic!vars
<1>1. /\ req[t] \in AllRequests /\ req[t] # None /\ store \in Stores /\ store' \in Stores
      /\ now[t] \in Nat
  BY SectionMoves, SectionStore, InRequest, IdleAssumption DEF IInv, TypeOK
<1>2. ~OneKey(t) /\ ~OneKey(t)'
  BY SectionMoves DEF OneKey, IInv
<1>3. Others(t) /\ Still(t)
  BY <1>2, SectionOthers DEF Still, Phase, Replied
<1>4. UNCHANGED clock
  BY SectionMoves DEF IInv
<1>5. CASE store' = store
  BY <1>3, <1>4, <1>5, Stutters
<1>6. CASE PurgeShard(t)
  <2>1. PICK w \in Windows(shard[t], req[t].limit) : store' = [store EXCEPT !.str =
                   [k \in Keys |-> IF k \in {i \in w : Expired(store.str[i], now[t])}
                                   THEN None ELSE @[k]]]
    BY <1>6 DEF PurgeShard
  <2>4. w \in SUBSET Keys
    BY DEF Windows, KeysOf
  <2> DEFINE dead == {i \in w : Expired(store.str[i], now[t])}
  <2>2. /\ store'.hash = store.hash /\ store'.list = store.list
        /\ \A k \in Keys : store'.str[k] = IF k \in dead THEN None ELSE store.str[k]
    BY <1>1, <2>1 DEF Stores
  <2>3. dead \in SUBSET Keys /\ \A k \in dead : Expired(store.str[k], now[t])
    BY <2>4
  <2> HIDE DEF dead
  <2> QED
    BY <1>1, <1>3, <1>4, <2>2, <2>3, DeadLapse
<1>7. CASE EvictNext(t) /\ store' # store
  <2>1. PICK k : store' = AfterErase(store, k)
    BY <1>7 DEF EvictNext
  <2>2. k \in Keys /\ store.str[k] # None
    BY <1>1, <1>7, <2>1 DEF AfterErase, Stores
  <2>4. \E u \in Threads : req[u] # None /\ req[u].op = "evict"
    BY <1>1, <1>7 DEF EvictNext, In
  <2>5. Timeless(store).str[k] # None
    BY <1>1, <2>2, TimelessType DEF Alike
  <2>6. Timeless(store)' = AfterErase(Timeless(store), k)
    BY <1>1, <2>1, <2>2, TimelessEraseOne
  <2> QED
    BY <1>3, <1>4, <2>2, <2>4, <2>5, <2>6, SameOperators, Evicts
<1>8. store' = store \/ PurgeShard(t) \/ EvictNext(t)
  BY DEF Section, Walks, In, Set, GetLookup, GetTouch, GetReap, Del, Exists, Expire, TtlLookup,
         TtlReap, Incr, HSet, HDel, HashRead, LPush, RPush, LPop, RPop, ListRead, SizeShard,
         ClearShard, SnapshotShard, SampleShard, Sort
<1> QED
  BY <1>5, <1>6, <1>7, <1>8

-----------------------------------------------------------------------------
(* The refinement                                                          *)

\* A step of the abstract store, or none.
Refined == [Atomic!Next]_(Atomic!vars)

\* Every section is a step of the abstract store or a stutter.
LEMMA SectionRefines ==
  ASSUME IInv, NEW t \in Threads, Section(t), VerdictStands(t), req[t].op # "clear"
  PROVE  Refined
<1>1. Refined <=> Atomic!Next \/ UNCHANGED Atomic!vars
  BY DEF Refined
<1>2. ASSUME Atomic!Apply(t) PROVE Atomic!Next
  BY <1>2 DEF Atomic!Next
<1>3. ASSUME \/ \E ks \in (SUBSET Keys) \ {{}} : Atomic!Lapse(ks)
             \/ \E k \in Keys : Atomic!Evict(k)
      PROVE  Atomic!Next
  BY <1>3 DEF Atomic!Next
<1>4. CASE req[t].op \in Walks
  BY <1>1, <1>3, <1>4, WalkRefines
<1>5. CASE req[t].op \notin Walks
  <2>1. \/ Set(t) \/ GetReap(t) \/ Del(t) \/ Exists(t) \/ Expire(t) \/ Incr(t)
        \/ HSet(t) \/ HDel(t) \/ HashRead(t)
        \/ LPush(t) \/ RPush(t) \/ LPop(t) \/ RPop(t) \/ ListRead(t)
        \/ GetLookup(t) \/ GetTouch(t) \/ TtlLookup(t) \/ TtlReap(t)
    BY <1>5 DEF Section, Walks, In, SizeShard, ClearShard, PurgeShard, SnapshotShard,
                SampleShard, Sort, EvictNext
  <2> QED
    BY <1>1, <1>2, <1>3, <2>1, StringSections, ContainerSections, GetLookupRefines,
       GetTouchRefines, TtlLookupRefines, TtlReapRefines
<1> QED
  BY <1>4, <1>5

\* So is a call,
LEMMA CallRefines ==
  ASSUME IInv, NEW t \in Threads, NEW r \in AllRequests, Call(t, r),
         r.op \notin Walks => r \in Requests
  PROVE  Refined
<1>1. /\ pc[t] = "idle" /\ req[t] = None /\ r # None /\ UNCHANGED <<store, clock>>
      /\ req'[t] = r /\ now'[t] = clock /\ pc'[t] = "run"
  BY IdleAssumption DEF Call, IInv, TypeOK, CallInv
<1>2. \A u \in Threads \ {t} : req'[u] = req[u] /\ now'[u] = now[u] /\ pc'[u] = pc[u]
                              /\ ret'[u] = ret[u]
  BY DEF Call, IInv, TypeOK, RetInv
<1>3. Others(t)
  BY <1>2 DEF Others, Phase, Asked, CalledAt, Replied, OneKey
<1>4. ~OneKey(t) /\ Phase(t) = "idle" /\ Asked(t) = None /\ CalledAt(t) = 0 /\ Replied(t) = None
  BY <1>1 DEF OneKey, Phase, Asked, CalledAt, Replied
<1>5. CASE r.op \in Walks
  <2>1. ~OneKey(t)'
    BY <1>1, <1>5 DEF OneKey
  <2>2. Still(t)
    BY <1>4, <2>1 DEF Still, Phase, Asked, CalledAt, Replied
  <2> QED
    BY <1>1, <1>3, <2>2, Stutters DEF Refined
<1>6. CASE r.op \notin Walks
  <2>1. OneKey(t)'
    BY <1>1, <1>6 DEF OneKey
  <2>2. Phase(t)' = "pending" /\ Asked(t)' = r /\ CalledAt(t)' = clock /\ Replied(t)' = None
    BY <1>1, <2>1 DEF Phase, Asked, CalledAt, Replied
  <2>3. r \in {q \in Requests : q.op \notin Walks}
    BY <1>6
  <2>4. Atomic!Invoke(t, r)
    BY <1>1, <1>3, <1>4, <2>2, <2>3, Invokes
  <2> QED
    BY <2>3, <2>4 DEF Refined, Atomic!Next
<1> QED
  BY <1>5, <1>6

\* a return,
LEMMA ReturnRefines ==
  ASSUME IInv, NEW t \in Threads, Return(t)
  PROVE  Refined
<1>1. /\ pc[t] = "done" /\ req[t] # None /\ UNCHANGED <<store, clock>>
      /\ req'[t] = None /\ now'[t] = 0
  BY DEF Return, IInv, TypeOK, CallInv
<1>2. \A u \in Threads \ {t} : req'[u] = req[u] /\ now'[u] = now[u] /\ pc'[u] = pc[u]
                              /\ ret'[u] = ret[u]
  BY DEF Return, IInv, TypeOK, RetInv
<1>3. Others(t)
  BY <1>2 DEF Others, Phase, Asked, CalledAt, Replied, OneKey
<1>4. ~OneKey(t)'
  BY <1>1 DEF OneKey
<1>5. Phase(t)' = "idle" /\ Asked(t)' = None /\ CalledAt(t)' = 0 /\ Replied(t)' = None
  BY <1>4 DEF Phase, Asked, CalledAt, Replied
<1>6. CASE OneKey(t)
  <2>1. Phase(t) = "applied"
    BY <1>1, <1>6 DEF Phase
  <2>2. Atomic!Respond(t)
    BY <1>1, <1>3, <1>5, <2>1, Responds
  <2> QED
    BY <2>2 DEF Refined, Atomic!Next
<1>7. CASE ~OneKey(t)
  <2>1. Still(t)
    BY <1>5, <1>7 DEF Still, Phase, Asked, CalledAt, Replied
  <2> QED
    BY <1>1, <1>3, <2>1, Stutters DEF Refined
<1> QED
  BY <1>6, <1>7

\* and the passage of time.
LEMMA TickRefines == ASSUME Tick \/ UNCHANGED vars PROVE Refined
<1>1. ASSUME NEW u \in Threads
      PROVE  /\ Phase(u)' = Phase(u) /\ Asked(u)' = Asked(u)
             /\ CalledAt(u)' = CalledAt(u) /\ Replied(u)' = Replied(u)
  BY DEF Tick, vars, Phase, Asked, CalledAt, Replied, OneKey
<1>2. /\ [u \in Threads |-> Phase(u)]' = [u \in Threads |-> Phase(u)]
      /\ [u \in Threads |-> Asked(u)]' = [u \in Threads |-> Asked(u)]
      /\ [u \in Threads |-> CalledAt(u)]' = [u \in Threads |-> CalledAt(u)]
      /\ [u \in Threads |-> Replied(u)]' = [u \in Threads |-> Replied(u)]
  BY <1>1
<1>3. Timeless(store)' = Timeless(store)
  BY DEF Tick, vars
<1>4. CASE Tick
  <2>1. Atomic!Tick
    BY <1>2, <1>3, <1>4 DEF Tick, Atomic!Tick
  <2> QED
    BY <2>1 DEF Refined, Atomic!Next
<1>5. CASE UNCHANGED vars
  BY <1>2, <1>3, <1>5 DEF vars, Refined, Atomic!vars
<1> QED
  BY <1>4, <1>5

\* The store begins empty in both.
LEMMA InitRefines == Init => Atomic!Init
<1> SUFFICES ASSUME Init PROVE Atomic!Init
  OBVIOUS
<1>1. \A u \in Threads : ~OneKey(u)
  BY DEF Init, OneKey
<1>2. \A u \in Threads : Phase(u) = "idle" /\ Asked(u) = None /\ CalledAt(u) = 0 /\ Replied(u) = None
  BY <1>1 DEF Phase, Asked, CalledAt, Replied
<1>3. Timeless(EmptyStore) = EmptyStore
  BY DEF Timeless, EmptyStore
<1> QED
  BY <1>2, <1>3 DEF Init, Atomic!Init, Atomic!EmptyStore, EmptyStore

\* The methods on one key (KeyValueStore.cpp:9-336) are linearizable, each in
\* the section Linearizable names, with any number of threads, purges,
\* evictions, sizes and snapshots in the store.  Left out are ttl, which may
\* erase an entry written after it has looked (127-131), and clear, which
\* empties the shards one after another.
THEOREM LinearizableWithoutTtl ==
  ASSUME "ttl" \notin Ops, "clear" \notin Ops
  PROVE  Spec => Linearizable
<1>1. IInv /\ OpsInv /\ [Next]_vars => Refined
  <2> SUFFICES ASSUME IInv, OpsInv, [Next]_vars PROVE Refined
    OBVIOUS
  <2>1. ASSUME NEW t \in Threads, NEW r \in Requests, Call(t, r) PROVE Refined
    BY <2>1, CallRefines DEF Requests
  <2>2. ASSUME NEW t \in Threads, Section(t) PROVE Refined
    <3>1. req[t].op # "clear"
      BY <2>2, SectionMoves DEF OpsInv, IInv, CallInv
    <3> QED
      BY <2>2, <3>1, VerdictsStand, SectionRefines
  <2> QED
    BY <2>1, <2>2, ReturnRefines, TickRefines DEF Next
<1> QED
  BY Invariance, OnlyOps, InitRefines, <1>1, PTL DEF Spec, Linearizable, Atomic!Spec, Refined
=============================================================================
