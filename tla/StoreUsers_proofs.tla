-------------------------- MODULE StoreUsers_proofs --------------------------
(***************************************************************************)
(* What the store promises those who use it, whatever other threads call   *)
(* meanwhile, proved for every number of threads, keys and shards.         *)
(*                                                                         *)
(* The methods over all shards see each shard at another time.  Of the     *)
(* shards that size, clear or get_snapshot has behind it, the invariant    *)
(* says that they have been dealt with: counted, cleared or copied.  What  *)
(* is there now lies between the two histories, so a section deals with    *)
(* its shard as well.  Of an eviction, it says that the sample has what is *)
(* there in the shards visited, with the time of its last use, and that    *)
(* the victims left are in the order of their use; a string that is used   *)
(* meanwhile is excused.                                                   *)
(*                                                                         *)
(* Of the server with its janitor: the excess over max_keys is never       *)
(* negative; main() destroys the store only when nobody is inside; and     *)
(* with one client, which is what the reactor thread is, every method on   *)
(* one key is linearizable and asking changes nothing, ttl included.       *)
(* JanitorInv makes them inductive: where the janitor's loop is says what  *)
(* it is doing inside the store, and size has counted some number of keys  *)
(* so far.                                                                 *)
(***************************************************************************)
EXTENDS Janitor, ShardWalks, EvictionOrder, KeyValueStore_proofs, FiniteSetTheorems

-----------------------------------------------------------------------------
(* The methods over all shards                                             *)

\* The names of keys in one shard, and in those a walk has visited.
InShard(S, s) == {n \in S : ShardOf[n[2]] = s}
Before(S, s)  == {n \in S : ShardOf[n[2]] < s}

AllNames == {"str", "hash", "list"} \X Keys

\* What is there lies between the histories.
HistInv == \A t \in Threads :
  /\ ~Walking(t) => always[t] = {} /\ ever[t] = {}
  /\ always[t] \subseteq Names(Found(t))
  /\ Found(t) \subseteq ever[t]
  /\ Names(ever[t]) \subseteq AllNames
  /\ Walking(t) => pc[t] \in {"run", "done"}
  /\ Walking(t) /\ pc[t] = "done" => shard[t] = NumShards

\* Nothing that was there all the time is in a shard that was cleared.
ClearInv == \A t \in Threads : Walking(t) /\ req[t].op = "clear" =>
  Before(always[t], shard[t]) = {}

\* What was there all the time was copied, and what was copied was there.
SnapshotInv == \A t \in Threads : Walking(t) /\ req[t].op = "snapshot" =>
  /\ Before(always[t], shard[t]) \subseteq Names(ret[t])
  /\ ret[t] \subseteq ever[t]

\* The count so far is one of the shards visited.
SizeInv == \A t \in Threads : Walking(t) /\ req[t].op = "size" =>
  /\ ret[t] \in Nat
  /\ Cardinality(Before(always[t], shard[t])) <= ret[t]
  /\ ret[t] <= Cardinality(Before(Names(ever[t]), shard[t]))

-----------------------------------------------------------------------------
(* Names                                                                   *)

LEMMA NamesOfMap ==
  ASSUME NEW m, NEW K, NEW C,
         \A c \in C : c[1] = m /\ c[2] \in K,
         \A k \in K : \E c \in C : c[1] = m /\ c[2] = k
  PROVE  Names(C) = {<<m, k>> : k \in K}
<1>1. \A c \in C : <<c[1], c[2]>> \in {<<m, k>> : k \in K}
  OBVIOUS
<1>2. \A k \in K : <<m, k>> \in {<<c[1], c[2]>> : c \in C}
  OBVIOUS
<1> QED
  BY <1>1, <1>2 DEF Names

\* The names of what a walk finds, map by map.
LEMMA NamesOfContents ==
  ASSUME NEW st, NEW at
  PROVE  Names(Contents(st, at)) =
                {<<"str",  k>> : k \in {j \in Keys : Live(st.str[j], at)}}
           \cup {<<"hash", k>> : k \in {j \in Keys : st.hash[j] # None}}
           \cup {<<"list", k>> : k \in {j \in Keys : st.list[j] # None}}
<1> DEFINE S == {<<"str",  k, st.str[k].value>> : k \in {j \in Keys : Live(st.str[j], at)}}
           H == {<<"hash", k, st.hash[k]>> : k \in {j \in Keys : st.hash[j] # None}}
           L == {<<"list", k, st.list[k]>> : k \in {j \in Keys : st.list[j] # None}}
<1>1. Names(S \cup H \cup L) = Names(S) \cup Names(H) \cup Names(L)
  BY Zenon DEF Names
<1>2. Names(S) = {<<"str", k>> : k \in {j \in Keys : Live(st.str[j], at)}}
  <2> DEFINE K == {j \in Keys : Live(st.str[j], at)}
  <2>1. \A k \in K : <<"str", k, st.str[k].value>> \in S
    OBVIOUS
  <2>2. \A c \in S : \E k \in K : c = <<"str", k, st.str[k].value>>
    OBVIOUS
  <2> HIDE DEF K, S
  <2>3. \A c \in S : c[1] = "str" /\ c[2] \in K
    BY <2>2
  <2>4. \A k \in K : \E c \in S : c[1] = "str" /\ c[2] = k
    BY <2>1
  <2>5. Names(S) = {<<"str", k>> : k \in K}
    BY <2>3, <2>4, NamesOfMap
  <2> QED
    BY <2>5 DEF K
<1>3. Names(H) = {<<"hash", k>> : k \in {j \in Keys : st.hash[j] # None}}
  <2> DEFINE K == {j \in Keys : st.hash[j] # None}
  <2>1. \A k \in K : <<"hash", k, st.hash[k]>> \in H
    OBVIOUS
  <2>2. \A c \in H : \E k \in K : c = <<"hash", k, st.hash[k]>>
    OBVIOUS
  <2> HIDE DEF K, H
  <2>3. \A c \in H : c[1] = "hash" /\ c[2] \in K
    BY <2>2
  <2>4. \A k \in K : \E c \in H : c[1] = "hash" /\ c[2] = k
    BY <2>1
  <2>5. Names(H) = {<<"hash", k>> : k \in K}
    BY <2>3, <2>4, NamesOfMap
  <2> QED
    BY <2>5 DEF K
<1>4. Names(L) = {<<"list", k>> : k \in {j \in Keys : st.list[j] # None}}
  <2> DEFINE K == {j \in Keys : st.list[j] # None}
  <2>1. \A k \in K : <<"list", k, st.list[k]>> \in L
    OBVIOUS
  <2>2. \A c \in L : \E k \in K : c = <<"list", k, st.list[k]>>
    OBVIOUS
  <2> HIDE DEF K, L
  <2>3. \A c \in L : c[1] = "list" /\ c[2] \in K
    BY <2>2
  <2>4. \A k \in K : \E c \in L : c[1] = "list" /\ c[2] = k
    BY <2>1
  <2>5. Names(L) = {<<"list", k>> : k \in K}
    BY <2>3, <2>4, NamesOfMap
  <2> QED
    BY <2>5 DEF K
<1>5. Contents(st, at) = S \cup H \cup L
  BY DEF Contents
<1> QED
  BY <1>1, <1>2, <1>3, <1>4, <1>5

LEMMA NamesAreNames ==
  ASSUME NEW st, NEW at
  PROVE  Names(Contents(st, at)) \subseteq AllNames
BY NamesOfContents DEF AllNames

LEMMA NamesOfUnion == ASSUME NEW A, NEW B PROVE Names(A \cup B) = Names(A) \cup Names(B)
BY Zenon DEF Names

LEMMA NamesOfMore == ASSUME NEW A, NEW B, A \subseteq B PROVE Names(A) \subseteq Names(B)
BY DEF Names

\* One shard more is behind.
LEMMA BeforeNext ==
  ASSUME NEW S, S \subseteq AllNames, NEW s \in Nat
  PROVE  /\ Before(S, s + 1) = Before(S, s) \cup InShard(S, s)
         /\ Before(S, s) \cap InShard(S, s) = {}
<1>1. \A n \in S : ShardOf[n[2]] \in Int
  BY ShardAssumption DEF AllNames
<1> QED
  BY <1>1 DEF Before, InShard

\* Every shard is behind.
LEMMA BeforeAll == ASSUME NEW S, S \subseteq AllNames PROVE Before(S, NumShards) = S
<1>1. \A n \in S : ShardOf[n[2]] \in 0 .. NumShards - 1
  BY ShardAssumption DEF AllNames
<1>2. NumShards \in Nat
  BY ShardAssumption
<1> QED
  BY <1>1, <1>2 DEF Before

LEMMA BeforeNone == ASSUME NEW S, S \subseteq AllNames PROVE Before(S, 0) = {}
<1>1. \A n \in S : ShardOf[n[2]] \in 0 .. NumShards - 1
  BY ShardAssumption DEF AllNames
<1>2. NumShards \in Nat
  BY ShardAssumption
<1> QED
  BY <1>1, <1>2 DEF Before

-----------------------------------------------------------------------------
(* Counting                                                                *)

LEMMA CountPairs ==
  ASSUME NEW m, NEW K, IsFiniteSet(K)
  PROVE  /\ IsFiniteSet({<<m, k>> : k \in K})
         /\ Cardinality({<<m, k>> : k \in K}) = Cardinality(K)
<1> DEFINE P == {<<m, k>> : k \in K}
<1>1. P = {m} \X K
  OBVIOUS
<1> HIDE DEF P
<1>2. IsFiniteSet({m}) /\ Cardinality({m}) = 1
  BY FS_Singleton
<1>3. IsFiniteSet({m} \X K) /\ Cardinality({m} \X K) = Cardinality({m}) * Cardinality(K)
  BY <1>2, FS_Product
<1>4. Cardinality(K) \in Nat
  BY FS_CardinalityType
<1>5. IsFiniteSet(P) /\ Cardinality(P) = Cardinality(K)
  BY <1>1, <1>2, <1>3, <1>4
<1> QED
  BY <1>5 DEF P

LEMMA CountApart ==
  ASSUME NEW A, IsFiniteSet(A), NEW B, IsFiniteSet(B), A \cap B = {}
  PROVE  /\ IsFiniteSet(A \cup B)
         /\ Cardinality(A \cup B) = Cardinality(A) + Cardinality(B)
<1>1. Cardinality(A \cap B) = 0
  BY FS_EmptySet
<1>2. Cardinality(A) \in Nat /\ Cardinality(B) \in Nat
  BY FS_CardinalityType
<1>3. /\ IsFiniteSet(A \cup B)
      /\ Cardinality(A \cup B) = Cardinality(A) + Cardinality(B) - Cardinality(A \cap B)
  BY FS_Union
<1> QED
  BY <1>1, <1>2, <1>3

LEMMA CountMore ==
  ASSUME NEW B, IsFiniteSet(B), NEW A, A \subseteq B
  PROVE  /\ IsFiniteSet(A) /\ Cardinality(A) \in Nat /\ Cardinality(B) \in Nat
         /\ Cardinality(A) <= Cardinality(B)
BY FS_Subset, FS_CardinalityType

LEMMA NamesAreFinite ==
  ASSUME IsFiniteSet(Keys)
  PROVE  IsFiniteSet(AllNames)
<1> DEFINE A == {"str"}
           B == {"hash"}
           C == {"list"}
<1>1. {"str", "hash", "list"} = (A \cup B) \cup C
  OBVIOUS
<1>2. IsFiniteSet(A) /\ IsFiniteSet(B) /\ IsFiniteSet(C)
  BY FS_Singleton
<1> HIDE DEF A, B, C
<1>3. IsFiniteSet(A \cup B)
  BY <1>2, FS_Union
<1>4. IsFiniteSet((A \cup B) \cup C)
  BY <1>2, <1>3, FS_Union
<1> QED
  BY <1>1, <1>4, FS_Product DEF AllNames

\* What size adds for a shard is the number of names a walk finds in it.
LEMMA CountOfShard ==
  ASSUME IsFiniteSet(Keys), NEW st, NEW s, NEW at
  PROVE  ShardCount(st, s, at) = Cardinality(InShard(Names(Contents(st, at)), s))
<1> DEFINE S == {k \in KeysOf(s) : Live(st.str[k], at)}
           H == {k \in KeysOf(s) : st.hash[k] # None}
           L == {k \in KeysOf(s) : st.list[k] # None}
           NS == {<<"str", k>> : k \in S}
           NH == {<<"hash", k>> : k \in H}
           NL == {<<"list", k>> : k \in L}
<1>1. IsFiniteSet(S) /\ IsFiniteSet(H) /\ IsFiniteSet(L)
  <2>1. S \subseteq Keys /\ H \subseteq Keys /\ L \subseteq Keys
    BY DEF KeysOf
  <2> HIDE DEF S, H, L
  <2> QED
    BY <2>1, FS_Subset
<1>2. InShard(Names(Contents(st, at)), s) = NS \cup NH \cup NL
  BY NamesOfContents DEF InShard, KeysOf
<1>3. ShardCount(st, s, at) = Cardinality(S) + Cardinality(H) + Cardinality(L)
  BY DEF ShardCount
<1>4. NS \cap NH = {} /\ (NS \cup NH) \cap NL = {}
  OBVIOUS
<1> HIDE DEF S, H, L
<1>5. /\ IsFiniteSet(NS) /\ Cardinality(NS) = Cardinality(S)
      /\ IsFiniteSet(NH) /\ Cardinality(NH) = Cardinality(H)
      /\ IsFiniteSet(NL) /\ Cardinality(NL) = Cardinality(L)
  BY <1>1, CountPairs
<1> HIDE DEF NS, NH, NL
<1>6. IsFiniteSet(NS \cup NH) /\ Cardinality(NS \cup NH) = Cardinality(NS) + Cardinality(NH)
  BY <1>4, <1>5, CountApart
<1>7. Cardinality((NS \cup NH) \cup NL) = Cardinality(NS \cup NH) + Cardinality(NL)
  BY <1>4, <1>5, <1>6, CountApart
<1> QED
  BY <1>2, <1>3, <1>5, <1>6, <1>7

-----------------------------------------------------------------------------
(* Steps                                                                   *)

\* A walk has no other section than its own.
LEMMA WalkSection ==
  ASSUME NEW t \in Threads, Walking(t), Section(t)
  PROVE  SizeShard(t) \/ ClearShard(t) \/ SnapshotShard(t)
<1> USE DEF Walking, In
<1>1. CASE Set(t) \/ GetLookup(t) \/ GetTouch(t) \/ GetReap(t)
  BY <1>1 DEF Set, GetLookup, GetTouch, GetReap
<1>2. CASE Del(t) \/ Exists(t) \/ Expire(t) \/ TtlLookup(t) \/ TtlReap(t) \/ Incr(t)
  BY <1>2 DEF Del, Exists, Expire, TtlLookup, TtlReap, Incr
<1>3. CASE HSet(t) \/ HDel(t) \/ HashRead(t)
  BY <1>3 DEF HSet, HDel, HashRead
<1>4. CASE LPush(t) \/ RPush(t) \/ LPop(t) \/ RPop(t) \/ ListRead(t)
  BY <1>4 DEF LPush, RPush, LPop, RPop, ListRead
<1>5. CASE PurgeShard(t) \/ SampleShard(t) \/ Sort(t) \/ EvictNext(t)
  BY <1>5 DEF PurgeShard, SampleShard, Sort, EvictNext
<1> QED
  BY <1>1, <1>2, <1>3, <1>4, <1>5 DEF Section

LEMMA WalkMoves ==
  ASSUME TypeOK, RetInv, NEW t \in Threads, NEW found, Walk(t, found)
  PROVE  /\ UNCHANGED <<req, now>>
         /\ shard'[t] = shard[t] + 1
         /\ pc'[t] = IF shard[t] + 1 = NumShards THEN "done" ELSE "run"
         /\ ret'[t] = found
BY DEF TypeOK, RetInv, Walk, Frame

\* What a step does to the call of a thread.
Rest(t) == /\ req'[t] = req[t] /\ now'[t] = now[t] /\ pc'[t] = pc[t]
           /\ shard'[t] = shard[t] /\ ret'[t] = ret[t]

LEMMA StepOf ==
  ASSUME IInv, Next, NEW t \in Threads
  PROVE  \/ Rest(t)
         \/ \E r \in Requests : Call(t, r)
         \/ Section(t)
         \/ Return(t)
<1>1. CASE Tick
  BY <1>1 DEF Tick, Rest
<1>2. ASSUME NEW u \in Threads, u # t, NEW r \in Requests, Call(u, r) PROVE Rest(t)
  BY <1>2 DEF Call, Rest, IInv, TypeOK, RetInv
<1>3. ASSUME NEW u \in Threads, u # t, Return(u) PROVE Rest(t)
  BY <1>3 DEF Return, Rest, IInv, TypeOK, RetInv
<1>4. ASSUME NEW u \in Threads, u # t, Section(u) PROVE Rest(t)
  <2>1. /\ UNCHANGED <<clock, req, now>>
        /\ \E p \in Busy : pc' = [pc EXCEPT ![u] = p]
        /\ \E found : ret' = [ret EXCEPT ![u] = found]
        /\ UNCHANGED shard \/ shard' = [shard EXCEPT ![u] = @ + 1]
    BY <1>4, SectionMoves DEF IInv
  <2> QED
    BY <1>4, <2>1 DEF Rest, IInv, TypeOK, RetInv
<1> QED
  BY <1>1, <1>2, <1>3, <1>4 DEF Next

-----------------------------------------------------------------------------
(* The histories                                                           *)

LEMMA FoundNames ==
  ASSUME NEW t \in Threads
  PROVE  Names(Found(t)) \subseteq AllNames /\ Names(Found(t)') \subseteq AllNames
<1>1. Names({}) = {}
  BY DEF Names
<1>2. Names(Contents(store, now[t])) \subseteq AllNames
  BY NamesAreNames
<1>3. Names(Contents(store', now'[t])) \subseteq AllNames
  BY NamesAreNames
<1>4. Found(t) = {} \/ Found(t) = Contents(store, now[t])
  BY DEF Found
<1>5. Found(t)' = {} \/ Found(t)' = Contents(store', now'[t])
  BY DEF Found
<1> QED
  BY <1>1, <1>2, <1>3, <1>4, <1>5

\* How the histories go on: narrower, wider, and around what is there.
LEMMA Recorded ==
  ASSUME HistInv, Record, NEW t \in Threads
  PROVE  /\ always'[t] \subseteq Names(Found(t)')
         /\ Found(t)' \subseteq ever'[t]
         /\ Names(ever'[t]) \subseteq AllNames
         /\ ~Walking(t)' => always'[t] = {} /\ ever'[t] = {}
         /\ Walking(t) /\ Walking(t)' =>
              always'[t] \subseteq always[t] /\ ever[t] \subseteq ever'[t]
<1>1. /\ always'[t] = IF Walking(t) THEN always[t] \cap Names(Found(t)') ELSE Names(Found(t)')
      /\ ever'[t] = IF Walking(t)' THEN ever[t] \cup Found(t)' ELSE {}
  BY DEF Record
<1>2. Names({}) = {}
  BY DEF Names
<1>3. ~Walking(t)' => Found(t)' = {}
  BY DEF Found
<1>4. Names(ever[t] \cup Found(t)') = Names(ever[t]) \cup Names(Found(t)')
  BY NamesOfUnion
<1>5. Names(ever[t]) \subseteq AllNames
  BY DEF HistInv
<1>6. Names(ever'[t]) \subseteq AllNames
  BY <1>1, <1>2, <1>4, <1>5, FoundNames
<1> QED
  BY <1>1, <1>2, <1>3, <1>6

\* Where a walk is, step by step.
LEMMA WalkGoesOn ==
  ASSUME IInv, HistInv, Next, NEW t \in Threads, Walking(t)'
  PROVE  \/ Rest(t) /\ Walking(t)
         \/ ~Walking(t) /\ \E r \in Requests : Call(t, r)
         \/ /\ Walking(t) /\ (SizeShard(t) \/ ClearShard(t) \/ SnapshotShard(t))
            /\ UNCHANGED <<req, now>> /\ shard'[t] = shard[t] + 1
            /\ pc[t] = "run"
            /\ pc'[t] = IF shard[t] + 1 = NumShards THEN "done" ELSE "run"
<1>1. CASE Rest(t)
  BY <1>1 DEF Rest, Walking
<1>2. CASE \E r \in Requests : Call(t, r)
  <2>1. req[t] = None
    BY <1>2 DEF Call, IInv, CallInv
  <2> QED
    BY <1>2, <2>1 DEF Walking
<1>3. CASE Return(t)
  <2>1. req'[t] = None
    BY <1>3 DEF Return, IInv, TypeOK
  <2> QED
    BY <2>1 DEF Walking
<1>4. CASE Section(t)
  <2>1. UNCHANGED <<req, now>>
    BY <1>4, SectionMoves DEF IInv
  <2>2. Walking(t)
    BY <2>1 DEF Walking
  <2>3. SizeShard(t) \/ ClearShard(t) \/ SnapshotShard(t)
    BY <1>4, <2>2, WalkSection
  <2>4. pc[t] = "run" /\ \E found : Walk(t, found)
    BY <2>3 DEF SizeShard, ClearShard, SnapshotShard, In
  <2>5. /\ shard'[t] = shard[t] + 1
        /\ pc'[t] = IF shard[t] + 1 = NumShards THEN "done" ELSE "run"
    BY <2>4, WalkMoves DEF IInv
  <2> QED
    BY <2>1, <2>2, <2>3, <2>4, <2>5
<1> QED
  BY <1>1, <1>2, <1>3, <1>4, StepOf

LEMMA HistStep == ASSUME IInv, HistInv, WalkNext PROVE HistInv'
<1> SUFFICES ASSUME NEW t \in Threads
             PROVE  (/\ ~Walking(t) => always[t] = {} /\ ever[t] = {}
                     /\ always[t] \subseteq Names(Found(t))
                     /\ Found(t) \subseteq ever[t]
                     /\ Names(ever[t]) \subseteq AllNames
                     /\ Walking(t) => pc[t] \in {"run", "done"}
                     /\ Walking(t) /\ pc[t] = "done" => shard[t] = NumShards)'
  BY DEF HistInv
<1>1. Next /\ Record
  BY DEF WalkNext
<1>2. Walking(t)' => pc'[t] \in {"run", "done"}
  <2> SUFFICES ASSUME Walking(t)' PROVE pc'[t] \in {"run", "done"}
    OBVIOUS
  <2>1. CASE Rest(t) /\ Walking(t)
    BY <2>1 DEF Rest, HistInv
  <2>2. CASE \E r \in Requests : Call(t, r)
    BY <2>2 DEF Call, IInv, TypeOK
  <2> QED
    BY <1>1, <2>1, <2>2, WalkGoesOn
<1>3. Walking(t)' /\ pc'[t] = "done" => shard'[t] = NumShards
  <2> SUFFICES ASSUME Walking(t)', pc'[t] = "done" PROVE shard'[t] = NumShards
    OBVIOUS
  <2>1. CASE Rest(t) /\ Walking(t)
    BY <2>1 DEF Rest, HistInv
  <2>2. CASE \E r \in Requests : Call(t, r)
    BY <2>2 DEF Call, IInv, TypeOK
  <2> QED
    BY <1>1, <2>1, <2>2, WalkGoesOn
<1> QED
  BY <1>1, <1>2, <1>3, Recorded

-----------------------------------------------------------------------------
(* clear                                                                   *)

\* A name found in a store is not in a shard just cleared.
LEMMA ClearedIsEmpty ==
  ASSUME NEW st, NEW s, NEW at
  PROVE  InShard(Names(Contents(AfterClear(st, s), at)), s) = {}
<1> DEFINE after == AfterClear(st, s)
<1>1. \A k \in Keys : ShardOf[k] = s =>
        after.str[k] = None /\ after.hash[k] = None /\ after.list[k] = None
  BY DEF AfterClear, KeysOf
<1> HIDE DEF after
<1>2. \A k \in Keys : ShardOf[k] = s => ~Live(after.str[k], at)
  BY <1>1 DEF Live
<1> QED
  BY <1>1, <1>2, NamesOfContents DEF InShard, after

LEMMA BeforeLess == ASSUME NEW A, NEW B, A \subseteq B, NEW s
                    PROVE  Before(A, s) \subseteq Before(B, s) /\ InShard(A, s) \subseteq InShard(B, s)
BY DEF Before, InShard

\* A walk that begins has nothing behind it.
LEMMA CallBegins ==
  ASSUME IInv, NEW t \in Threads, NEW r \in Requests, Call(t, r)
  PROVE  /\ req'[t] = r /\ now'[t] = clock /\ shard'[t] = 0
         /\ ret'[t] = NothingYet(r)
BY DEF Call, IInv, TypeOK, CallInv, RetInv

LEMMA ClearStep == ASSUME IInv, HistInv, ClearInv, WalkNext PROVE ClearInv'
<1> SUFFICES ASSUME NEW t \in Threads, Walking(t)', req'[t].op = "clear"
             PROVE  Before(always'[t], shard'[t]) = {}
  BY DEF ClearInv
<1>1. Next /\ Record
  BY DEF WalkNext
<1>2. /\ always'[t] \subseteq Names(Found(t)')
      /\ always'[t] \subseteq AllNames
      /\ Walking(t) => always'[t] \subseteq always[t]
  BY <1>1, Recorded, FoundNames
<1>3. CASE Rest(t) /\ Walking(t)
  <2>1. Before(always[t], shard[t]) = {}
    BY <1>3 DEF ClearInv, Rest
  <2> QED
    BY <1>2, <1>3, <2>1, BeforeLess DEF Rest
<1>4. CASE \E r \in Requests : Call(t, r)
  BY <1>2, <1>4, CallBegins, BeforeNone
<1>5. CASE /\ Walking(t) /\ (SizeShard(t) \/ ClearShard(t) \/ SnapshotShard(t))
           /\ UNCHANGED <<req, now>> /\ shard'[t] = shard[t] + 1
  <2>1. store' = AfterClear(store, shard[t])
    BY <1>5 DEF SizeShard, ClearShard, SnapshotShard, In
  <2>2. Found(t)' = Contents(AfterClear(store, shard[t]), now[t])
    BY <1>5, <2>1 DEF Found
  <2>3. InShard(Names(Found(t)'), shard[t]) = {}
    BY <2>2, ClearedIsEmpty
  <2>4. InShard(always'[t], shard[t]) = {}
    BY <1>2, <2>3, BeforeLess
  <2>5. Before(always[t], shard[t]) = {}
    BY <1>5 DEF ClearInv
  <2>6. Before(always'[t], shard[t]) = {}
    BY <1>2, <1>5, <2>5, BeforeLess
  <2>7. shard[t] \in Nat
    BY ShardAssumption DEF IInv, TypeOK
  <2>8. Before(always'[t], shard[t] + 1)
          = Before(always'[t], shard[t]) \cup InShard(always'[t], shard[t])
    BY <1>2, <2>7, BeforeNext
  <2>9. shard'[t] = shard[t] + 1
    BY <1>5
  <2> QED
    BY <2>4, <2>6, <2>8, <2>9
<1> QED
  BY <1>1, <1>3, <1>4, <1>5, WalkGoesOn

-----------------------------------------------------------------------------
(* get_snapshot                                                            *)

\* What the section copies.
Copied(st, s, at) ==
       {<<"str", k, st.str[k].value>> : k \in {j \in KeysOf(s) : Live(st.str[j], at)}}
  \cup {<<"hash", k, st.hash[k]>> : k \in {j \in KeysOf(s) : st.hash[j] # None}}
  \cup {<<"list", k, st.list[k]>> : k \in {j \in KeysOf(s) : st.list[j] # None}}

\* It is what is there in the shard.
LEMMA CopiedIsThere ==
  ASSUME NEW st, NEW s, NEW at
  PROVE  /\ Copied(st, s, at) \subseteq Contents(st, at)
         /\ InShard(Names(Contents(st, at)), s) \subseteq Names(Copied(st, s, at))
<1>1. Copied(st, s, at) \subseteq Contents(st, at)
  BY DEF Copied, Contents, KeysOf
<1>2. ASSUME NEW k \in Keys, ShardOf[k] = s, Live(st.str[k], at)
      PROVE  <<"str", k>> \in Names(Copied(st, s, at))
  <2>1. <<"str", k, st.str[k].value>> \in Copied(st, s, at)
    BY <1>2 DEF Copied, KeysOf
  <2> QED
    BY <2>1 DEF Names
<1>3. ASSUME NEW k \in Keys, ShardOf[k] = s, st.hash[k] # None
      PROVE  <<"hash", k>> \in Names(Copied(st, s, at))
  <2>1. <<"hash", k, st.hash[k]>> \in Copied(st, s, at)
    BY <1>3 DEF Copied, KeysOf
  <2> QED
    BY <2>1 DEF Names
<1>4. ASSUME NEW k \in Keys, ShardOf[k] = s, st.list[k] # None
      PROVE  <<"list", k>> \in Names(Copied(st, s, at))
  <2>1. <<"list", k, st.list[k]>> \in Copied(st, s, at)
    BY <1>4 DEF Copied, KeysOf
  <2> QED
    BY <2>1 DEF Names
<1> QED
  BY <1>1, <1>2, <1>3, <1>4, NamesOfContents DEF InShard

LEMMA SnapshotStep == ASSUME IInv, HistInv, SnapshotInv, WalkNext PROVE SnapshotInv'
<1> SUFFICES ASSUME NEW t \in Threads, Walking(t)', req'[t].op = "snapshot"
             PROVE  /\ Before(always'[t], shard'[t]) \subseteq Names(ret'[t])
                    /\ ret'[t] \subseteq ever'[t]
  BY DEF SnapshotInv
<1>1. Next /\ Record
  BY DEF WalkNext
<1>2. /\ always'[t] \subseteq AllNames
      /\ Walking(t) => always'[t] \subseteq always[t] /\ ever[t] \subseteq ever'[t]
  BY <1>1, Recorded, FoundNames
<1>3. CASE Rest(t) /\ Walking(t)
  <2>1. /\ Before(always[t], shard[t]) \subseteq Names(ret[t])
        /\ ret[t] \subseteq ever[t]
    BY <1>3 DEF SnapshotInv, Rest
  <2> QED
    BY <1>2, <1>3, <2>1, BeforeLess DEF Rest
<1>4. CASE \E r \in Requests : Call(t, r)
  <2>1. shard'[t] = 0 /\ ret'[t] = {}
    BY <1>4, CallBegins DEF NothingYet
  <2> QED
    BY <1>2, <2>1, BeforeNone
<1>5. CASE /\ Walking(t) /\ (SizeShard(t) \/ ClearShard(t) \/ SnapshotShard(t))
           /\ UNCHANGED <<req, now>> /\ shard'[t] = shard[t] + 1
  <2> DEFINE new == Copied(store, shard[t], now[t])
  <2>1. SnapshotShard(t)
    BY <1>5 DEF SizeShard, ClearShard, In
  <2>2. Walk(t, ret[t] \cup new)
    BY <2>1 DEF SnapshotShard, Copied
  <2> HIDE DEF new
  <2>3. ret'[t] = ret[t] \cup new
    BY <2>2, WalkMoves DEF IInv
  <2>4. /\ Before(always[t], shard[t]) \subseteq Names(ret[t])
        /\ ret[t] \subseteq ever[t]
    BY <1>5 DEF SnapshotInv
  <2>5. Found(t) = Contents(store, now[t])
    BY <1>5 DEF Found
  <2>6. always[t] \subseteq Names(Found(t)) /\ Found(t) \subseteq ever[t]
    BY DEF HistInv
  <2>7. new \subseteq ever[t]
    BY <2>5, <2>6, CopiedIsThere DEF new
  <2>8. InShard(always[t], shard[t]) \subseteq Names(new)
    BY <2>5, <2>6, CopiedIsThere, BeforeLess DEF new
  <2>9. Names(ret'[t]) = Names(ret[t]) \cup Names(new)
    BY <2>3, NamesOfUnion
  <2>10. shard[t] \in Nat
    BY ShardAssumption DEF IInv, TypeOK
  <2>11. Before(always'[t], shard'[t])
           = Before(always'[t], shard[t]) \cup InShard(always'[t], shard[t])
    BY <1>2, <1>5, <2>10, BeforeNext
  <2>12. /\ Before(always'[t], shard[t]) \subseteq Before(always[t], shard[t])
         /\ InShard(always'[t], shard[t]) \subseteq InShard(always[t], shard[t])
    BY <1>2, <1>5, BeforeLess
  <2>13. Before(always'[t], shard'[t]) \subseteq Names(ret'[t])
    BY <2>4, <2>8, <2>9, <2>11, <2>12
  <2>14. ret'[t] \subseteq ever'[t]
    BY <1>2, <1>5, <2>3, <2>4, <2>7
  <2> QED
    BY <2>13, <2>14
<1> QED
  BY <1>1, <1>3, <1>4, <1>5, WalkGoesOn

-----------------------------------------------------------------------------
(* size                                                                    *)

\* Visited names are finitely many, and fewer if they are taken from fewer.
LEMMA CountBefore ==
  ASSUME IsFiniteSet(Keys), NEW B, B \subseteq AllNames, NEW A, A \subseteq B, NEW s
  PROVE  /\ IsFiniteSet(Before(B, s)) /\ IsFiniteSet(InShard(B, s))
         /\ Cardinality(Before(B, s)) \in Nat /\ Cardinality(InShard(B, s)) \in Nat
         /\ Cardinality(Before(A, s)) \in Nat /\ Cardinality(InShard(A, s)) \in Nat
         /\ Cardinality(Before(A, s)) <= Cardinality(Before(B, s))
         /\ Cardinality(InShard(A, s)) <= Cardinality(InShard(B, s))
<1>1. IsFiniteSet(Before(B, s)) /\ IsFiniteSet(InShard(B, s))
  <2>1. Before(B, s) \subseteq AllNames /\ InShard(B, s) \subseteq AllNames
    BY DEF Before, InShard
  <2> QED
    BY <2>1, NamesAreFinite, FS_Subset
<1> QED
  BY <1>1, BeforeLess, CountMore

\* The count of one shard more.
LEMMA CountNext ==
  ASSUME IsFiniteSet(Keys), NEW S, S \subseteq AllNames, NEW s \in Nat
  PROVE  /\ Cardinality(Before(S, s + 1)) = Cardinality(Before(S, s)) + Cardinality(InShard(S, s))
         /\ Cardinality(Before(S, s)) \in Nat /\ Cardinality(InShard(S, s)) \in Nat
<1>1. /\ IsFiniteSet(Before(S, s)) /\ IsFiniteSet(InShard(S, s))
      /\ Cardinality(Before(S, s)) \in Nat /\ Cardinality(InShard(S, s)) \in Nat
  BY CountBefore
<1>2. /\ Before(S, s + 1) = Before(S, s) \cup InShard(S, s)
      /\ Before(S, s) \cap InShard(S, s) = {}
  BY BeforeNext
<1> QED
  BY <1>1, <1>2, CountApart

LEMMA SizeStep == ASSUME IsFiniteSet(Keys), IInv, HistInv, SizeInv, WalkNext PROVE SizeInv'
<1> SUFFICES ASSUME NEW t \in Threads, Walking(t)', req'[t].op = "size"
             PROVE  /\ ret'[t] \in Nat
                    /\ Cardinality(Before(always'[t], shard'[t])) <= ret'[t]
                    /\ ret'[t] <= Cardinality(Before(Names(ever'[t]), shard'[t]))
  BY DEF SizeInv
<1>1. Next /\ Record
  BY DEF WalkNext
<1>2. /\ always[t] \subseteq AllNames /\ always'[t] \subseteq AllNames
      /\ Names(ever[t]) \subseteq AllNames /\ Names(ever'[t]) \subseteq AllNames
      /\ Walking(t) => always'[t] \subseteq always[t] /\ Names(ever[t]) \subseteq Names(ever'[t])
  <2>1. /\ always'[t] \subseteq Names(Found(t)') /\ Names(ever'[t]) \subseteq AllNames
        /\ Walking(t) => always'[t] \subseteq always[t] /\ ever[t] \subseteq ever'[t]
    BY <1>1, Recorded
  <2>2. always[t] \subseteq Names(Found(t)) /\ Names(ever[t]) \subseteq AllNames
    BY DEF HistInv
  <2> QED
    BY <2>1, <2>2, FoundNames, NamesOfMore
<1>3. Walking(t) => \A s :
        /\ Cardinality(Before(always'[t], s)) <= Cardinality(Before(always[t], s))
        /\ Cardinality(Before(Names(ever[t]), s)) <= Cardinality(Before(Names(ever'[t]), s))
        /\ Cardinality(Before(always'[t], s)) \in Nat
        /\ Cardinality(Before(always[t], s)) \in Nat
        /\ Cardinality(Before(Names(ever[t]), s)) \in Nat
        /\ Cardinality(Before(Names(ever'[t]), s)) \in Nat
  BY <1>2, CountBefore
<1>4. CASE Rest(t) /\ Walking(t)
  <2>1. /\ ret[t] \in Nat
        /\ Cardinality(Before(always[t], shard[t])) <= ret[t]
        /\ ret[t] <= Cardinality(Before(Names(ever[t]), shard[t]))
    BY <1>4 DEF SizeInv, Rest
  <2>2. shard'[t] = shard[t] /\ ret'[t] = ret[t]
    BY <1>4 DEF Rest
  <2> QED
    BY <1>3, <1>4, <2>1, <2>2
<1>5. CASE \E r \in Requests : Call(t, r)
  <2>1. shard'[t] = 0 /\ ret'[t] = 0
    BY <1>5, CallBegins DEF NothingYet
  <2>2. Before(always'[t], shard'[t]) = {} /\ Before(Names(ever'[t]), shard'[t]) = {}
    BY <1>2, <2>1, BeforeNone
  <2>3. Cardinality({}) = 0
    BY FS_EmptySet
  <2> QED
    BY <2>1, <2>2, <2>3
<1>6. CASE /\ Walking(t) /\ (SizeShard(t) \/ ClearShard(t) \/ SnapshotShard(t))
           /\ UNCHANGED <<req, now>> /\ shard'[t] = shard[t] + 1
  <2> DEFINE s     == shard[t]
             there == Names(Contents(store, now[t]))
  <2>1. SizeShard(t)
    BY <1>6 DEF SnapshotShard, ClearShard, In
  <2>2. ret'[t] = ret[t] + ShardCount(store, s, now[t])
    BY <2>1, WalkMoves DEF SizeShard, IInv
  <2>3. ShardCount(store, s, now[t]) = Cardinality(InShard(there, s))
    BY CountOfShard
  <2>4. /\ ret[t] \in Nat
        /\ Cardinality(Before(always[t], s)) <= ret[t]
        /\ ret[t] <= Cardinality(Before(Names(ever[t]), s))
    BY <1>6 DEF SizeInv
  <2>5. s \in Nat
    BY ShardAssumption DEF IInv, TypeOK
  <2>6. always'[t] \subseteq there /\ there \subseteq Names(ever'[t]) /\ there \subseteq AllNames
    <3>1. Found(t) = Contents(store, now[t])
      BY <1>6 DEF Found
    <3>2. always[t] \subseteq Names(Found(t)) /\ Found(t) \subseteq ever[t]
      BY DEF HistInv
    <3> QED
      BY <1>2, <1>6, <3>1, <3>2, NamesOfMore, NamesAreNames
  <2> HIDE DEF there, s
  <2>7. /\ Cardinality(InShard(always'[t], s)) <= Cardinality(InShard(there, s))
        /\ Cardinality(InShard(there, s)) <= Cardinality(InShard(Names(ever'[t]), s))
        /\ Cardinality(InShard(there, s)) \in Nat
    BY <1>2, <2>6, CountBefore
  <2>8. /\ Cardinality(Before(always'[t], s + 1))
             = Cardinality(Before(always'[t], s)) + Cardinality(InShard(always'[t], s))
        /\ Cardinality(InShard(always'[t], s)) \in Nat
    BY <1>2, <2>5, CountNext
  <2>9. /\ Cardinality(Before(Names(ever'[t]), s + 1))
             = Cardinality(Before(Names(ever'[t]), s)) + Cardinality(InShard(Names(ever'[t]), s))
        /\ Cardinality(InShard(Names(ever'[t]), s)) \in Nat
    BY <1>2, <2>5, CountNext
  <2>10. shard'[t] = s + 1
    BY <1>6 DEF s
  <2> QED
    BY <1>3, <1>6, <2>2, <2>3, <2>4, <2>7, <2>8, <2>9, <2>10
<1> QED
  BY <1>1, <1>4, <1>5, <1>6, WalkGoesOn

-----------------------------------------------------------------------------
(* Theorems                                                                *)

LEMMA WalkInitInv == WalkInit => IInv /\ HistInv /\ ClearInv /\ SnapshotInv
<1> SUFFICES ASSUME WalkInit PROVE IInv /\ HistInv /\ ClearInv /\ SnapshotInv
  OBVIOUS
<1>1. Init /\ IInv
  BY InitInv DEF WalkInit
<1>2. \A t \in Threads : ~Walking(t)
  BY <1>1 DEF Init, Walking
<1>3. \A t \in Threads : always[t] = {} /\ ever[t] = {} /\ Found(t) = {}
  BY <1>2 DEF WalkInit, Found
<1>4. Names({}) = {}
  BY DEF Names
<1> QED
  BY <1>1, <1>2, <1>3, <1>4 DEF HistInv, ClearInv, SnapshotInv

LEMMA WalkStutter ==
  ASSUME UNCHANGED walkVars
  PROVE  /\ HistInv => HistInv'
         /\ ClearInv => ClearInv'
         /\ SnapshotInv => SnapshotInv'
         /\ SizeInv => SizeInv'
<1> USE DEF walkVars, vars, Walking
<1>1. HistInv => HistInv'
  BY DEF HistInv, Found
<1>2. ClearInv => ClearInv'
  BY DEF ClearInv
<1>3. SnapshotInv => SnapshotInv'
  BY DEF SnapshotInv
<1>4. SizeInv => SizeInv'
  BY DEF SizeInv
<1> QED
  BY <1>1, <1>2, <1>3, <1>4

\* A walk is one of the methods of the store.
LEMMA WalksAreCalls == WalkSpec => []IInv
<1>1. WalkInit => Init
  BY DEF WalkInit
<1>2. [WalkNext]_walkVars => [Next]_vars
  BY DEF WalkNext, walkVars
<1>3. Init => IInv
  BY InitInv
<1>4. IInv /\ [Next]_vars => IInv'
  BY StepInv
<1> QED
  BY <1>1, <1>2, <1>3, <1>4, PTL DEF WalkSpec

LEMMA WalkInvariance == WalkSpec => [](IInv /\ HistInv /\ ClearInv /\ SnapshotInv)
<1>1. WalkInit => HistInv /\ ClearInv /\ SnapshotInv
  BY WalkInitInv
<1>2. /\ IInv /\ HistInv /\ ClearInv /\ SnapshotInv /\ [WalkNext]_walkVars
      => (HistInv /\ ClearInv /\ SnapshotInv)'
  BY HistStep, ClearStep, SnapshotStep, WalkStutter
<1>3. WalkSpec => []IInv
  BY WalksAreCalls
<1> QED
  BY <1>1, <1>2, <1>3, PTL DEF WalkSpec

\* FLUSHDB empties the shards one after the other while other threads refill
\* them: nothing that was there when it was called has survived it.
THEOREM ClearSpares == WalkSpec => []ClearSparesNothing
<1>1. IInv /\ HistInv /\ ClearInv => ClearSparesNothing
  <2> SUFFICES ASSUME IInv, HistInv, ClearInv, NEW t \in Threads, In(t, "clear", "done")
               PROVE  always[t] = {}
    BY DEF ClearSparesNothing
  <2>1. Walking(t)
    BY DEF In, Walking, IInv, CallInv
  <2>2. shard[t] = NumShards /\ always[t] \subseteq Names(Found(t))
    BY <2>1 DEF HistInv, In
  <2>3. Before(always[t], NumShards) = {}
    BY <2>1, <2>2 DEF ClearInv, In
  <2> QED
    BY <2>2, <2>3, FoundNames, BeforeAll
<1> QED
  BY <1>1, WalkInvariance, PTL

\* The snapshot that BGREWRITEAOF writes has every key that was there all the
\* time it was taken, with contents the key had at some time meanwhile.
THEOREM SnapshotPlausible == WalkSpec => []SnapshotIsPlausible
<1>1. IInv /\ HistInv /\ SnapshotInv => SnapshotIsPlausible
  <2> SUFFICES ASSUME IInv, HistInv, SnapshotInv, NEW t \in Threads, In(t, "snapshot", "done")
               PROVE  always[t] \subseteq Names(ret[t]) /\ ret[t] \subseteq ever[t]
    BY DEF SnapshotIsPlausible
  <2>1. Walking(t)
    BY DEF In, Walking, IInv, CallInv
  <2>2. shard[t] = NumShards /\ always[t] \subseteq Names(Found(t))
    BY <2>1 DEF HistInv, In
  <2>3. Before(always[t], NumShards) \subseteq Names(ret[t]) /\ ret[t] \subseteq ever[t]
    BY <2>1, <2>2 DEF SnapshotInv, In
  <2> QED
    BY <2>2, <2>3, FoundNames, BeforeAll
<1> QED
  BY <1>1, WalkInvariance, PTL

\* The number size returns counts every key that was there all the time, and
\* no more than were there at some time, whatever is done to the shards it
\* has visited.
THEOREM SizeIsBetween ==
  ASSUME IsFiniteSet(Keys)
  PROVE  WalkSpec => []SizeBetween
<1>1. WalkInit => SizeInv
  BY DEF WalkInit, Init, SizeInv, Walking
<1>2. IInv /\ HistInv /\ SizeInv /\ [WalkNext]_walkVars => SizeInv'
  BY SizeStep, WalkStutter
<1>3. IInv /\ HistInv /\ SizeInv => SizeBetween
  <2> SUFFICES ASSUME IInv, HistInv, SizeInv, NEW t \in Threads, In(t, "size", "done")
               PROVE  Cardinality(always[t]) <= ret[t] /\ ret[t] <= Cardinality(Names(ever[t]))
    BY DEF SizeBetween
  <2>1. Walking(t)
    BY DEF In, Walking, IInv, CallInv
  <2>2. /\ shard[t] = NumShards /\ always[t] \subseteq Names(Found(t))
        /\ Names(ever[t]) \subseteq AllNames
    BY <2>1 DEF HistInv, In
  <2>3. /\ Cardinality(Before(always[t], NumShards)) <= ret[t]
        /\ ret[t] <= Cardinality(Before(Names(ever[t]), NumShards))
    BY <2>1, <2>2 DEF SizeInv, In
  <2> QED
    BY <2>2, <2>3, FoundNames, BeforeAll
<1> QED
  BY <1>1, <1>2, <1>3, WalkInvariance, PTL DEF WalkSpec
-----------------------------------------------------------------------------
(* Uses                                                                    *)

\* The access time of a string is that of its last use.
UsedInv ==
  /\ used \in [Keys -> 0 .. ClockBound]
  /\ \A k \in Keys : store.str[k] # None => store.str[k].last_accessed = used[k]

\* What a section leaves of a string: it has been used, or is as old as it was.
LEMMA SectionUses ==
  ASSUME TypeOK, RetInv, CallInv, NEW t \in Threads, Section(t),
         NEW k \in Keys, store'.str[k] # None
  PROVE  IF Uses(t, k)
         THEN store'.str[k].last_accessed = now[t]
         ELSE /\ store.str[k] # None
              /\ store'.str[k].last_accessed = store.str[k].last_accessed
<1> USE DEF TypeOK, In, Stores
<1> DEFINE r == req[t]
<1>1. r \in AllRequests /\ now[t] \in Nat
  BY SectionMoves, InRequest
<1>2. ASSUME UNCHANGED store.str, ~Uses(t, k)
      PROVE  store.str[k] # None /\ store'.str[k].last_accessed = store.str[k].last_accessed
  BY <1>2
<1>3. CASE Set(t)
  <2>1. /\ r.op = "set" /\ pc[t] = "run" /\ pc'[t] = "done" /\ r.key \in Keys
        /\ store' = AfterSet(store, r.key, r.val, r.ttl, now[t])
    BY <1>1, <1>3, RequestFields DEF Set, Finish, Walks
  <2>2. CASE k = r.key
    <3>1. Uses(t, k)
      BY <1>1, <2>1, <2>2, IdleAssumption DEF Uses
    <3>2. store'.str[k].last_accessed = now[t]
      BY <2>1, <2>2 DEF AfterSet
    <3> QED
      BY <3>1, <3>2
  <2>3. CASE k # r.key
    BY <2>1, <2>3 DEF AfterSet, Uses
  <2> QED
    BY <2>2, <2>3
<1>4. CASE GetLookup(t)
  <2>1. /\ r.op = "get" /\ UNCHANGED store
        /\ pc'[t] = "done" => store.str[r.key] = None
    BY <1>4 DEF GetLookup, GoOn, Finish
  <2> QED
    BY <1>2, <2>1 DEF Uses
<1>5. CASE GetTouch(t)
  <2>1. /\ r.op = "get" /\ pc[t] = "touch" /\ pc'[t] = "done" /\ r.key \in Keys
        /\ store' = AfterTouch(store, r.key, now[t])
    BY <1>1, <1>5, RequestFields DEF GetTouch, Finish, Walks
  <2>2. CASE k = r.key
    <3>1. Uses(t, k)
      BY <1>1, <2>1, <2>2, IdleAssumption DEF Uses
    <3>2. store.str[k] # None /\ store.str[k] \in Entries
      BY <2>1, <2>2 DEF AfterTouch
    <3>3. store'.str[k] = [store.str[k] EXCEPT !.last_accessed = now[t]]
      BY <2>1, <2>2, <3>2 DEF AfterTouch
    <3>4. store'.str[k].last_accessed = now[t]
      BY <3>2, <3>3 DEF Entries
    <3> QED
      BY <3>1, <3>4
  <2>3. CASE k # r.key
    BY <2>1, <2>3 DEF AfterTouch, Uses
  <2> QED
    BY <2>2, <2>3
<1>6. CASE GetReap(t) \/ TtlLookup(t) \/ TtlReap(t) \/ Del(t) \/ Exists(t)
  <2>1. ~Uses(t, k)
    BY <1>6 DEF GetReap, TtlLookup, TtlReap, Del, Exists, Uses
  <2>2. \/ UNCHANGED store
        \/ store' = AfterErase(store, r.key) \/ store' = AfterDel(store, r.key)
    BY <1>6 DEF GetReap, TtlLookup, TtlReap, Del, Exists, GoOn
  <2>3. store'.str[k] = store.str[k]
    <3>1. CASE store' = AfterErase(store, r.key)
      BY <3>1 DEF AfterErase
    <3>2. CASE store' = AfterDel(store, r.key)
      BY <3>2 DEF AfterDel
    <3> QED
      BY <2>2, <3>1, <3>2
  <2> QED
    BY <2>1, <2>3
<1>7. CASE Expire(t)
  <2>1. ~Uses(t, k) /\ store' = AfterExpire(store, r.key, r.ttl, now[t])
    BY <1>7 DEF Expire, Uses
  <2>2. CASE store' = AfterErase(store, r.key)
    <3>1. store'.str[k] = store.str[k]
      BY <2>2 DEF AfterErase
    <3> QED
      BY <2>1, <3>1
  <2>3. CASE store' = [store EXCEPT !.str[r.key].expires_at = After(now[t], r.ttl)]
    <3>1. store'.str[k] = IF k = r.key THEN [store.str[k] EXCEPT !.expires_at = After(now[t], r.ttl)]
                          ELSE store.str[k]
      BY <2>3
    <3>2. CASE store.str[k] = None
      <4>1. Live(store.str[r.key], now[t]) \/ store'.str[k] = None
        BY <2>1, <3>2 DEF AfterExpire, AfterErase
      <4>2. k # r.key
        BY <3>2, <4>1 DEF Live
      <4> QED
        BY <3>1, <3>2, <4>2
    <3>3. CASE store.str[k] # None
      <4>1. store.str[k] \in Entries
        BY <3>3
      <4>2. store'.str[k].last_accessed = store.str[k].last_accessed
        BY <3>1, <4>1 DEF Entries
      <4> QED
        BY <2>1, <3>3, <4>2
    <3> QED
      BY <3>2, <3>3
  <2> QED
    BY <2>1, <2>2, <2>3 DEF AfterExpire
<1>8. CASE Incr(t)
  <2> DEFINE reply == IncrReply(store, r.key, r.delta, now[t])
  <2>1. /\ r.op = "incr_by" /\ pc[t] = "run" /\ pc'[t] = "done" /\ r.key \in Keys
        /\ store' = AfterIncr(store, r.key, r.delta, now[t]) /\ ret'[t] = reply
    BY <1>1, <1>8, RequestFields DEF Incr, Finish, Walks, RetInv
  <2>2. CASE ~reply.ok
    <3>1. ~Uses(t, k) /\ store' = store
      BY <2>1, <2>2 DEF AfterIncr, Uses
    <3> QED
      BY <1>2, <3>1
  <2>3. CASE reply.ok /\ k = r.key
    <3>1. Uses(t, k)
      BY <1>1, <2>1, <2>3, IdleAssumption DEF Uses
    <3>2. store'.str[k].last_accessed = now[t]
      BY <2>1, <2>3 DEF AfterIncr
    <3> QED
      BY <3>1, <3>2
  <2>4. CASE reply.ok /\ k # r.key
    <3>1. ~Uses(t, k)
      BY <2>4 DEF Uses
    <3>2. store'.str[k] = store.str[k]
      BY <2>1, <2>4 DEF AfterIncr
    <3> QED
      BY <3>1, <3>2
  <2> QED
    BY <2>2, <2>3, <2>4
<1>9. CASE HSet(t) \/ HDel(t) \/ HashRead(t)
  <2>1. ~Uses(t, k)
    BY <1>9 DEF HSet, HDel, HashRead, Uses
  <2>2. store'.str = store.str
    BY <1>9 DEF HSet, HDel, HashRead, AfterHSet, AfterHDel
  <2> QED
    BY <2>1, <2>2
<1>10. CASE LPush(t) \/ RPush(t) \/ LPop(t) \/ RPop(t) \/ ListRead(t)
  <2>1. ~Uses(t, k)
    BY <1>10 DEF LPush, RPush, LPop, RPop, ListRead, Uses
  <2>2. store'.str = store.str
    BY <1>10 DEF LPush, RPush, LPop, RPop, ListRead, AfterLPush, AfterRPush, AfterLPop, AfterRPop
  <2> QED
    BY <2>1, <2>2
<1>11. CASE SizeShard(t) \/ ClearShard(t) \/ PurgeShard(t) \/ SnapshotShard(t)
  <2>1. ~Uses(t, k)
    BY <1>11 DEF SizeShard, ClearShard, PurgeShard, SnapshotShard, Uses
  <2>2. store'.str[k] = store.str[k]
    <3>1. CASE ClearShard(t)
      BY <3>1 DEF ClearShard, AfterClear
    <3>2. CASE PurgeShard(t)
      BY <3>2 DEF PurgeShard
    <3>3. CASE SizeShard(t) \/ SnapshotShard(t)
      BY <3>3 DEF SizeShard, SnapshotShard
    <3> QED
      BY <1>11, <3>1, <3>2, <3>3
  <2> QED
    BY <2>1, <2>2
<1>12. CASE SampleShard(t) \/ Sort(t) \/ EvictNext(t)
  <2>1. ~Uses(t, k)
    BY <1>12 DEF SampleShard, Sort, EvictNext, Uses
  <2>2. store'.str[k] = store.str[k]
    <3>1. CASE SampleShard(t) \/ Sort(t)
      BY <3>1 DEF SampleShard, Sort
    <3>2. CASE EvictNext(t)
      BY <3>2 DEF EvictNext, AfterErase
    <3> QED
      BY <1>12, <3>1, <3>2
  <2> QED
    BY <2>1, <2>2
<1> QED
  BY <1>3, <1>4, <1>5, <1>6, <1>7, <1>8, <1>9, <1>10, <1>11, <1>12 DEF Section

\* Only a section uses a string.
LEMMA UseIsSection ==
  ASSUME IInv, Next, NEW u \in Threads, NEW k \in Keys, Uses(u, k)
  PROVE  Section(u)
<1>1. req[u] # None /\ pc[u] \in {"run", "touch"} /\ pc'[u] = "done"
  BY DEF Uses
<1>2. ~Tick
  BY <1>1 DEF Tick
<1>3. ASSUME NEW t \in Threads, NEW r \in Requests, Call(t, r) PROVE FALSE
  BY <1>1, <1>3 DEF Call, IInv, TypeOK
<1>4. ASSUME NEW t \in Threads, Return(t) PROVE FALSE
  BY <1>1, <1>4 DEF Return, IInv, TypeOK
<1>5. ASSUME NEW t \in Threads, Section(t) PROVE t = u
  <2>1. \E p \in Busy : pc' = [pc EXCEPT ![t] = p]
    BY <1>5, SectionMoves DEF IInv
  <2> QED
    BY <1>1, <2>1 DEF IInv, TypeOK
<1> QED
  BY <1>2, <1>3, <1>4, <1>5 DEF Next

\* One thread moves at a time.
LEMMA OneSection ==
  ASSUME IInv, NEW t \in Threads, NEW u \in Threads, Section(t), Section(u), pc'[t] # pc[t],
         pc'[u] # pc[u]
  PROVE  t = u
<1>1. \E p \in Busy : pc' = [pc EXCEPT ![t] = p]
  BY SectionMoves DEF IInv
<1> QED
  BY <1>1 DEF IInv, TypeOK

\* What a step leaves of a string: it was used, or it is as old as it was.
LEMMA StepUses ==
  ASSUME IInv, UsedInv, EvictionNext, NEW k \in Keys
  PROVE  /\ used'[k] \in 0 .. ClockBound
         /\ store'.str[k] # None => store'.str[k].last_accessed = used'[k]
         /\ (~\E u \in Threads : Uses(u, k)) =>
              used'[k] = used[k] /\ (store'.str[k] # None => store.str[k] # None)
<1>1. Next
  BY DEF EvictionNext
<1>2. CASE \E u \in Threads : Uses(u, k)
  <2> DEFINE t == CHOOSE u \in Threads : Uses(u, k)
  <2>1. t \in Threads /\ Uses(t, k)
    BY <1>2
  <2>2. used'[k] = now[t]
    BY <1>2 DEF EvictionNext
  <2> HIDE DEF t
  <2>3. Section(t)
    BY <1>1, <2>1, UseIsSection
  <2>4. store'.str[k] # None /\ now[t] \in 0 .. ClockBound
    BY <2>1 DEF Uses, IInv, TypeOK
  <2>5. store'.str[k].last_accessed = now[t]
    BY <2>1, <2>3, <2>4, SectionUses DEF IInv
  <2> QED
    BY <1>2, <2>2, <2>4, <2>5
<1>3. CASE ~\E u \in Threads : Uses(u, k)
  <2>1. used'[k] = used[k] /\ used[k] \in 0 .. ClockBound
    BY <1>3 DEF EvictionNext, UsedInv
  <2>2. ASSUME NEW t \in Threads, Section(t), store'.str[k] # None
        PROVE  store.str[k] # None /\ store'.str[k].last_accessed = store.str[k].last_accessed
    BY <1>3, <2>2, SectionUses DEF IInv
  <2>3. ASSUME UNCHANGED store, store'.str[k] # None
        PROVE  store.str[k] # None /\ store'.str[k].last_accessed = store.str[k].last_accessed
    BY <2>3
  <2>4. UNCHANGED store \/ \E t \in Threads : Section(t)
    BY <1>1 DEF Next, Tick, Call, Return
  <2>5. store'.str[k] # None =>
          store.str[k] # None /\ store'.str[k].last_accessed = store.str[k].last_accessed
    BY <2>2, <2>3, <2>4
  <2> QED
    BY <1>3, <2>1, <2>5 DEF UsedInv
<1> QED
  BY <1>2, <1>3

LEMMA UsedStep == ASSUME IInv, UsedInv, EvictionNext PROVE UsedInv'
<1>1. used' \in [Keys -> 0 .. ClockBound]
  <2>1. used' = [k \in Keys |-> used'[k]]
    BY DEF EvictionNext
  <2> QED
    BY <2>1, StepUses
<1> QED
  BY <1>1, StepUses DEF UsedInv

-----------------------------------------------------------------------------
(* Evictions                                                               *)

Progress == [sample : SUBSET (Keys \X (0 .. ClockBound)), victims : Seq(Keys), evicted : Nat]

\* Keys that the eviction of t is to judge rightly.
Judged(t) == {k \in Keys \ excused[t] : store.str[k] # None}

\* What is sampled is what there is.
Sampling(t) ==
  /\ \A c \in ret[t].sample : c[1] \in Judged(t) => c[2] = used[c[1]]
  /\ \A k \in Judged(t) : ShardOf[k] < shard[t] => <<k, used[k]>> \in ret[t].sample

\* The victims are those used first, in the order of their use.
InOrder(t) ==
  \A p \in 1 .. Len(ret[t].victims), j \in Judged(t) :
    ret[t].victims[p] \in Judged(t) =>
      \/ used[ret[t].victims[p]] <= used[j]
      \/ \E q \in 1 .. p - 1 : ret[t].victims[q] = j

OrderInv == \A t \in Threads : Evicting(t) =>
  /\ ret[t] \in Progress
  /\ pc[t] \in {"run", "sort", "evict", "done"}
  /\ pc[t] = "sort" => shard[t] = NumShards
  /\ pc[t] \in {"run", "sort"} => Sampling(t)
  /\ pc[t] = "evict" => InOrder(t)

\* Of a string not used in a step nothing changes but that it may go.
LEMMA JudgedStays ==
  ASSUME IInv, UsedInv, EvictionNext, NEW t \in Threads, Evicting(t)'
  PROVE  /\ Judged(t)' \subseteq Judged(t)
         /\ \A k \in Judged(t)' : used'[k] = used[k]
         /\ \A k \in Judged(t)' : k \in Keys /\ store.str[k] # None /\ store'.str[k] # None
         /\ Overfull(t) => Judged(t)' \cap KeysOf(shard[t]) = {}
<1>1. excused'[t] = excused[t] \cup {k \in Keys : \E u \in Threads : Uses(u, k)}
                       \cup IF Overfull(t) THEN KeysOf(shard[t]) ELSE {}
  BY DEF EvictionNext
<1>2. ASSUME NEW k \in Judged(t)'
      PROVE  /\ k \in Keys /\ k \notin excused[t] /\ store'.str[k] # None
             /\ ~\E u \in Threads : Uses(u, k)
             /\ Overfull(t) => k \notin KeysOf(shard[t])
  <2>1. k \in Keys /\ k \notin excused'[t] /\ store'.str[k] # None
    BY <1>2 DEF Judged
  <2> QED
    BY <1>1, <2>1
<1>3. \A k \in Judged(t)' : used'[k] = used[k] /\ store.str[k] # None
  BY <1>2, StepUses
<1>4. Judged(t)' \subseteq Judged(t)
  BY <1>2, <1>3 DEF Judged
<1> QED
  BY <1>2, <1>3, <1>4

\* An eviction has no other section than its own.
LEMMA EvictionSection ==
  ASSUME NEW t \in Threads, Evicting(t), Section(t)
  PROVE  SampleShard(t) \/ Sort(t) \/ EvictNext(t)
<1> USE DEF Evicting, In
<1>1. CASE Set(t) \/ GetLookup(t) \/ GetTouch(t) \/ GetReap(t)
  BY <1>1 DEF Set, GetLookup, GetTouch, GetReap
<1>2. CASE Del(t) \/ Exists(t) \/ Expire(t) \/ TtlLookup(t) \/ TtlReap(t) \/ Incr(t)
  BY <1>2 DEF Del, Exists, Expire, TtlLookup, TtlReap, Incr
<1>3. CASE HSet(t) \/ HDel(t) \/ HashRead(t)
  BY <1>3 DEF HSet, HDel, HashRead
<1>4. CASE LPush(t) \/ RPush(t) \/ LPop(t) \/ RPop(t) \/ ListRead(t)
  BY <1>4 DEF LPush, RPush, LPop, RPop, ListRead
<1>5. CASE SizeShard(t) \/ ClearShard(t) \/ PurgeShard(t) \/ SnapshotShard(t)
  BY <1>5 DEF SizeShard, ClearShard, PurgeShard, SnapshotShard
<1> QED
  BY <1>1, <1>2, <1>3, <1>4, <1>5 DEF Section

LEMMA EvictionGoesOn ==
  ASSUME IInv, Next, NEW t \in Threads, Evicting(t)'
  PROVE  \/ Rest(t) /\ Evicting(t)
         \/ \E r \in Requests : Call(t, r)
         \/ Evicting(t) /\ (SampleShard(t) \/ Sort(t) \/ EvictNext(t))
<1>1. CASE Rest(t)
  BY <1>1 DEF Rest, Evicting
<1>2. CASE Return(t)
  <2>1. req'[t] = None
    BY <1>2 DEF Return, IInv, TypeOK
  <2> QED
    BY <2>1 DEF Evicting
<1>3. CASE Section(t)
  <2>1. UNCHANGED <<req, now>>
    BY <1>3, SectionMoves DEF IInv
  <2>2. Evicting(t)
    BY <2>1 DEF Evicting
  <2> QED
    BY <1>3, <2>2, EvictionSection
<1> QED
  BY <1>1, <1>2, <1>3, StepOf

\* What of OrderInv is to be shown of a thread after a step.
OrderOf(t) ==
  /\ ret[t] \in Progress
  /\ pc[t] \in {"run", "sort", "evict", "done"}
  /\ pc[t] = "sort" => shard[t] = NumShards
  /\ pc[t] \in {"run", "sort"} => Sampling(t)
  /\ pc[t] = "evict" => InOrder(t)

\* A shard that is not overfull is sampled as a whole.
LEMMA WholeWindow ==
  ASSUME IsFiniteSet(Keys), NEW s, NEW limit \in Nat,
         Cardinality({k \in KeysOf(s) : store.str[k] # None}) <= limit,
         NEW w \in Windows(s, limit)
  PROVE  w = {k \in KeysOf(s) : store.str[k] # None}
<1> DEFINE present == {k \in KeysOf(s) : store.str[k] # None}
<1>1. present \subseteq Keys
  BY DEF KeysOf
<1>2. w \in SUBSET present /\ Cardinality(w) = IF Cardinality(present) < limit
                                               THEN Cardinality(present) ELSE limit
  BY DEF Windows
<1>3. Cardinality(present) <= limit
  OBVIOUS
<1> HIDE DEF present
<1>4. IsFiniteSet(present) /\ Cardinality(present) \in Nat
  BY <1>1, FS_Subset, FS_CardinalityType
<1>5. Cardinality(w) = Cardinality(present)
  BY <1>2, <1>3, <1>4
<1>6. w = present
  BY <1>2, <1>4, <1>5, FS_Subset
<1> QED
  BY <1>6 DEF present

\* Whatever else happens, the order stays right.
LEMMA OrderRests ==
  ASSUME IInv, UsedInv, OrderInv, EvictionNext, NEW t \in Threads, Evicting(t)', Evicting(t),
         pc'[t] = pc[t], shard'[t] = shard[t], ret'[t] = ret[t]
  PROVE  OrderOf(t)'
<1>1. OrderOf(t)
  BY DEF OrderInv, OrderOf
<1>2. /\ Judged(t)' \subseteq Judged(t)
      /\ \A k \in Judged(t)' : used'[k] = used[k]
  BY JudgedStays
<1>3. Sampling(t) => Sampling(t)'
  BY <1>2 DEF Sampling
<1>4. InOrder(t) => InOrder(t)'
  BY <1>2 DEF InOrder
<1> QED
  BY <1>1, <1>3, <1>4 DEF OrderOf

LEMMA OrderBegins ==
  ASSUME IInv, NEW t \in Threads, NEW r \in Requests, Call(t, r), Evicting(t)'
  PROVE  OrderOf(t)'
<1>1. req'[t] = r /\ shard'[t] = 0 /\ ret'[t] = NothingYet(r) /\ pc'[t] = "run"
  BY CallBegins DEF Call, IInv, TypeOK
<1>2. ret'[t] = [sample |-> {}, victims |-> << >>, evicted |-> 0]
  BY <1>1 DEF Evicting, NothingYet
<1>3. ret'[t] \in Progress
  BY <1>2 DEF Progress
<1>4. \A k \in Judged(t)' : ~(ShardOf[k] < 0)
  <2>1. \A k \in Keys : ShardOf[k] \in Nat
    BY ShardAssumption
  <2>2. Judged(t)' \subseteq Keys
    BY DEF Judged
  <2> QED
    BY <2>1, <2>2
<1>5. Sampling(t)'
  BY <1>1, <1>2, <1>4 DEF Sampling
<1> QED
  BY <1>1, <1>3, <1>5 DEF OrderOf

LEMMA OrderSampled ==
  ASSUME IsFiniteSet(Keys), IInv, UsedInv, OrderInv, EvictionNext,
         NEW t \in Threads, Evicting(t)', Evicting(t), SampleShard(t)
  PROVE  OrderOf(t)'
<1>1. /\ OrderOf(t) /\ In(t, "evict", "run") /\ UNCHANGED store
  BY DEF OrderInv, OrderOf, SampleShard
<1>2. Sampling(t) /\ ret[t] \in Progress
  BY <1>1 DEF OrderOf, In
<1>3. /\ Judged(t)' \subseteq Judged(t)
      /\ \A k \in Judged(t)' : used'[k] = used[k]
      /\ \A k \in Judged(t)' : k \in Keys /\ store.str[k] # None
      /\ Overfull(t) => Judged(t)' \cap KeysOf(shard[t]) = {}
  BY JudgedStays
<1>4. CASE req[t].count = 0
  <2>1. pc'[t] = "done" /\ ret'[t] = ret[t]
    BY <1>4 DEF SampleShard, Finish, IInv, TypeOK, RetInv
  <2> QED
    BY <1>2, <2>1 DEF OrderOf
<1>5. ASSUME req[t].count # 0, NEW w \in Windows(shard[t], SampleSize),
             shard' = [shard EXCEPT ![t] = shard[t] + 1],
             ret' = [ret EXCEPT ![t].sample =
                       @ \cup {<<k, store.str[k].last_accessed>> : k \in w}],
             pc' = [pc EXCEPT ![t] = IF shard[t] + 1 = NumShards THEN "sort" ELSE "run"]
      PROVE  OrderOf(t)'
  <2> DEFINE new == {<<k, store.str[k].last_accessed>> : k \in w}
  <2>1. /\ shard'[t] = shard[t] + 1 /\ shard[t] \in Nat
        /\ pc'[t] = IF shard[t] + 1 = NumShards THEN "sort" ELSE "run"
    BY <1>5, ShardAssumption DEF IInv, TypeOK
  <2>2. ret'[t] = [ret[t] EXCEPT !.sample = @ \cup new]
    BY <1>5 DEF IInv, RetInv
  <2>3. w \subseteq {k \in KeysOf(shard[t]) : store.str[k] # None}
    BY DEF Windows
  <2>4. \A k \in w : k \in Keys /\ store.str[k] # None /\ store.str[k].last_accessed = used[k]
    BY <2>3 DEF UsedInv, KeysOf
  <2>5. \A c \in new : c[1] \in w /\ c[1] \in Keys /\ c[2] = used[c[1]] /\ c \in Keys \X (0 .. ClockBound)
    BY <2>4 DEF UsedInv
  <2>6. \A k \in w : <<k, used[k]>> \in new
    BY <2>4
  <2> HIDE DEF new
  <2>7. ret'[t] \in Progress /\ ret'[t].sample = ret[t].sample \cup new
    BY <1>2, <2>2, <2>5 DEF Progress
  <2>8. \A c \in ret'[t].sample : c[1] \in Judged(t)' => c[2] = used'[c[1]]
    BY <1>2, <1>3, <2>5, <2>7 DEF Sampling
  <2>9. ASSUME NEW k \in Judged(t)', ShardOf[k] < shard'[t]
        PROVE  <<k, used'[k]>> \in ret'[t].sample
    <3>1. k \in Keys /\ k \in Judged(t) /\ used'[k] = used[k] /\ store.str[k] # None
      BY <1>3
    <3>2. ShardOf[k] \in Nat
      BY <3>1, ShardAssumption
    <3>3. CASE ShardOf[k] < shard[t]
      BY <1>2, <2>7, <3>1, <3>3 DEF Sampling
    <3>4. CASE ShardOf[k] = shard[t]
      <4>1. k \in KeysOf(shard[t])
        BY <3>1, <3>4 DEF KeysOf
      <4>2. ~Overfull(t)
        BY <1>3, <4>1
      <4> DEFINE present == {j \in KeysOf(shard[t]) : store.str[j] # None}
      <4>3. ~(Cardinality(present) > SampleSize)
        BY <1>1, <2>1, <4>2 DEF Overfull
      <4>4. IsFiniteSet(present) /\ Cardinality(present) \in Nat
        <5>1. present \subseteq Keys
          BY DEF KeysOf
        <5> HIDE DEF present
        <5> QED
          BY <5>1, FS_Subset, FS_CardinalityType
      <4>5. Cardinality(present) <= SampleSize /\ SampleSize \in Nat
        BY <4>3, <4>4, RequestAssumption
      <4>6. w = present
        BY <4>5, WholeWindow
      <4>7. k \in w
        BY <3>1, <4>1, <4>6
      <4> QED
        BY <2>6, <2>7, <3>1, <4>7
    <3> QED
      BY <2>1, <2>9, <3>2, <3>3, <3>4
  <2>10. Sampling(t)'
    BY <2>8, <2>9 DEF Sampling
  <2> QED
    BY <2>1, <2>7, <2>10 DEF OrderOf
<1> QED
  BY <1>4, <1>5 DEF SampleShard

LEMMA SampleIsFinite ==
  ASSUME IsFiniteSet(Keys), NEW S \in SUBSET (Keys \X (0 .. ClockBound))
  PROVE  Cardinality(S) \in Nat
<1>1. IsFiniteSet(0 .. ClockBound)
  BY RequestAssumption, FS_Interval
<1>2. IsFiniteSet(Keys \X (0 .. ClockBound))
  BY <1>1, FS_Product
<1> QED
  BY <1>2, FS_Subset, FS_CardinalityType

LEMMA EvictionFields ==
  ASSUME NEW r \in AllRequests, r.op = "evict"
  PROVE  r.count \in Nat
BY RequestAssumption DEF AllRequests, KeyOps, KeyReads

LEMMA OrderSorted ==
  ASSUME IsFiniteSet(Keys), IInv, UsedInv, OrderInv, EvictionNext,
         NEW t \in Threads, Evicting(t)', Evicting(t), Sort(t)
  PROVE  OrderOf(t)'
<1> DEFINE sample == ret[t].sample
           target == IF req[t].count < Cardinality(sample)
                     THEN req[t].count ELSE Cardinality(sample)
<1>1. /\ In(t, "evict", "sort") /\ shard[t] = NumShards /\ Sampling(t) /\ ret[t] \in Progress
      /\ UNCHANGED store
  BY DEF OrderInv, Sort, In
<1>2. PICK order \in [1 .. target -> sample] :
        /\ \A p, q \in 1 .. target : p < q => order[p] # order[q] /\ order[p][2] <= order[q][2]
        /\ \A c \in sample, p \in 1 .. target :
             (\A q \in 1 .. target : order[q] # c) => order[p][2] <= c[2]
        /\ ret' = [ret EXCEPT ![t] =
              [sample |-> {}, victims |-> [p \in 1 .. target |-> order[p][1]], evicted |-> 0]]
  BY DEF Sort
<1>3. pc'[t] = "evict"
  BY DEF Sort, IInv, TypeOK
<1>4. sample \in SUBSET (Keys \X (0 .. ClockBound))
  BY <1>1 DEF Progress
<1>5. target \in Nat
  <2>1. Cardinality(sample) \in Nat
    BY <1>4, SampleIsFinite
  <2>2. req[t] \in AllRequests /\ req[t].op = "evict"
    BY <1>1, InRequest DEF IInv, In
  <2>3. req[t].count \in Nat
    BY <2>2, EvictionFields
  <2> QED
    BY <2>1, <2>3
<1> HIDE DEF target, sample
<1> DEFINE victims == [p \in 1 .. target |-> order[p][1]]
<1>6. \A p \in 1 .. target : /\ order[p] \in sample
                             /\ order[p][1] \in Keys /\ order[p][2] \in 0 .. ClockBound
  BY <1>2, <1>4
<1>7. victims \in Seq(Keys) /\ Len(victims) = target
  BY <1>5, <1>6
<1>8. ret'[t] = [sample |-> {}, victims |-> victims, evicted |-> 0]
  BY <1>2 DEF IInv, RetInv
<1>9. ret'[t] \in Progress
  BY <1>7, <1>8 DEF Progress
<1>10. ASSUME NEW p \in 1 .. target, NEW j \in Judged(t)', victims[p] \in Judged(t)'
       PROVE  \/ used'[victims[p]] <= used'[j]
              \/ \E q \in 1 .. p - 1 : victims[q] = j
  <2>1. /\ j \in Judged(t) /\ used'[j] = used[j] /\ j \in Keys
        /\ victims[p] \in Judged(t) /\ used'[victims[p]] = used[victims[p]]
    BY <1>10, JudgedStays
  <2>2. <<j, used[j]>> \in sample
    <3>1. ShardOf[j] < NumShards
      BY <2>1, ShardAssumption
    <3> QED
      BY <1>1, <2>1, <3>1 DEF Sampling, sample
  <2>3. victims[p] = order[p][1] /\ order[p] \in sample
    BY <1>6
  <2>4. order[p][2] = used[victims[p]]
    BY <1>1, <2>1, <2>3 DEF Sampling, sample
  <2>5. CASE \A q \in 1 .. target : order[q] # <<j, used[j]>>
    <3>1. order[p][2] <= <<j, used[j]>>[2]
      BY <1>2, <2>2, <2>5
    <3> QED
      BY <2>1, <2>4, <3>1
  <2>6. ASSUME NEW q \in 1 .. target, order[q] = <<j, used[j]>>
        PROVE  \/ used'[victims[p]] <= used'[j]
               \/ \E z \in 1 .. p - 1 : victims[z] = j
    <3>1. victims[q] = j /\ order[q][2] = used[j]
      BY <2>6
    <3>2. CASE q < p
      <4>1. q \in 1 .. p - 1
        BY <1>5, <3>2
      <4> QED
        BY <3>1, <4>1
    <3>3. CASE q = p
      BY <1>6, <2>1, <2>4, <3>1, <3>3
    <3>4. CASE p < q
      <4>1. order[p][2] <= order[q][2]
        BY <1>2, <3>4
      <4> QED
        BY <2>1, <2>4, <3>1, <4>1
    <3>5. q < p \/ q = p \/ p < q
      BY <1>5
    <3> QED
      BY <3>2, <3>3, <3>4, <3>5
  <2> QED
    BY <2>5, <2>6
<1> HIDE DEF victims
<1>11. InOrder(t)'
  BY <1>7, <1>8, <1>10 DEF InOrder
<1> QED
  BY <1>3, <1>9, <1>11 DEF OrderOf

\* The victim erased is the one used first of all that are judged.
LEMMA FirstGoes ==
  ASSUME IInv, UsedInv, OrderInv, NEW t \in Threads, EvictNext(t),
         NEW k \in Judged(t), store'.str[k] = None
  PROVE  /\ ret[t].victims # << >> /\ k = Head(ret[t].victims)
         /\ \A j \in Judged(t) : used[k] <= used[j]
<1> DEFINE victims == ret[t].victims
<1>1. In(t, "evict", "evict") /\ k \in Keys /\ store.str[k] # None
  BY DEF EvictNext, Judged
<1>2. Evicting(t)
  BY <1>1 DEF In, Evicting, IInv, CallInv
<1>3. victims \in Seq(Keys) /\ InOrder(t)
  BY <1>1, <1>2 DEF OrderInv, Progress, In
<1>4. victims # << >> /\ store' = AfterErase(store, Head(victims))
  BY <1>1 DEF EvictNext
<1>5. k = Head(victims)
  BY <1>1, <1>4 DEF AfterErase
<1>6. 1 \in 1 .. Len(victims) /\ Head(victims) = victims[1]
  BY <1>3, <1>4
<1>7. ASSUME NEW j \in Judged(t) PROVE used[k] <= used[j]
  <2>1. ~\E q \in 1 .. 1 - 1 : victims[q] = j
    OBVIOUS
  <2> QED
    BY <1>3, <1>5, <1>6, <2>1 DEF InOrder
<1> QED
  BY <1>4, <1>5, <1>7

LEMMA OrderEvicted ==
  ASSUME IInv, UsedInv, OrderInv, EvictionNext,
         NEW t \in Threads, Evicting(t)', Evicting(t), EvictNext(t)
  PROVE  OrderOf(t)'
<1> DEFINE victims == ret[t].victims
<1>1. In(t, "evict", "evict") /\ InOrder(t) /\ ret[t] \in Progress
  BY DEF OrderInv, EvictNext, In
<1>2. CASE victims = << >>
  <2>1. pc'[t] = "done" /\ ret'[t] = ret[t]
    BY <1>2 DEF EvictNext, Finish, IInv, TypeOK, RetInv
  <2> QED
    BY <1>1, <2>1 DEF OrderOf
<1>3. CASE victims # << >>
  <2> DEFINE n == IF store.str[Head(victims)] = None THEN ret[t].evicted ELSE ret[t].evicted + 1
  <2>1. /\ ret'[t] = [ret[t] EXCEPT !.victims = Tail(victims), !.evicted = n]
        /\ store' = AfterErase(store, Head(victims)) /\ pc'[t] = "evict"
    BY <1>1, <1>3 DEF EvictNext, In, IInv, RetInv
  <2>2. victims \in Seq(Keys) /\ Len(victims) > 0 /\ n \in Nat
    BY <1>1, <1>3 DEF Progress
  <2> HIDE DEF n
  <2>3. ret'[t] \in Progress /\ ret'[t].victims = Tail(victims)
    <3>1. Tail(victims) \in Seq(Keys)
      BY <2>2
    <3> DEFINE rest == Tail(victims)
    <3> HIDE DEF rest
    <3>2. rest \in Seq(Keys) /\ ret'[t] = [ret[t] EXCEPT !.victims = rest, !.evicted = n]
      BY <2>1, <3>1 DEF rest
    <3>3. ret'[t] \in Progress /\ ret'[t].victims = rest
      BY <1>1, <2>2, <3>2 DEF Progress
    <3> QED
      BY <3>3 DEF rest
  <2>4. /\ Len(Tail(victims)) = Len(victims) - 1
        /\ \A p \in 1 .. Len(Tail(victims)) : Tail(victims)[p] = victims[p + 1] /\ p + 1 \in 1 .. Len(victims)
    BY <2>2
  <2>5. ASSUME NEW p \in 1 .. Len(Tail(victims)), NEW j \in Judged(t)',
               Tail(victims)[p] \in Judged(t)'
        PROVE  \/ used'[Tail(victims)[p]] <= used'[j]
               \/ \E q \in 1 .. p - 1 : Tail(victims)[q] = j
    <3>1. /\ j \in Judged(t) /\ used'[j] = used[j] /\ store'.str[j] # None /\ j \in Keys
          /\ Tail(victims)[p] \in Judged(t) /\ used'[Tail(victims)[p]] = used[Tail(victims)[p]]
      BY <2>5, JudgedStays
    <3>2. victims[p + 1] = Tail(victims)[p] /\ p + 1 \in 1 .. Len(victims)
      BY <2>4
    <3>3. CASE used[victims[p + 1]] <= used[j]
      BY <3>1, <3>2, <3>3
    <3>4. ASSUME NEW q \in 1 .. p, victims[q] = j
          PROVE  \E z \in 1 .. p - 1 : Tail(victims)[z] = j
      <4>1. q # 1
        <5>1. SUFFICES ASSUME q = 1 PROVE FALSE
          OBVIOUS
        <5>2. j = Head(victims)
          BY <2>2, <3>4, <5>1
        <5> QED
          BY <2>1, <3>1, <5>2 DEF AfterErase, IInv, TypeOK, Stores
      <4>2. q - 1 \in 1 .. p - 1 /\ q - 1 \in 1 .. Len(Tail(victims)) /\ q - 1 + 1 = q
        BY <2>4, <4>1, <2>2
      <4>3. Tail(victims)[q - 1] = victims[q - 1 + 1]
        BY <2>4, <4>2
      <4> QED
        BY <3>4, <4>2, <4>3
    <3>5. \/ used[victims[p + 1]] <= used[j]
          \/ \E q \in 1 .. p + 1 - 1 : victims[q] = j
      BY <1>1, <3>1, <3>2 DEF InOrder
    <3>6. p + 1 - 1 = p
      BY <2>4, <2>2
    <3> QED
      BY <3>3, <3>4, <3>5, <3>6
  <2>6. InOrder(t)'
    BY <2>3, <2>5 DEF InOrder
  <2> QED
    BY <2>1, <2>3, <2>6 DEF OrderOf
<1> QED
  BY <1>2, <1>3

LEMMA OrderStep ==
  ASSUME IsFiniteSet(Keys), IInv, UsedInv, OrderInv, EvictionNext
  PROVE  OrderInv'
<1> SUFFICES ASSUME NEW t \in Threads, Evicting(t)' PROVE OrderOf(t)'
  BY DEF OrderInv, OrderOf
<1>1. Next
  BY DEF EvictionNext
<1>2. CASE Rest(t) /\ Evicting(t)
  BY <1>2, OrderRests DEF Rest
<1>3. CASE \E r \in Requests : Call(t, r)
  BY <1>3, OrderBegins
<1>4. CASE Evicting(t) /\ (SampleShard(t) \/ Sort(t) \/ EvictNext(t))
  BY <1>4, OrderSampled, OrderSorted, OrderEvicted
<1> QED
  BY <1>1, <1>2, <1>3, <1>4, EvictionGoesOn

\* What EvictsLeastRecentlyUsed says of a step.
EvictsInOrder ==
  \A t \in Threads : EvictNext(t) =>
    \A k, j \in Keys \ excused[t] :
      store.str[k] # None /\ store'.str[k] = None /\ store'.str[j] # None => used[k] <= used[j]

\* README.md:90 and :229: of the strings that nobody has used since the
\* eviction was called, and that its sample had room for, none is erased while
\* one that was last used before it stays.
THEOREM EvictionFollowsUse ==
  ASSUME IsFiniteSet(Keys)
  PROVE  EvictionSpec => EvictsLeastRecentlyUsed
<1>1. EvictionInit => IInv /\ UsedInv /\ OrderInv
  <2> SUFFICES ASSUME EvictionInit PROVE IInv /\ UsedInv /\ OrderInv
    OBVIOUS
  <2>1. Init /\ IInv
    BY InitInv DEF EvictionInit
  <2>2. UsedInv
    BY <2>1, RequestAssumption DEF EvictionInit, Init, EmptyStore, UsedInv
  <2>3. OrderInv
    BY <2>1 DEF Init, OrderInv, Evicting
  <2> QED
    BY <2>1, <2>2, <2>3
<1>2. IInv /\ UsedInv /\ OrderInv /\ [EvictionNext]_evictionVars => (IInv /\ UsedInv /\ OrderInv)'
  <2>1. ASSUME IInv, UsedInv, OrderInv, EvictionNext PROVE (IInv /\ UsedInv /\ OrderInv)'
    BY <2>1, StepInv, UsedStep, OrderStep DEF EvictionNext
  <2>2. ASSUME IInv, UsedInv, OrderInv, UNCHANGED evictionVars PROVE (IInv /\ UsedInv /\ OrderInv)'
    <3> USE <2>2 DEF evictionVars, vars
    <3>1. IInv'
      BY StepInv
    <3>2. UsedInv'
      BY DEF UsedInv
    <3>3. OrderInv'
      BY DEF OrderInv, Evicting, Judged, Sampling, InOrder
    <3> QED
      BY <3>1, <3>2, <3>3
  <2> QED
    BY <2>1, <2>2
<1>3. IInv /\ UsedInv /\ OrderInv /\ [EvictionNext]_evictionVars => [EvictsInOrder]_evictionVars
  <2> SUFFICES ASSUME IInv, UsedInv, OrderInv, EvictionNext PROVE EvictsInOrder
    OBVIOUS
  <2> SUFFICES ASSUME NEW t \in Threads, EvictNext(t), NEW k \in Keys \ excused[t],
                      NEW j \in Keys \ excused[t], store.str[k] # None,
                      store'.str[k] = None, store'.str[j] # None
               PROVE  used[k] <= used[j]
    BY DEF EvictsInOrder
  <2>1. k \in Judged(t)
    BY DEF Judged
  <2>2. store.str[j] # None
    BY DEF EvictNext, AfterErase, IInv, TypeOK, Stores
  <2>3. j \in Judged(t)
    BY <2>2 DEF Judged
  <2> QED
    BY <2>1, <2>3, FirstGoes
<1>4. EvictsLeastRecentlyUsed <=> [][EvictsInOrder]_evictionVars
  BY DEF EvictsLeastRecentlyUsed, EvictsInOrder
<1> QED
  BY <1>1, <1>2, <1>3, <1>4, PTL DEF EvictionSpec

-----------------------------------------------------------------------------
(* The janitor and the clients                                             *)

\* The janitor is inside the store exactly while its loop waits for a call,
\* of the method the loop has called.
LoopInv ==
  /\ jpc \in {"purge", "size", "evict"} <=> pc[JanitorThread] # "idle"
  /\ jpc \in {"purge", "size", "evict"} => req[JanitorThread].op = jpc
  /\ jpc = "size" => ret[JanitorThread] \in Nat

\* Once server.start() has returned no client is inside, and once main() has
\* joined the janitor its loop has ended.
MainInv ==
  /\ main # "serving" => \A t \in Clients : pc[t] = "idle"
  /\ main = "closed" => jpc = "exited"

\* The types of what the janitor and main() keep.
LoopTypes ==
  /\ running \in BOOLEAN
  /\ main \in {"serving", "joining", "closed"}
  /\ jpc \in {"test", "sleep", "purge", "purged", "size", "over", "evict", "exited"}
  /\ over \in Nat

\* The clients call the methods in use.
ClientInv == \A t \in Clients : req[t] # None => req[t].op \in Ops

\* The inductive invariant.
JanitorInv == IInv /\ LoopTypes /\ LoopInv /\ MainInv /\ ClientInv

-----------------------------------------------------------------------------
(* The steps, as the store sees them                                       *)

\* The janitor's requests are requests.
LEMMA JanitorRequests ==
  ASSUME LoopTypes, Nat \subseteq Counts
  PROVE  /\ [op |-> "purge", limit |-> PurgeLimit] \in AllRequests
         /\ [op |-> "size"] \in AllRequests
         /\ [op |-> "evict", count |-> over] \in AllRequests
BY JanitorAssumption DEF LoopTypes, AllRequests

\* A thread calls a method: a client one of those in use, the janitor a walk.
Enters(t) == \E r \in AllRequests :
  Call(t, r) /\ (r.op \notin Walks => r \in Requests)

\* For the store a step is nothing, time, a call, a section or a return.
StoreStep ==
  \/ UNCHANGED vars
  \/ Tick
  \/ \E t \in Threads : Enters(t) \/ Section(t) \/ Return(t)

\* The janitor's loop, main() and the clients make no other steps.
LEMMA StepsOfStore ==
  ASSUME LoopTypes, Nat \subseteq Counts, [JanitorNext]_allVars
  PROVE  StoreStep
<1>1. CASE Wait \/ Signal \/ StartReturns \/ JoinJanitor \/ JTest \/ UNCHANGED allVars
  BY <1>1 DEF Wait, Signal, StartReturns, JoinJanitor, JTest, allVars, StoreStep
<1>2. ASSUME NEW t \in Clients, Serve(t) PROVE StoreStep
  <2>1. t \in Threads
    BY DEF Clients
  <2>2. ASSUME NEW r \in Requests, Call(t, r) PROVE Enters(t)
    BY <2>2 DEF Enters, Requests
  <2> QED
    BY <1>2, <2>1, <2>2 DEF Serve, StoreStep
<1>3. CASE JPurge \/ JSize \/ JEvict
  <2>1. \E r \in AllRequests : r.op \in Walks /\ Call(JanitorThread, r)
    BY <1>3, JanitorRequests DEF JPurge, JSize, JEvict, JCall, Walks
  <2>2. Enters(JanitorThread)
    BY <2>1 DEF Enters
  <2> QED
    BY <2>2, JanitorAssumption DEF StoreStep
<1>4. CASE JPurged \/ JSized \/ JEvicted \/ Section(JanitorThread)
  BY <1>4, JanitorAssumption DEF JPurged, JSized, JEvicted, StoreStep
<1> QED
  BY <1>1, <1>2, <1>3, <1>4 DEF JanitorNext, JStep

\* Each of them keeps the invariant of the store.
LEMMA StoreStepKeeps == ASSUME IInv, StoreStep PROVE IInv'
BY TickKeeps, CallKeeps, SectionKeeps, ReturnKeeps, StutterKeeps DEF StoreStep, Enters

-----------------------------------------------------------------------------
(* The invariant                                                           *)

\* size counts a number of keys in a shard.
LEMMA CountType ==
  ASSUME IsFiniteSet(Keys), NEW st, NEW s, NEW at
  PROVE  ShardCount(st, s, at) \in Nat
<1> DEFINE A == {k \in KeysOf(s) : Live(st.str[k], at)}
           B == {k \in KeysOf(s) : st.hash[k] # None}
           C == {k \in KeysOf(s) : st.list[k] # None}
<1>1. A \in SUBSET Keys /\ B \in SUBSET Keys /\ C \in SUBSET Keys
  BY DEF KeysOf
<1>2. ShardCount(st, s, at) = Cardinality(A) + Cardinality(B) + Cardinality(C)
  BY DEF ShardCount
<1> HIDE DEF A, B, C
<1>3. Cardinality(A) \in Nat /\ Cardinality(B) \in Nat /\ Cardinality(C) \in Nat
  BY <1>1, FS_Subset, FS_CardinalityType
<1> QED
  BY <1>2, <1>3

\* A section keeps the request, and the call goes on; a size goes on counting.
LEMMA SectionCounts ==
  ASSUME IsFiniteSet(Keys), IInv, NEW t \in Threads, Section(t)
  PROVE  /\ pc[t] # "idle" /\ pc'[t] # "idle" /\ UNCHANGED req
         /\ \A u \in Threads \ {t} : pc'[u] = pc[u] /\ ret'[u] = ret[u]
         /\ req[t].op = "size" /\ ret[t] \in Nat => ret'[t] \in Nat
<1>1. /\ pc[t] # "idle" /\ pc'[t] # "idle" /\ UNCHANGED req
      /\ \A u \in Threads \ {t} : pc'[u] = pc[u]
  BY SectionMoves DEF IInv, TypeOK, Busy
<1>2. \A u \in Threads \ {t} : ret'[u] = ret[u]
  BY SectionMoves DEF IInv, RetInv
<1>3. ASSUME req[t].op = "size", ret[t] \in Nat PROVE ret'[t] \in Nat
  <2>1. SizeShard(t)
    BY <1>3 DEF Section, In, Set, GetLookup, GetTouch, GetReap, Del, Exists, Expire, TtlLookup,
         TtlReap, Incr, HSet, HDel, HashRead, LPush, RPush, LPop, RPop, ListRead, PurgeShard,
         ClearShard, SnapshotShard, SampleShard, Sort, EvictNext
  <2>2. ret'[t] = ret[t] + ShardCount(store, shard[t], now[t])
    BY <2>1 DEF SizeShard, Walk, IInv, RetInv
  <2> QED
    BY <1>3, <2>2, CountType
<1> QED
  BY <1>1, <1>2, <1>3

\* The initial state.
LEMMA JanitorInitInv == JanitorInit => JanitorInv
<1> SUFFICES ASSUME JanitorInit PROVE JanitorInv
  OBVIOUS
<1>1. IInv
  BY InitInv DEF JanitorInit
<1>2. LoopTypes /\ LoopInv /\ MainInv /\ ClientInv
  BY JanitorAssumption DEF JanitorInit, Init, LoopTypes, LoopInv, MainInv, ClientInv, Clients
<1> QED
  BY <1>1, <1>2 DEF JanitorInv

\* The types of the loop and of main().
LEMMA LoopTypesKept ==
  ASSUME JanitorInv, [JanitorNext]_allVars
  PROVE  LoopTypes'
<1> USE DEF JanitorInv, LoopTypes
<1>1. CASE JSized
  <2>1. ret[JanitorThread] \in Nat
    BY <1>1 DEF JSized, LoopInv
  <2> QED
    BY <1>1, <2>1, JanitorAssumption DEF JSized
<1>2. CASE Wait \/ UNCHANGED allVars \/ \E t \in Clients : Serve(t)
  BY <1>2 DEF Wait, allVars, Serve, loopVars
<1>3. CASE Signal \/ StartReturns \/ JoinJanitor
  BY <1>3 DEF Signal, StartReturns, JoinJanitor
<1>4. CASE JTest \/ JPurge \/ JPurged \/ JSize \/ JEvict \/ JEvicted
  BY <1>4 DEF JTest, JPurge, JPurged, JSize, JEvict, JEvicted, JCall
<1>5. CASE Section(JanitorThread) /\ UNCHANGED loopVars
  BY <1>5 DEF loopVars
<1> QED
  BY <1>1, <1>2, <1>3, <1>4, <1>5 DEF JanitorNext, JStep

\* A client's step: only while the server serves, and it moves nobody else.
LEMMA ClientStep ==
  ASSUME IsFiniteSet(Keys), JanitorInv, NEW t \in Clients, Serve(t)
  PROVE  /\ main = "serving" /\ UNCHANGED loopVars
         /\ \A u \in Threads \ {t} : pc'[u] = pc[u] /\ ret'[u] = ret[u] /\ req'[u] = req[u]
         /\ req'[t] # None => req'[t].op \in Ops
<1> USE DEF JanitorInv
<1>1. t \in Threads /\ UNCHANGED loopVars
  BY DEF Clients, Serve
<1>2. ASSUME NEW r \in Requests, main = "serving", Call(t, r)
      PROVE  /\ main = "serving"
             /\ \A u \in Threads \ {t} : pc'[u] = pc[u] /\ ret'[u] = ret[u] /\ req'[u] = req[u]
             /\ req'[t] # None => req'[t].op \in Ops
  BY <1>1, <1>2 DEF Call, IInv, TypeOK, RetInv, Requests
<1>3. CASE Section(t)
  <2>1. /\ pc[t] # "idle" /\ UNCHANGED req
        /\ \A u \in Threads \ {t} : pc'[u] = pc[u] /\ ret'[u] = ret[u]
    BY <1>1, <1>3, SectionCounts
  <2> QED
    BY <1>1, <2>1 DEF MainInv, LoopTypes, ClientInv
<1>4. CASE Return(t)
  <2>1. pc[t] # "idle"
    BY <1>4 DEF Return
  <2> QED
    BY <1>1, <1>4, <2>1 DEF Return, IInv, TypeOK, RetInv, MainInv
<1> QED
  BY <1>1, <1>2, <1>3, <1>4 DEF Serve

\* A step the janitor's own section makes.
LEMMA JanitorSection ==
  ASSUME IsFiniteSet(Keys), JanitorInv, Section(JanitorThread), UNCHANGED loopVars
  PROVE  LoopInv' /\ MainInv' /\ ClientInv'
<1> USE DEF JanitorInv
<1>1. /\ pc[JanitorThread] # "idle" /\ pc'[JanitorThread] # "idle" /\ UNCHANGED req
      /\ \A u \in Clients : pc'[u] = pc[u]
      /\ req[JanitorThread].op = "size" /\ ret[JanitorThread] \in Nat => ret'[JanitorThread] \in Nat
  BY JanitorAssumption, SectionCounts DEF Clients
<1>2. LoopInv'
  BY <1>1 DEF LoopInv, loopVars
<1>3. MainInv'
  BY <1>1 DEF MainInv, loopVars
<1>4. ClientInv'
  BY <1>1 DEF ClientInv
<1> QED
  BY <1>2, <1>3, <1>4

\* A call the janitor makes, for which its loop goes to the place where it
\* waits for it.
LEMMA JanitorCalls ==
  ASSUME JanitorInv, JPurge \/ JSize \/ JEvict
  PROVE  LoopInv' /\ MainInv' /\ ClientInv'
<1> USE DEF JanitorInv
<1>1. PICK r, p : /\ JCall(r, p) /\ r.op = p /\ p \in {"purge", "size", "evict"}
                  /\ jpc \notin {"purge", "size", "evict", "exited"}
  <2>1. CASE JPurge
    <3> DEFINE r == [op |-> "purge", limit |-> PurgeLimit]
    <3>1. JCall(r, "purge") /\ r.op = "purge" /\ jpc = "sleep"
      BY <2>1 DEF JPurge
    <3> HIDE DEF r
    <3> QED
      BY <3>1
  <2>2. CASE JSize
    <3> DEFINE r == [op |-> "size"]
    <3>1. JCall(r, "size") /\ r.op = "size" /\ jpc = "purged"
      BY <2>2 DEF JSize
    <3> HIDE DEF r
    <3> QED
      BY <3>1
  <2>3. CASE JEvict
    <3> DEFINE r == [op |-> "evict", count |-> over]
    <3>1. JCall(r, "evict") /\ r.op = "evict" /\ jpc = "over"
      BY <2>3 DEF JEvict
    <3> HIDE DEF r
    <3> QED
      BY <3>1
  <2> QED
    BY <2>1, <2>2, <2>3
<1>2. /\ pc'[JanitorThread] = "run" /\ req'[JanitorThread] = r
      /\ ret'[JanitorThread] = NothingYet(r) /\ jpc' = p /\ UNCHANGED <<running, main>>
      /\ \A u \in Clients : pc'[u] = pc[u] /\ req'[u] = req[u]
  BY <1>1, JanitorAssumption DEF JCall, Call, IInv, TypeOK, RetInv, Clients
<1>3. r.op = "size" => NothingYet(r) = 0
  BY DEF NothingYet
<1>4. LoopInv'
  BY <1>1, <1>2, <1>3 DEF LoopInv
<1>5. MainInv'
  BY <1>1, <1>2 DEF MainInv
<1>6. ClientInv'
  BY <1>2 DEF ClientInv
<1> QED
  BY <1>4, <1>5, <1>6

\* A return to the janitor.
LEMMA JanitorReturns ==
  ASSUME JanitorInv, JPurged \/ JSized \/ JEvicted
  PROVE  LoopInv' /\ MainInv' /\ ClientInv'
<1> USE DEF JanitorInv
<1>1. /\ Return(JanitorThread) /\ jpc \in {"purge", "size", "evict"}
      /\ jpc' \in {"purged", "over", "test"} /\ UNCHANGED <<running, main>>
  BY DEF JPurged, JSized, JEvicted
<1>2. /\ pc'[JanitorThread] = "idle"
      /\ \A u \in Clients : pc'[u] = pc[u] /\ req'[u] = req[u]
  BY <1>1, JanitorAssumption DEF Return, IInv, TypeOK, Clients
<1>3. LoopInv'
  BY <1>1, <1>2 DEF LoopInv
<1>4. MainInv'
  BY <1>1, <1>2 DEF MainInv
<1>5. ClientInv'
  BY <1>2 DEF ClientInv
<1> QED
  BY <1>3, <1>4, <1>5

\* Steps of the loop and of main() outside the store.
LEMMA OutsideSteps ==
  ASSUME JanitorInv, Wait \/ JTest \/ Signal \/ StartReturns \/ JoinJanitor \/ UNCHANGED allVars
  PROVE  LoopInv' /\ MainInv' /\ ClientInv'
<1> USE DEF JanitorInv
<1>1. UNCHANGED <<pc, req, ret>>
  BY DEF Wait, Tick, JTest, Signal, StartReturns, JoinJanitor, allVars, vars
<1>2. LoopInv'
  <2>1. \/ jpc' = jpc
        \/ jpc = "test" /\ jpc' \in {"sleep", "exited"}
    BY DEF Wait, JTest, Signal, StartReturns, JoinJanitor, allVars, loopVars
  <2> QED
    BY <1>1, <2>1 DEF LoopInv
<1>3. MainInv'
  <2>1. \/ main' = main /\ (jpc' = jpc \/ jpc = "test")
        \/ jpc' = jpc /\ main' = "joining" /\ \A t \in Clients : pc[t] = "idle"
        \/ jpc' = jpc /\ main = "joining" /\ main' = "closed" /\ jpc = "exited"
    BY DEF Wait, JTest, Signal, StartReturns, JoinJanitor, allVars, loopVars
  <2> QED
    BY <1>1, <2>1 DEF MainInv
<1>4. ClientInv'
  BY <1>1 DEF ClientInv
<1> QED
  BY <1>2, <1>3, <1>4

\* Every step preserves the invariant.
LEMMA JanitorStepInv ==
  ASSUME IsFiniteSet(Keys), Nat \subseteq Counts
  PROVE  JanitorInv /\ [JanitorNext]_allVars => JanitorInv'
<1> SUFFICES ASSUME JanitorInv, [JanitorNext]_allVars PROVE JanitorInv'
  OBVIOUS
<1>1. IInv'
  BY StepsOfStore, StoreStepKeeps DEF JanitorInv
<1>2. LoopTypes'
  BY LoopTypesKept
<1>3. ASSUME NEW t \in Clients, Serve(t) PROVE LoopInv' /\ MainInv' /\ ClientInv'
  <2>1. /\ main = "serving" /\ UNCHANGED loopVars
        /\ \A u \in Threads \ {t} : pc'[u] = pc[u] /\ ret'[u] = ret[u] /\ req'[u] = req[u]
        /\ req'[t] # None => req'[t].op \in Ops
    BY <1>3, ClientStep
  <2>2. JanitorThread \in Threads \ {t}
    BY JanitorAssumption DEF Clients
  <2>3. LoopInv'
    BY <2>1, <2>2 DEF JanitorInv, LoopInv, loopVars
  <2>4. MainInv'
    BY <2>1 DEF MainInv, loopVars
  <2>5. ClientInv'
    BY <2>1 DEF JanitorInv, ClientInv, Clients
  <2> QED
    BY <2>3, <2>4, <2>5
<1>4. LoopInv' /\ MainInv' /\ ClientInv'
  BY <1>3, JanitorSection, JanitorCalls, JanitorReturns, OutsideSteps DEF JanitorNext, JStep
<1> QED
  BY <1>1, <1>2, <1>4 DEF JanitorInv

\* JanitorInv is inductive.
THEOREM JanitorInvariance ==
  ASSUME IsFiniteSet(Keys), Nat \subseteq Counts
  PROVE  JanitorSpec => []JanitorInv
BY JanitorInitInv, JanitorStepInv, PTL DEF JanitorSpec

\* The excess over max_keys that the janitor hands to evict_lru_keys, an
\* unsigned difference (main.cpp:84-87), is never negative, whatever clients
\* do between the count and the test.
THEOREM JanitorTypeCorrect ==
  ASSUME IsFiniteSet(Keys), Nat \subseteq Counts
  PROVE  JanitorSpec => []JanitorTypeOK
<1>1. JanitorInv => JanitorTypeOK
  BY DEF JanitorInv, IInv, LoopTypes, JanitorTypeOK
<1> QED
  BY JanitorInvariance, <1>1, PTL

\* main() destroys the store only after the janitor's loop has ended and no
\* command is being executed (main.cpp:74-119), whenever the signal comes.
THEOREM NobodyInside ==
  ASSUME IsFiniteSet(Keys), Nat \subseteq Counts
  PROVE  JanitorSpec => []NobodyInsideWhenClosed
<1>1. JanitorInv => NobodyInsideWhenClosed
  <2> SUFFICES ASSUME JanitorInv, main = "closed", NEW t \in Threads PROVE pc[t] = "idle"
    BY DEF NobodyInsideWhenClosed
  <2>1. CASE t = JanitorThread
    BY <2>1 DEF JanitorInv, LoopInv, MainInv
  <2>2. CASE t # JanitorThread
    BY <2>2 DEF JanitorInv, MainInv, Clients
  <2> QED
    BY <2>1, <2>2
<1> QED
  BY JanitorInvariance, <1>1, PTL

-----------------------------------------------------------------------------
(* One client                                                              *)

\* The janitor only takes strings away.
LEMMA JanitorTakes ==
  ASSUME JanitorInv, Section(JanitorThread), NEW k \in Keys
  PROVE  store'.str[k] \in {store.str[k], None}
<1>1. pc[JanitorThread] # "idle" /\ store \in Stores
  BY JanitorAssumption, SectionMoves DEF JanitorInv, IInv, TypeOK
<1>2. req[JanitorThread].op \in {"purge", "size", "evict"}
  BY <1>1 DEF JanitorInv, LoopInv
<1>3. \/ SizeShard(JanitorThread) \/ PurgeShard(JanitorThread)
      \/ SampleShard(JanitorThread) \/ Sort(JanitorThread) \/ EvictNext(JanitorThread)
  BY <1>2 DEF Section, In, Set, GetLookup, GetTouch, GetReap, Del, Exists, Expire, TtlLookup,
       TtlReap, Incr, HSet, HDel, HashRead, LPush, RPush, LPop, RPop, ListRead,
       ClearShard, SnapshotShard
<1>4. CASE SizeShard(JanitorThread) \/ SampleShard(JanitorThread) \/ Sort(JanitorThread)
  BY <1>4 DEF SizeShard, SampleShard, Sort
<1>5. CASE PurgeShard(JanitorThread)
  <2>1. PICK dead : store' = [store EXCEPT !.str =
                                [i \in Keys |-> IF i \in dead THEN None ELSE @[i]]]
    BY <1>5 DEF PurgeShard
  <2> QED
    BY <1>1, <2>1 DEF Stores
<1>6. CASE EvictNext(JanitorThread)
  <2>1. store' = store \/ \E i : store' = AfterErase(store, i)
    BY <1>6 DEF EvictNext
  <2> QED
    BY <1>1, <2>1 DEF AfterErase, Stores
<1> QED
  BY <1>3, <1>4, <1>5, <1>6

\* What ttl has found stands until it erases the entry.
AllStand == \A t \in Threads : VerdictStands(t)

\* With one client, nobody writes an entry while it is inside ttl.
LEMMA StandsKept ==
  ASSUME IsFiniteSet(Keys), Nat \subseteq Counts, NEW c, Clients = {c},
         JanitorInv, JanitorInv', AllStand, [JanitorNext]_allVars
  PROVE  AllStand'
<1>1. Threads = {c, JanitorThread} /\ c # JanitorThread /\ c \in Threads
  BY JanitorAssumption DEF Clients
<1>2. VerdictStands(JanitorThread)'
  BY DEF JanitorInv, LoopInv, VerdictStands, In
<1> SUFFICES VerdictStands(c)'
  BY <1>1, <1>2 DEF AllStand
<1> SUFFICES ASSUME In(c, "ttl", "reap")'
             PROVE  (store.str[req[c].key] = None \/ Expired(store.str[req[c].key], now[c]))'
  BY DEF VerdictStands
<1>3. pc'[c] = "reap" /\ req'[c].op = "ttl"
  BY DEF In
<1>4. StoreStep
  BY StepsOfStore DEF JanitorInv
<1>5. CASE \/ UNCHANGED vars \/ Tick
           \/ Enters(JanitorThread) \/ Return(JanitorThread)
  <2>1. UNCHANGED store /\ pc'[c] = pc[c] /\ req'[c] = req[c] /\ now'[c] = now[c]
    BY <1>1, <1>5 DEF vars, Tick, Enters, Call, Return, JanitorInv, IInv, TypeOK
  <2>2. store.str[req[c].key] = None \/ Expired(store.str[req[c].key], now[c])
    BY <1>1, <1>3, <2>1 DEF AllStand, VerdictStands, In
  <2> QED
    BY <2>1, <2>2
<1>6. CASE Section(JanitorThread)
  <2>1. UNCHANGED <<req, now>> /\ pc'[c] = pc[c]
    BY <1>1, <1>6, JanitorAssumption, SectionMoves DEF JanitorInv, IInv, TypeOK
  <2>2. store.str[req[c].key] = None \/ Expired(store.str[req[c].key], now[c])
    BY <1>1, <1>3, <2>1 DEF AllStand, VerdictStands, In
  <2>3. req[c].key \in Keys
    <3>1. req[c] \in AllRequests
      BY <1>1, <1>3, <2>1, InRequest DEF JanitorInv, IInv
    <3> QED
      BY <1>3, <2>1, <3>1, RequestFields DEF Walks
  <2>4. store'.str[req[c].key] \in {store.str[req[c].key], None}
    BY <1>6, <2>3, JanitorTakes
  <2> QED
    BY <2>1, <2>2, <2>4
<1>7. CASE Enters(c) \/ Return(c)
  BY <1>1, <1>3, <1>7 DEF Enters, Call, Return, JanitorInv, IInv, TypeOK
<1>8. CASE Section(c)
  <2>1. UNCHANGED <<req, now>>
    BY <1>1, <1>8, SectionMoves DEF JanitorInv, IInv
  <2>2. TtlLookup(c)
    <3>1. req[c].op = "ttl"
      BY <1>3, <2>1
    <3>2. TtlLookup(c) \/ TtlReap(c)
      BY <1>8, <3>1 DEF Section, In, Set, GetLookup, GetTouch, GetReap, Del, Exists, Expire,
         Incr, HSet, HDel, HashRead, LPush, RPush, LPop, RPop, ListRead, SizeShard,
         ClearShard, PurgeShard, SnapshotShard, SampleShard, Sort, EvictNext
    <3>3. ~TtlReap(c)
      BY <1>1, <1>3 DEF TtlReap, Finish, JanitorInv, IInv, TypeOK
    <3> QED
      BY <3>2, <3>3
  <2>3. Expired(store.str[req[c].key], now[c]) /\ UNCHANGED store
    BY <1>1, <1>3, <2>2 DEF TtlLookup, Finish, GoOn, JanitorInv, IInv, TypeOK
  <2> QED
    BY <2>1, <2>3
<1> QED
  BY <1>1, <1>4, <1>5, <1>6, <1>7, <1>8 DEF StoreStep

\* It always stands.
LEMMA VerdictsAlwaysStand ==
  ASSUME IsFiniteSet(Keys), Nat \subseteq Counts, NEW CONSTANT c, Clients = {c}
  PROVE  JanitorSpec => []AllStand
<1>1. JanitorInit => AllStand
  BY DEF JanitorInit, Init, AllStand, VerdictStands, In
<1>2. JanitorInv /\ JanitorInv' /\ AllStand /\ [JanitorNext]_allVars => AllStand'
  BY StandsKept
<1> QED
  BY JanitorInvariance, <1>1, <1>2, PTL DEF JanitorSpec

\* With one client, which is what the reactor thread is, and the janitor
\* purging and evicting beside it, the methods on one key are linearizable,
\* ttl included.
THEOREM ServerIsLinearizable ==
  ASSUME IsFiniteSet(Keys), Nat \subseteq Counts, NEW CONSTANT c, Clients = {c}, "clear" \notin Ops
  PROVE  JanitorSpec => Linearizable
<1>1. JanitorInv /\ AllStand /\ [JanitorNext]_allVars => Refined
  <2> SUFFICES ASSUME JanitorInv, AllStand, [JanitorNext]_allVars PROVE Refined
    OBVIOUS
  <2>1. StoreStep
    BY StepsOfStore DEF JanitorInv
  <2>2. ASSUME NEW t \in Threads, Section(t) PROVE Refined
    <3>1. req[t].op # "clear"
      <4>1. pc[t] # "idle"
        BY <2>2, SectionMoves DEF JanitorInv, IInv
      <4>2. CASE t = JanitorThread
        BY <4>1, <4>2 DEF JanitorInv, LoopInv
      <4>3. CASE t # JanitorThread
        BY <4>1, <4>3 DEF JanitorInv, ClientInv, Clients, IInv, CallInv
      <4> QED
        BY <4>2, <4>3
    <3> QED
      BY <2>2, <3>1, SectionRefines DEF JanitorInv, AllStand
  <2> QED
    BY <2>1, <2>2, CallRefines, ReturnRefines, TickRefines DEF StoreStep, Enters, JanitorInv
<1>2. JanitorInit => Atomic!Init
  BY InitRefines DEF JanitorInit
<1> QED
  BY JanitorInvariance, VerdictsAlwaysStand, <1>1, <1>2, PTL
     DEF JanitorSpec, Linearizable, Atomic!Spec, Refined

\* And asking changes nothing a client can see, ttl included.
THEOREM ServerQueriesInvisible ==
  ASSUME IsFiniteSet(Keys), Nat \subseteq Counts, NEW CONSTANT c, Clients = {c}
  PROVE  JanitorSpec => QueriesInvisible
<1>1. JanitorInv /\ AllStand /\ [JanitorNext]_allVars => Invisible
  <2> SUFFICES ASSUME JanitorInv, AllStand, [JanitorNext]_allVars PROVE Invisible
    OBVIOUS
  <2>1. StoreStep
    BY StepsOfStore DEF JanitorInv
  <2> QED
    BY <2>1, SectionInvisible, OutsideInvisible DEF StoreStep, Enters, JanitorInv, AllStand
<1>2. JanitorInv /\ AllStand /\ [JanitorNext]_allVars => [Invisible]_vars
  BY <1>1
<1>3. QueriesInvisible <=> [][Invisible]_vars
  BY DEF QueriesInvisible, Invisible
<1> QED
  BY JanitorInvariance, VerdictsAlwaysStand, <1>2, <1>3, PTL DEF JanitorSpec
=============================================================================
