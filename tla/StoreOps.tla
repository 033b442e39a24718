------------------------------ MODULE StoreOps ------------------------------
(***************************************************************************)
(* The sequential meaning of the methods of KeyValueStore: what one        *)
(* critical section reads from the three maps of a shard and what it       *)
(* leaves in them.  KeyValueStore.tla runs these sections concurrently,    *)
(* AtomicStore.tla runs each method in one step.                           *)
(*                                                                         *)
(* A store is a record of three maps.  A key belongs to exactly one shard, *)
(* so the maps of the 64 shards are modelled together, as functions on     *)
(* Keys; None is std::nullopt and the key that is not in a map.            *)
(***************************************************************************)
EXTENDS Integers, Sequences, FiniteSets, SequencesExt

CONSTANTS
  Keys,            \* the keys clients use
  Fields,          \* the fields of hashes
  Words,           \* values that are not the canonical text of a number
  StollOf,         \* what std::stoll makes of each word; None if it throws
  IntMin, IntMax,  \* the range of std::int64_t
  TimeMax,         \* greatest time_point: times are in -TimeMax-1 .. TimeMax
  TicksPerSecond,  \* resolution of steady_clock
  None             \* std::nullopt, and "not in the map"

Numbers == IntMin .. IntMax
Values  == Numbers \cup Words

\* struct StoreEntry.
Entries == [value : Values, expires_at : Int \cup {None}, last_accessed : Nat]

\* The fields of one hash, and the elements of one list.  A present hash
\* without fields is NoFields, a present list without elements is << >>.
Hashes   == [Fields -> Values \cup {None}]
NoFields == [f \in Fields |-> None]
Lists    == Seq(Values)

Stores == [str  : [Keys -> Entries \cup {None}],
           hash : [Keys -> Hashes \cup {None}],
           list : [Keys -> Lists \cup {None}]]

EmptyStore == [str  |-> [k \in Keys |-> None],
               hash |-> [k \in Keys |-> None],
               list |-> [k \in Keys |-> None]]

\* A store without its access times: the eviction reads them, nobody else.
Timeless(st) ==
  [st EXCEPT !.str = [k \in Keys |-> IF st.str[k] = None THEN None
                                     ELSE [st.str[k] EXCEPT !.last_accessed = 0]]]

ASSUME RangeAssumption ==
  /\ IntMin \in Int /\ IntMax \in Int
  /\ IntMin <= -1 /\ 1 <= IntMax
  /\ TimeMax \in Nat
  /\ TicksPerSecond \in Nat \ {0}

ASSUME NoneAssumption ==
  /\ None \notin Int
  /\ None \notin Words
  /\ None \notin Entries
  /\ None \notin Hashes
  /\ None \notin Lists

ASSUME StollAssumption ==
  /\ StollOf \in [Words -> Numbers \cup {None}]
  /\ Words \cap Numbers = {}

-----------------------------------------------------------------------------
(* Integers and time                                                       *)

\* Two's complement: what the addition the compiler emits returns when the
\* exact sum does not fit.
WrapOffByOne(n) == ((n - IntMin) % (IntMax - IntMin + 2)) + IntMin   \* mutant
Wrap(n)     == ((n - IntMin) % (IntMax - IntMin + 1)) + IntMin
WrapTime(n) == ((n + TimeMax + 1) % (2 * TimeMax + 2)) - TimeMax - 1

\* std::stoll reads the longest numeric prefix and throws without one.
Stoll(v) == IF v \in Words THEN StollOf[v] ELSE v

\* now + seconds(ttl): the product is in clock ticks, and both wrap.
After(now, ttl) == WrapTime(now + ttl * TicksPerSecond)

Expired(e, now) == e # None /\ e.expires_at # None /\ e.expires_at <= now
Live(e, now)    == e # None /\ ~Expired(e, now)

-----------------------------------------------------------------------------
(* Strings and counters                                                    *)

AfterSet(st, k, v, ttl, now) ==
  [st EXCEPT !.str[k] =
     [value         |-> v,
      expires_at    |-> IF ttl # None /\ ttl > 0 THEN After(now, ttl) ELSE None,
      last_accessed |-> now]]

AfterErase(st, k) == [st EXCEPT !.str[k] = None]

\* Mutant: get does not refresh the access time.
AfterNoTouch(st, k, now) == st

AfterTouch(st, k, now) ==
  IF st.str[k] = None THEN st ELSE [st EXCEPT !.str[k].last_accessed = now]

GetReply(st, k, now) ==
  IF Live(st.str[k], now) THEN st.str[k].value ELSE None

DelReply(st, k) ==
  st.str[k] # None \/ st.hash[k] # None \/ st.list[k] # None

AfterDel(st, k) ==
  [st EXCEPT !.str[k] = None, !.hash[k] = None, !.list[k] = None]

ExistsReply(st, k, now) ==
  Live(st.str[k], now) \/ st.hash[k] # None \/ st.list[k] # None

ExpireReply(st, k, now) == Live(st.str[k], now)

\* An expired entry is erased, and so is a live one when the new TTL is not
\* positive; erasing a key that is absent changes nothing.
AfterExpire(st, k, ttl, now) ==
  IF Live(st.str[k], now) /\ ttl > 0
  THEN [st EXCEPT !.str[k].expires_at = After(now, ttl)]
  ELSE AfterErase(st, k)

TtlReply(st, k, now) ==
  LET e == st.str[k] IN
  CASE e = None /\ (st.hash[k] # None \/ st.list[k] # None) -> -1
    [] e = None /\ st.hash[k] = None /\ st.list[k] = None   -> -2
    [] e # None /\ e.expires_at = None                      -> -1
    [] Expired(e, now)                                      -> -2
    [] OTHER -> (e.expires_at - now) \div TicksPerSecond

\* An absent or expired counter starts at delta and has no TTL; a live one
\* keeps its TTL.  Text stoll throws on leaves the entry alone.
IncrReply(st, k, delta, now) ==
  LET e == st.str[k] IN
  CASE ~Live(e, now) -> [ok |-> TRUE, val |-> delta]
    [] Live(e, now) /\ Stoll(e.value) = None -> [ok |-> FALSE, val |-> 0]
    [] OTHER -> [ok |-> TRUE, val |-> Wrap(Stoll(e.value) + delta)]

AfterIncr(st, k, delta, now) ==
  LET e == st.str[k]
      r == IncrReply(st, k, delta, now)
  IN IF ~r.ok
     THEN st
     ELSE [st EXCEPT !.str[k] =
             [value         |-> r.val,
              expires_at    |-> IF Live(e, now) THEN e.expires_at ELSE None,
              last_accessed |-> now]]

-----------------------------------------------------------------------------
(* Hashes                                                                  *)

HGetReply(st, k, f) == IF st.hash[k] = None THEN None ELSE st.hash[k][f]

AfterHSet(st, k, f, v) ==
  LET h == IF st.hash[k] = None THEN NoFields ELSE st.hash[k]
  IN [st EXCEPT !.hash[k] = [h EXCEPT ![f] = v]]

AfterHDel(st, k, f) ==
  IF st.hash[k] = None THEN st
  ELSE LET h == [st.hash[k] EXCEPT ![f] = None]
       IN [st EXCEPT !.hash[k] = IF h = NoFields THEN None ELSE h]

HGetAllReply(st, k) ==
  {<<f, HGetReply(st, k, f)>> : f \in {g \in Fields : HGetReply(st, k, g) # None}}

HLenReply(st, k) == Cardinality(HGetAllReply(st, k))

-----------------------------------------------------------------------------
(* Lists                                                                   *)

ListOf(st, k) == IF st.list[k] = None THEN << >> ELSE st.list[k]

AfterLPush(st, k, v) == [st EXCEPT !.list[k] = <<v>> \o ListOf(st, k)]
AfterRPush(st, k, v) == [st EXCEPT !.list[k] = Append(ListOf(st, k), v)]

\* Mutant: pop does not look whether the list is empty now.
StoredAlways(l) == l

\* A list is left behind only if it still has elements.
Stored(l) == IF l = << >> THEN None ELSE l

LPopReply(st, k) ==
  IF ListOf(st, k) = << >> THEN None ELSE Head(ListOf(st, k))

AfterLPop(st, k) ==
  IF ListOf(st, k) = << >> THEN st
  ELSE [st EXCEPT !.list[k] = Stored(Tail(@))]

RPopReply(st, k) ==
  LET l == ListOf(st, k) IN IF l = << >> THEN None ELSE l[Len(l)]

AfterRPop(st, k) ==
  IF ListOf(st, k) = << >> THEN st
  ELSE [st EXCEPT !.list[k] = Stored(SubSeq(@, 1, Len(@) - 1))]

\* Mutant: stop is taken for one past the last element.
LRangeExclusive(l, start, stop) ==
  LET at(i) == IF i < 0 THEN Len(l) + i ELSE i
      from  == IF at(start) < 0 THEN 0 ELSE at(start)
      end   == IF at(stop) < Len(l) THEN at(stop) ELSE Len(l)
  IN IF from >= end THEN << >> ELSE SubSeq(l, from + 1, end)

\* Indices count from 0; negative ones count from the end.
LRange(l, start, stop) ==
  LET len  == Len(l)
      from == IF start >= 0 THEN start
              ELSE IF len + start > 0 THEN len + start ELSE 0
      to   == IF stop < 0 THEN len + stop ELSE stop
      last == IF to < len - 1 THEN to ELSE len - 1
  IN IF from >= len \/ from > to THEN << >> ELSE SubSeq(l, from + 1, last + 1)

-----------------------------------------------------------------------------
(* Several arguments                                                       *)

\* get refreshes the access time of a live string and erases an expired one.
AfterGet(st, k, now) ==
  IF Expired(st.str[k], now) THEN AfterErase(st, k) ELSE AfterTouch(st, k, now)

\* The commands that go through their arguments one by one: MSET, MGET, DEL
\* and the pushes.
SetAll(st, pairs, now)  == FoldLeft(LAMBDA s, p : AfterSet(s, p[1], p[2], None, now), st, pairs)
GetAll(st, keys, now)   == FoldLeft(LAMBDA s, k : AfterGet(s, k, now), st, keys)
DelAll(st, keys)        == FoldLeft(AfterDel, st, keys)
LPushAll(st, key, vals) == FoldLeft(LAMBDA s, v : AfterLPush(s, key, v), st, vals)
RPushAll(st, key, vals) == FoldLeft(LAMBDA s, v : AfterRPush(s, key, v), st, vals)
=============================================================================
