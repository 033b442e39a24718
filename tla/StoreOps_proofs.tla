--------------------------- MODULE StoreOps_proofs ---------------------------
(***************************************************************************)
(* Lemmas about the operators of StoreOps: each leaves a store of the      *)
(* declared type, without empty hashes or lists, and says what a client    *)
(* can see of it.                                                          *)
(***************************************************************************)
EXTENDS StoreOps, Induction_proofs, SequenceTheorems, TLAPS

\* Wrapping brings every integer into the range of std::int64_t.
LEMMA WrapRange == ASSUME NEW n \in Int PROVE Wrap(n) \in Numbers
<1> DEFINE m == IntMax - IntMin + 1
<1>1. m \in Nat \ {0} /\ n - IntMin \in Int
  BY RangeAssumption
<1>2. (n - IntMin) % m \in 0 .. m - 1
  BY <1>1
<1> QED
  BY <1>2, RangeAssumption DEF Wrap, Numbers

\* std::stoll gives a number or nothing.
LEMMA StollRange == ASSUME NEW v \in Values PROVE Stoll(v) \in Numbers \cup {None}
BY StollAssumption DEF Values, Stoll

\* None is not a value.
LEMMA NoneIsNoValue == None \notin Values
BY NoneAssumption, RangeAssumption DEF Values, Numbers

\* Times stay integers when they wrap.
LEMMA AfterType == ASSUME NEW at \in Int, NEW ttl \in Int PROVE After(at, ttl) \in Int
BY RangeAssumption DEF After, WrapTime

\* Replacing what one key has in one of the maps keeps a store a store.
LEMMA PutString ==
  ASSUME NEW st \in Stores, NEW k \in Keys, NEW e \in Entries \cup {None}
  PROVE  [st EXCEPT !.str[k] = e] \in Stores
BY DEF Stores

\* The same for the hash map.
LEMMA PutHash ==
  ASSUME NEW st \in Stores, NEW k \in Keys, NEW h \in Hashes \cup {None}
  PROVE  [st EXCEPT !.hash[k] = h] \in Stores
BY DEF Stores

\* The same for the list map.
LEMMA PutList ==
  ASSUME NEW st \in Stores, NEW k \in Keys, NEW l \in Lists \cup {None}
  PROVE  [st EXCEPT !.list[k] = l] \in Stores
BY DEF Stores

\* set leaves a store.
LEMMA SetType ==
  ASSUME NEW st \in Stores, NEW k \in Keys, NEW v \in Values,
         NEW ttl \in Int \cup {None}, NEW at \in Nat
  PROVE  AfterSet(st, k, v, ttl, at) \in Stores
<1> DEFINE e == [value |-> v,
                 expires_at |-> IF ttl # None /\ ttl > 0 THEN After(at, ttl) ELSE None,
                 last_accessed |-> at]
<1>1. e \in Entries
  BY AfterType DEF Entries
<1> QED
  BY <1>1, PutString DEF AfterSet

\* Erasing a string leaves a store, also if the key is none of Keys.
LEMMA EraseType ==
  ASSUME NEW st \in Stores, NEW k
  PROVE  AfterErase(st, k) \in Stores
<1>1. CASE k \in Keys
  BY <1>1, PutString DEF AfterErase
<1>2. CASE k \notin Keys
  BY <1>2 DEF AfterErase, Stores
<1> QED
  BY <1>1, <1>2

\* get's new access time leaves a store.
LEMMA TouchType ==
  ASSUME NEW st \in Stores, NEW k \in Keys, NEW at \in Nat
  PROVE  AfterTouch(st, k, at) \in Stores
<1>1. CASE st.str[k] = None
  BY <1>1 DEF AfterTouch
<1>2. CASE st.str[k] # None
  <2>1. st.str[k] \in Entries
    BY <1>2 DEF Stores
  <2>2. [st.str[k] EXCEPT !.last_accessed = at] \in Entries
    BY <2>1 DEF Entries
  <2>3. AfterTouch(st, k, at) = [st EXCEPT !.str[k] = [st.str[k] EXCEPT !.last_accessed = at]]
    BY <1>2 DEF AfterTouch, Stores
  <2> QED
    BY <2>2, <2>3, PutString
<1> QED
  BY <1>1, <1>2

\* del leaves a store.
LEMMA DelType ==
  ASSUME NEW st \in Stores, NEW k \in Keys
  PROVE  AfterDel(st, k) \in Stores
BY DEF AfterDel, Stores

\* expire leaves a store, whichever way it goes.
LEMMA ExpireType ==
  ASSUME NEW st \in Stores, NEW k \in Keys, NEW ttl \in Int, NEW at \in Nat
  PROVE  AfterExpire(st, k, ttl, at) \in Stores
<1>1. CASE Live(st.str[k], at) /\ ttl > 0
  <2>1. st.str[k] \in Entries
    BY <1>1 DEF Live, Stores
  <2>2. [st.str[k] EXCEPT !.expires_at = After(at, ttl)] \in Entries
    BY <2>1, AfterType DEF Entries
  <2>3. AfterExpire(st, k, ttl, at) =
          [st EXCEPT !.str[k] = [st.str[k] EXCEPT !.expires_at = After(at, ttl)]]
    BY <1>1 DEF AfterExpire, Stores
  <2> QED
    BY <2>2, <2>3, PutString
<1>2. CASE ~(Live(st.str[k], at) /\ ttl > 0)
  BY <1>2, EraseType DEF AfterExpire
<1> QED
  BY <1>1, <1>2

\* incr_by replies a number of the range of std::int64_t and stores it.
LEMMA IncrRange ==
  ASSUME NEW st \in Stores, NEW k \in Keys, NEW delta \in Numbers, NEW at \in Nat,
         IncrReply(st, k, delta, at).ok
  PROVE  IncrReply(st, k, delta, at).val \in Numbers
<1>1. CASE ~Live(st.str[k], at)
  BY <1>1 DEF IncrReply
<1>2. CASE Live(st.str[k], at)
  <2>1. st.str[k].value \in Values
    BY <1>2 DEF Live, Stores, Entries
  <2>2. Stoll(st.str[k].value) # None
    BY <1>2 DEF IncrReply
  <2>3. Stoll(st.str[k].value) + delta \in Int
    BY <2>1, <2>2, StollRange, RangeAssumption DEF Numbers
  <2>4. IncrReply(st, k, delta, at).val = Wrap(Stoll(st.str[k].value) + delta)
    BY <1>2, <2>2 DEF IncrReply
  <2> QED
    BY <2>3, <2>4, WrapRange
<1> QED
  BY <1>1, <1>2

\* incr_by leaves a store: the counter it writes fits std::int64_t.
LEMMA IncrType ==
  ASSUME NEW st \in Stores, NEW k \in Keys, NEW delta \in Numbers, NEW at \in Nat
  PROVE  AfterIncr(st, k, delta, at) \in Stores
<1> DEFINE r == IncrReply(st, k, delta, at)
           e == [value         |-> r.val,
                 expires_at    |-> IF Live(st.str[k], at) THEN st.str[k].expires_at ELSE None,
                 last_accessed |-> at]
<1>1. CASE ~r.ok
  BY <1>1 DEF AfterIncr
<1>2. CASE r.ok
  <2>1. r.val \in Values
    BY <1>2, IncrRange DEF Values
  <2>2. e.expires_at \in Int \cup {None}
    BY DEF Live, Stores, Entries
  <2>3. e \in Entries
    BY <2>1, <2>2 DEF Entries
  <2>4. AfterIncr(st, k, delta, at) = [st EXCEPT !.str[k] = e]
    BY <1>2 DEF AfterIncr
  <2> QED
    BY <2>3, <2>4, PutString
<1> QED
  BY <1>1, <1>2

-----------------------------------------------------------------------------
(* Hashes and lists                                                        *)

\* A key whose hash is present has fields, and one whose list is present has
\* elements.
NoEmpties(st) == \A k \in Keys : st.hash[k] # NoFields /\ st.list[k] # << >>

\* An absent container is not an empty one.
LEMMA NoneIsNotEmpty == None # NoFields /\ None # << >>
<1>1. NoFields \in Hashes
  BY DEF NoFields, Hashes
<1>2. << >> \in Lists
  BY DEF Lists
<1> QED
  BY <1>1, <1>2, NoneAssumption

\* Writing a hash that has fields makes no hash empty.
LEMMA KeepHashes ==
  ASSUME NEW st \in Stores, NEW k \in Keys, NEW h, h # NoFields, NoEmpties(st)
  PROVE  NoEmpties([st EXCEPT !.hash[k] = h])
<1> DEFINE new == [st EXCEPT !.hash[k] = h]
<1>1. new.list = st.list /\ \A j \in Keys : new.hash[j] = IF j = k THEN h ELSE st.hash[j]
  BY DEF Stores
<1> QED
  BY <1>1 DEF NoEmpties

\* Writing a list that has elements makes no list empty.
LEMMA KeepLists ==
  ASSUME NEW st \in Stores, NEW k \in Keys, NEW l, l # << >>, NoEmpties(st)
  PROVE  NoEmpties([st EXCEPT !.list[k] = l])
<1> DEFINE new == [st EXCEPT !.list[k] = l]
<1>1. new.hash = st.hash /\ \A j \in Keys : new.list[j] = IF j = k THEN l ELSE st.list[j]
  BY DEF Stores
<1> QED
  BY <1>1 DEF NoEmpties

\* hset leaves a store, and no container without contents.
LEMMA HSetType ==
  ASSUME NEW st \in Stores, NEW k \in Keys, NEW f \in Fields, NEW v \in Values
  PROVE  /\ AfterHSet(st, k, f, v) \in Stores
         /\ NoEmpties(st) => NoEmpties(AfterHSet(st, k, f, v))
<1> DEFINE old == IF st.hash[k] = None THEN NoFields ELSE st.hash[k]
           h   == [old EXCEPT ![f] = v]
<1>1. old \in Hashes
  BY DEF Stores, Hashes, NoFields
<1>2. h \in Hashes /\ h[f] = v
  BY <1>1 DEF Hashes
<1>3. h # NoFields
  BY <1>2, NoneIsNoValue DEF NoFields
<1>4. AfterHSet(st, k, f, v) = [st EXCEPT !.hash[k] = h]
  BY DEF AfterHSet
<1> QED
  BY <1>2, <1>3, <1>4, PutHash, KeepHashes

\* hdel leaves a store, and not the hash whose last field it has erased.
LEMMA HDelType ==
  ASSUME NEW st \in Stores, NEW k \in Keys, NEW f \in Fields
  PROVE  /\ AfterHDel(st, k, f) \in Stores
         /\ NoEmpties(st) => NoEmpties(AfterHDel(st, k, f))
<1>1. CASE st.hash[k] = None
  BY <1>1 DEF AfterHDel
<1>2. CASE st.hash[k] # None
  <2> DEFINE h == [st.hash[k] EXCEPT ![f] = None]
             g == IF h = NoFields THEN None ELSE h
  <2>1. st.hash[k] \in Hashes
    BY <1>2 DEF Stores
  <2>2. h \in Hashes
    BY <2>1 DEF Hashes
  <2>3. None # NoFields
    BY NoneAssumption DEF NoFields, Hashes
  <2>4. g \in Hashes \cup {None} /\ g # NoFields
    BY <2>2, <2>3
  <2>5. AfterHDel(st, k, f) = [st EXCEPT !.hash[k] = g]
    BY <1>2 DEF AfterHDel
  <2> HIDE DEF h, g
  <2>6. AfterHDel(st, k, f) \in Stores
    BY <2>4, <2>5, PutHash
  <2>7. NoEmpties(st) => NoEmpties(AfterHDel(st, k, f))
    BY <2>4, <2>5, KeepHashes
  <2> QED
    BY <2>6, <2>7
<1> QED
  BY <1>1, <1>2

\* A list, also the absent one, is a sequence of values.
LEMMA ListOfType ==
  ASSUME NEW st \in Stores, NEW k \in Keys
  PROVE  ListOf(st, k) \in Seq(Values)
BY DEF ListOf, Stores, Lists

\* lpush and rpush leave a store, and no container without contents.
LEMMA PushType ==
  ASSUME NEW st \in Stores, NEW k \in Keys, NEW v \in Values
  PROVE  /\ AfterLPush(st, k, v) \in Stores /\ AfterRPush(st, k, v) \in Stores
         /\ NoEmpties(st) => NoEmpties(AfterLPush(st, k, v)) /\ NoEmpties(AfterRPush(st, k, v))
<1> DEFINE l == <<v>> \o ListOf(st, k)
           r == Append(ListOf(st, k), v)
<1>1. l \in Lists /\ l # << >> /\ r \in Lists /\ r # << >>
  BY ListOfType DEF Lists
<1>2. AfterLPush(st, k, v) = [st EXCEPT !.list[k] = l]
      /\ AfterRPush(st, k, v) = [st EXCEPT !.list[k] = r]
  BY DEF AfterLPush, AfterRPush
<1> HIDE DEF l, r
<1>3. AfterLPush(st, k, v) \in Stores /\ AfterRPush(st, k, v) \in Stores
  BY <1>1, <1>2, PutList
<1>4. ASSUME NoEmpties(st)
      PROVE  NoEmpties(AfterLPush(st, k, v)) /\ NoEmpties(AfterRPush(st, k, v))
  <2>1. NoEmpties([st EXCEPT !.list[k] = l])
    BY <1>1, <1>4, KeepLists
  <2>2. NoEmpties([st EXCEPT !.list[k] = r])
    BY <1>1, <1>4, KeepLists
  <2> QED
    BY <2>1, <2>2, <1>2
<1> QED
  BY <1>3, <1>4

\* What a pop leaves in the list map is a list with elements, or nothing.
LEMMA StoredType ==
  ASSUME NEW l \in Lists
  PROVE  Stored(l) \in Lists \cup {None} /\ Stored(l) # << >>
BY NoneAssumption DEF Stored, Lists

\* lpop and rpop leave a store, and not the list they have emptied.
LEMMA PopType ==
  ASSUME NEW st \in Stores, NEW k \in Keys
  PROVE  /\ AfterLPop(st, k) \in Stores /\ AfterRPop(st, k) \in Stores
         /\ NoEmpties(st) => NoEmpties(AfterLPop(st, k)) /\ NoEmpties(AfterRPop(st, k))
<1>1. CASE ListOf(st, k) = << >>
  BY <1>1 DEF AfterLPop, AfterRPop
<1>2. CASE ListOf(st, k) # << >>
  <2> DEFINE s == st.list[k]
             l == Stored(Tail(s))
             r == Stored(SubSeq(s, 1, Len(s) - 1))
  <2>1. s \in Lists /\ s # << >>
    BY <1>2 DEF ListOf, Stores
  <2>2. Tail(s) \in Lists /\ SubSeq(s, 1, Len(s) - 1) \in Lists
    BY <2>1 DEF Lists
  <2>3. l \in Lists \cup {None} /\ l # << >> /\ r \in Lists \cup {None} /\ r # << >>
    BY <2>2, StoredType
  <2>4. AfterLPop(st, k) = [st EXCEPT !.list[k] = l]
        /\ AfterRPop(st, k) = [st EXCEPT !.list[k] = r]
    BY <1>2 DEF AfterLPop, AfterRPop, Stores
  <2> HIDE DEF l, r
  <2>5. AfterLPop(st, k) \in Stores /\ AfterRPop(st, k) \in Stores
    BY <2>3, <2>4, PutList
  <2>6. ASSUME NoEmpties(st)
        PROVE  NoEmpties(AfterLPop(st, k)) /\ NoEmpties(AfterRPop(st, k))
    <3>1. NoEmpties([st EXCEPT !.list[k] = l])
      BY <2>3, <2>6, KeepLists
    <3>2. NoEmpties([st EXCEPT !.list[k] = r])
      BY <2>3, <2>6, KeepLists
    <3> QED
      BY <3>1, <3>2, <2>4
  <2> QED
    BY <2>5, <2>6
<1> QED
  BY <1>1, <1>2

-----------------------------------------------------------------------------
(* Access times                                                            *)

\* Two stores that differ in their access times at most.
Alike(st, su) ==
  /\ st.hash = su.hash /\ st.list = su.list
  /\ \A k \in Keys : 
       /\ st.str[k] = None <=> su.str[k] = None
       /\ st.str[k] # None => /\ st.str[k].value = su.str[k].value
                              /\ st.str[k].expires_at = su.str[k].expires_at

\* A store without its access times is a store, alike the one with them.
LEMMA TimelessType ==
  ASSUME NEW st \in Stores
  PROVE  Timeless(st) \in Stores /\ Alike(st, Timeless(st))
<1> DEFINE T(k) == IF st.str[k] = None THEN None ELSE [st.str[k] EXCEPT !.last_accessed = 0]
<1>1. ASSUME NEW k \in Keys
      PROVE  /\ T(k) \in Entries \cup {None}
             /\ st.str[k] = None <=> T(k) = None
             /\ st.str[k] # None => T(k).value = st.str[k].value /\ T(k).expires_at = st.str[k].expires_at
  <2>1. st.str[k] \in Entries \cup {None}
    BY DEF Stores
  <2> QED
    BY <2>1, NoneAssumption DEF Entries
<1>2. Timeless(st) = [st EXCEPT !.str = [k \in Keys |-> T(k)]]
  BY DEF Timeless
<1> HIDE DEF T
<1>3. /\ Timeless(st).hash = st.hash /\ Timeless(st).list = st.list
      /\ Timeless(st).str = [k \in Keys |-> T(k)]
  BY <1>2 DEF Stores
<1>4. [k \in Keys |-> T(k)] \in [Keys -> Entries \cup {None}]
  BY <1>1
<1>5. Timeless(st) \in Stores
  BY <1>2, <1>4 DEF Stores
<1> QED
  BY <1>1, <1>3, <1>5 DEF Alike

\* Stores that are alike differ in nothing else.
LEMMA SameTimeless ==
  ASSUME NEW st \in Stores, NEW su \in Stores, Alike(st, su)
  PROVE  Timeless(st) = Timeless(su)
<1> DEFINE T(s, k) == IF s.str[k] = None THEN None ELSE [s.str[k] EXCEPT !.last_accessed = 0]
<1>1. ASSUME NEW k \in Keys PROVE T(st, k) = T(su, k)
  <2>1. CASE st.str[k] = None
    BY <2>1 DEF Alike
  <2>2. CASE st.str[k] # None
    <3>1. st.str[k] \in Entries /\ su.str[k] \in Entries
      BY <2>2 DEF Alike, Stores
    <3>2. st.str[k].value = su.str[k].value /\ st.str[k].expires_at = su.str[k].expires_at
      BY <2>2 DEF Alike
    <3> QED
      BY <2>2, <3>1, <3>2 DEF Alike, Entries
  <2> QED
    BY <2>1, <2>2
<1>2. [k \in Keys |-> T(st, k)] = [k \in Keys |-> T(su, k)]
  BY <1>1
<1>3. /\ Timeless(st) = [st EXCEPT !.str = [k \in Keys |-> T(st, k)]]
      /\ Timeless(su) = [su EXCEPT !.str = [k \in Keys |-> T(su, k)]]
  BY DEF Timeless
<1> HIDE DEF T
<1> QED
  BY <1>2, <1>3 DEF Stores, Alike

\* The same entries are live and expired in both.
LEMMA SameClock ==
  ASSUME NEW st \in Stores, NEW su \in Stores, Alike(st, su), NEW k \in Keys, NEW at \in Nat
  PROVE  /\ Expired(st.str[k], at) <=> Expired(su.str[k], at)
         /\ Live(st.str[k], at) <=> Live(su.str[k], at)
BY DEF Alike, Expired, Live

\* Putting entries that are alike under one key keeps two stores alike.
LEMMA SamePut ==
  ASSUME NEW st \in Stores, NEW su \in Stores, Alike(st, su), NEW k \in Keys, 
         NEW e, NEW f, e = None <=> f = None, 
         e # None => e.value = f.value /\ e.expires_at = f.expires_at
  PROVE  Alike([st EXCEPT !.str[k] = e], [su EXCEPT !.str[k] = f])
<1> DEFINE s == [st EXCEPT !.str[k] = e]
           u == [su EXCEPT !.str[k] = f]
<1>1. /\ s.hash = st.hash /\ s.list = st.list /\ u.hash = su.hash /\ u.list = su.list
      /\ \A j \in Keys : s.str[j] = IF j = k THEN e ELSE st.str[j]
      /\ \A j \in Keys : u.str[j] = IF j = k THEN f ELSE su.str[j]
  BY DEF Stores
<1> HIDE DEF s, u
<1>2. Alike(s, u)
  BY <1>1 DEF Alike
<1> QED
  BY <1>2 DEF s, u

\* So does putting the same hashes or lists in both.
LEMMA SameContainers ==
  ASSUME NEW st \in Stores, NEW su \in Stores, Alike(st, su), NEW h, NEW l
  PROVE  /\ Alike([st EXCEPT !.hash = h], [su EXCEPT !.hash = h])
         /\ Alike([st EXCEPT !.list = l], [su EXCEPT !.list = l])
BY DEF Alike, Stores

\* set.
LEMMA SameSet ==
  ASSUME NEW st \in Stores, NEW su \in Stores, Alike(st, su), NEW k \in Keys, NEW v, NEW ttl, NEW at
  PROVE  Alike(AfterSet(st, k, v, ttl, at), AfterSet(su, k, v, ttl, at))
<1> DEFINE e == [value |-> v,
                 expires_at |-> IF ttl # None /\ ttl > 0 THEN After(at, ttl) ELSE None,
                 last_accessed |-> at]
<1>1. AfterSet(st, k, v, ttl, at) = [st EXCEPT !.str[k] = e]
      /\ AfterSet(su, k, v, ttl, at) = [su EXCEPT !.str[k] = e]
  BY DEF AfterSet
<1> HIDE DEF e
<1>2. Alike([st EXCEPT !.str[k] = e], [su EXCEPT !.str[k] = e])
  BY SamePut
<1> QED
  BY <1>1, <1>2

\* Erasing a string.
LEMMA SameErase ==
  ASSUME NEW st \in Stores, NEW su \in Stores, Alike(st, su), NEW k \in Keys
  PROVE  Alike(AfterErase(st, k), AfterErase(su, k))
BY SamePut DEF AfterErase

\* A new access time leaves a store alike itself.
LEMMA SameTouch ==
  ASSUME NEW st \in Stores, NEW k \in Keys, NEW at \in Nat
  PROVE  Alike(AfterTouch(st, k, at), st)
<1>1. CASE st.str[k] = None
  BY <1>1 DEF AfterTouch, Alike
<1>2. CASE st.str[k] # None
  <2> DEFINE e == [st.str[k] EXCEPT !.last_accessed = at]
  <2>1. st.str[k] \in Entries
    BY <1>2 DEF Stores
  <2>2. e \in Entries /\ e.value = st.str[k].value /\ e.expires_at = st.str[k].expires_at
    BY <2>1 DEF Entries
  <2>3. AfterTouch(st, k, at) = [st EXCEPT !.str[k] = e]
    BY <1>2 DEF AfterTouch, Stores
  <2> HIDE DEF e
  <2>4. Alike([st EXCEPT !.str[k] = e], [st EXCEPT !.str[k] = st.str[k]])
    <3>1. Alike(st, st)
      BY DEF Alike
    <3>2. e # None
      BY <2>2, NoneAssumption
    <3> QED
      BY <1>2, <2>2, <3>1, <3>2, SamePut
  <2>5. [st EXCEPT !.str[k] = st.str[k]] = st
    BY DEF Stores
  <2> QED
    BY <2>3, <2>4, <2>5
<1> QED
  BY <1>1, <1>2

\* del, and its reply.
LEMMA SameDel ==
  ASSUME NEW st \in Stores, NEW su \in Stores, Alike(st, su), NEW k \in Keys
  PROVE  Alike(AfterDel(st, k), AfterDel(su, k)) /\ DelReply(st, k) = DelReply(su, k)
<1>1. DelReply(st, k) = DelReply(su, k)
  BY DEF Alike, DelReply
<1>2. /\ AfterDel(st, k).hash = AfterDel(su, k).hash /\ AfterDel(st, k).list = AfterDel(su, k).list
      /\ AfterDel(st, k).str = [st.str EXCEPT ![k] = None]
      /\ AfterDel(su, k).str = [su.str EXCEPT ![k] = None]
  BY DEF Alike, AfterDel, Stores
<1>3. st.str \in [Keys -> Entries \cup {None}] /\ su.str \in [Keys -> Entries \cup {None}]
  BY DEF Stores
<1> QED
  BY <1>1, <1>2, <1>3 DEF Alike

\* What get, exists, expire and ttl reply does not depend on access times.
LEMMA SameReads ==
  ASSUME NEW st \in Stores, NEW su \in Stores, Alike(st, su), NEW k \in Keys, NEW at \in Nat
  PROVE  /\ GetReply(st, k, at) = GetReply(su, k, at)
         /\ ExistsReply(st, k, at) = ExistsReply(su, k, at)
         /\ ExpireReply(st, k, at) = ExpireReply(su, k, at)
         /\ TtlReply(st, k, at) = TtlReply(su, k, at)
<1>1. /\ Expired(st.str[k], at) <=> Expired(su.str[k], at)
      /\ Live(st.str[k], at) <=> Live(su.str[k], at)
  BY SameClock
<1>2. /\ st.hash = su.hash /\ st.list = su.list
      /\ st.str[k] = None <=> su.str[k] = None
      /\ st.str[k] # None => /\ st.str[k].value = su.str[k].value
                             /\ st.str[k].expires_at = su.str[k].expires_at
  BY DEF Alike
<1>3. GetReply(st, k, at) = GetReply(su, k, at)
  <2>1. Live(st.str[k], at) => st.str[k] # None
    BY DEF Live
  <2> QED
    BY <1>1, <1>2, <2>1 DEF GetReply
<1>4. ExistsReply(st, k, at) = ExistsReply(su, k, at)
  BY <1>1, <1>2 DEF ExistsReply
<1>5. ExpireReply(st, k, at) = ExpireReply(su, k, at)
  BY <1>1 DEF ExpireReply, Live
<1>6. TtlReply(st, k, at) = TtlReply(su, k, at)
  BY <1>1, <1>2 DEF TtlReply
<1> QED
  BY <1>3, <1>4, <1>5, <1>6

\* expire.
LEMMA SameExpire ==
  ASSUME NEW st \in Stores, NEW su \in Stores, Alike(st, su), NEW k \in Keys,
         NEW ttl \in Int, NEW at \in Nat
  PROVE  Alike(AfterExpire(st, k, ttl, at), AfterExpire(su, k, ttl, at))
<1>1. CASE Live(st.str[k], at) /\ ttl > 0
  <2> DEFINE e == [st.str[k] EXCEPT !.expires_at = After(at, ttl)]
             f == [su.str[k] EXCEPT !.expires_at = After(at, ttl)]
  <2>1. Live(su.str[k], at)
    BY <1>1, SameClock
  <2>2. st.str[k] \in Entries /\ su.str[k] \in Entries /\ st.str[k].value = su.str[k].value
    BY <1>1, <2>1 DEF Live, Stores, Alike
  <2>3. e \in Entries /\ f \in Entries /\ e.value = f.value /\ e.expires_at = f.expires_at
    BY <2>2, AfterType DEF Entries
  <2>4. AfterExpire(st, k, ttl, at) = [st EXCEPT !.str[k] = e]
        /\ AfterExpire(su, k, ttl, at) = [su EXCEPT !.str[k] = f]
    BY <1>1, <2>1 DEF AfterExpire, Stores
  <2> HIDE DEF e, f
  <2> QED
    BY <2>3, <2>4, NoneAssumption, SamePut
<1>2. CASE ~(Live(st.str[k], at) /\ ttl > 0)
  BY <1>2, SameClock, SameErase DEF AfterExpire
<1> QED
  BY <1>1, <1>2

\* incr_by, and its reply.
LEMMA SameIncr ==
  ASSUME NEW st \in Stores, NEW su \in Stores, Alike(st, su), NEW k \in Keys,
         NEW delta \in Numbers, NEW at \in Nat
  PROVE  /\ IncrReply(st, k, delta, at) = IncrReply(su, k, delta, at)
         /\ Alike(AfterIncr(st, k, delta, at), AfterIncr(su, k, delta, at))
<1>1. Live(st.str[k], at) <=> Live(su.str[k], at)
  BY SameClock
<1>2. Live(st.str[k], at) => /\ st.str[k].value = su.str[k].value
                             /\ st.str[k].expires_at = su.str[k].expires_at
  BY DEF Alike, Live
<1>3. IncrReply(st, k, delta, at) = IncrReply(su, k, delta, at)
  BY <1>1, <1>2 DEF IncrReply
<1> DEFINE r == IncrReply(st, k, delta, at)
           e == [value         |-> r.val,
                 expires_at    |-> IF Live(st.str[k], at) THEN st.str[k].expires_at ELSE None,
                 last_accessed |-> at]
<1>4. CASE ~r.ok
  BY <1>3, <1>4 DEF AfterIncr
<1>5. CASE r.ok
  <2>1. AfterIncr(st, k, delta, at) = [st EXCEPT !.str[k] = e]
    BY <1>5 DEF AfterIncr
  <2>2. AfterIncr(su, k, delta, at) = [su EXCEPT !.str[k] = e]
    BY <1>1, <1>2, <1>3, <1>5 DEF AfterIncr
  <2> HIDE DEF e
  <2>3. Alike([st EXCEPT !.str[k] = e], [su EXCEPT !.str[k] = e])
    BY SamePut
  <2> QED
    BY <1>3, <2>1, <2>2, <2>3
<1> QED
  BY <1>3, <1>4, <1>5

\* hset.
LEMMA SameHSet ==
  ASSUME NEW st \in Stores, NEW su \in Stores, Alike(st, su), NEW k \in Keys,
         NEW f \in Fields, NEW v \in Values
  PROVE  Alike(AfterHSet(st, k, f, v), AfterHSet(su, k, f, v))
<1>1. st.hash = su.hash
  BY DEF Alike
<1> QED
  BY <1>1, SameContainers DEF AfterHSet

\* hdel.
LEMMA SameHDel ==
  ASSUME NEW st \in Stores, NEW su \in Stores, Alike(st, su), NEW k \in Keys, NEW f \in Fields
  PROVE  Alike(AfterHDel(st, k, f), AfterHDel(su, k, f))
<1>1. st.hash = su.hash
  BY DEF Alike
<1> QED
  BY <1>1, SameContainers DEF AfterHDel

\* lpush and rpush.
LEMMA SameList ==
  ASSUME NEW st \in Stores, NEW su \in Stores, Alike(st, su), NEW k \in Keys, NEW v \in Values
  PROVE  /\ Alike(AfterLPush(st, k, v), AfterLPush(su, k, v))
         /\ Alike(AfterRPush(st, k, v), AfterRPush(su, k, v))
<1>1. st.list = su.list
  BY DEF Alike
<1>2. ListOf(st, k) = ListOf(su, k)
  BY <1>1 DEF ListOf
<1> QED
  BY <1>1, <1>2, SameContainers DEF AfterLPush, AfterRPush

\* lpop and rpop.
LEMMA SamePop ==
  ASSUME NEW st \in Stores, NEW su \in Stores, Alike(st, su), NEW k \in Keys
  PROVE  /\ Alike(AfterLPop(st, k), AfterLPop(su, k))
         /\ Alike(AfterRPop(st, k), AfterRPop(su, k))
<1>1. st.list = su.list
  BY DEF Alike
<1>2. ListOf(st, k) = ListOf(su, k)
  BY <1>1 DEF ListOf
<1> QED
  BY <1>1, <1>2, SameContainers DEF AfterLPop, AfterRPop

\* A push makes the list longer by one.
LEMMA PushLength ==
  ASSUME NEW st \in Stores, NEW k \in Keys, NEW v \in Values
  PROVE  /\ Len(ListOf(AfterLPush(st, k, v), k)) = Len(ListOf(st, k)) + 1
         /\ Len(ListOf(AfterRPush(st, k, v), k)) = Len(ListOf(st, k)) + 1
<1> DEFINE l == <<v>> \o ListOf(st, k)
           r == Append(ListOf(st, k), v)
<1>1. l \in Lists /\ r \in Lists /\ Len(l) = Len(ListOf(st, k)) + 1 /\ Len(r) = Len(ListOf(st, k)) + 1
  BY ListOfType DEF Lists
<1>2. AfterLPush(st, k, v).list[k] = l /\ AfterRPush(st, k, v).list[k] = r
  BY DEF AfterLPush, AfterRPush, Stores
<1> HIDE DEF l, r
<1> QED
  BY <1>1, <1>2, NoneAssumption DEF ListOf

\* Entries that go from a store go from the store without access times.
LEMMA TimelessErase ==
  ASSUME NEW st \in Stores, NEW su \in Stores, NEW dead \in SUBSET Keys,
         su.hash = st.hash, su.list = st.list,
         \A k \in Keys : su.str[k] = IF k \in dead THEN None ELSE st.str[k]
  PROVE  Timeless(su) = [Timeless(st) EXCEPT !.str =
                           [k \in Keys |-> IF k \in dead THEN None ELSE @[k]]]
<1> DEFINE T(s, k) == IF s.str[k] = None THEN None ELSE [s.str[k] EXCEPT !.last_accessed = 0]
<1>1. /\ Timeless(st) = [st EXCEPT !.str = [k \in Keys |-> T(st, k)]]
      /\ Timeless(su) = [su EXCEPT !.str = [k \in Keys |-> T(su, k)]]
  BY DEF Timeless
<1>2. \A k \in Keys : T(su, k) = IF k \in dead THEN None ELSE T(st, k)
  OBVIOUS
<1> HIDE DEF T
<1>3. /\ Timeless(st) = [str |-> [k \in Keys |-> T(st, k)], hash |-> st.hash, list |-> st.list]
      /\ Timeless(su) = [str |-> [k \in Keys |-> T(su, k)], hash |-> st.hash, list |-> st.list]
  BY <1>1 DEF Stores
<1> QED
  BY <1>2, <1>3

\* The same when one string is erased.
LEMMA TimelessEraseOne ==
  ASSUME NEW st \in Stores, NEW k \in Keys
  PROVE  Timeless(AfterErase(st, k)) = AfterErase(Timeless(st), k)
<1> DEFINE T(s, j) == IF s.str[j] = None THEN None ELSE [s.str[j] EXCEPT !.last_accessed = 0]
           su == AfterErase(st, k)
<1>1. /\ Timeless(st) = [st EXCEPT !.str = [j \in Keys |-> T(st, j)]]
      /\ Timeless(su) = [su EXCEPT !.str = [j \in Keys |-> T(su, j)]]
  BY DEF Timeless
<1>2. /\ su \in Stores /\ su.hash = st.hash /\ su.list = st.list
      /\ \A j \in Keys : su.str[j] = IF j = k THEN None ELSE st.str[j]
  BY EraseType DEF AfterErase, Stores
<1>3. \A j \in Keys : T(su, j) = IF j = k THEN None ELSE T(st, j)
  BY <1>2
<1> HIDE DEF T, su
<1>4. [j \in Keys |-> T(su, j)] = [[j \in Keys |-> T(st, j)] EXCEPT ![k] = None]
  BY <1>3
<1>5. /\ Timeless(st) = [str |-> [j \in Keys |-> T(st, j)], hash |-> st.hash, list |-> st.list]
      /\ Timeless(su) = [str |-> [j \in Keys |-> T(su, j)], hash |-> st.hash, list |-> st.list]
  BY <1>1, <1>2 DEF Stores
<1>6. Timeless(su) = AfterErase(Timeless(st), k)
  BY <1>4, <1>5 DEF AfterErase
<1> QED
  BY <1>6 DEF su

-----------------------------------------------------------------------------
(* LRANGE                                                                  *)

\* The position, from 0, that an index of LRANGE names in a list.
Position(l, i) == IF i < 0 THEN Len(l) + i ELSE i

\* KeyValueStore.cpp:313-335: the reply to LRANGE has the elements whose
\* positions are between those the two indices name, all of them and in the
\* order of the list, whatever the indices are; clamping never leaves it.
THEOREM RangeIsSlice ==
  ASSUME NEW S, NEW l \in Seq(S), NEW start \in Int, NEW stop \in Int,
         NEW out, out = LRange(l, start, stop),
         NEW first, first = IF Position(l, start) < 0 THEN 0 ELSE Position(l, start)
  PROVE  /\ out \in Seq(S)
         /\ \A i \in 1 .. Len(out) : first + i \in 1 .. Len(l) /\ out[i] = l[first + i]
         /\ \A p \in 0 .. Len(l) - 1 :
              Position(l, start) <= p /\ p <= Position(l, stop)
                <=> first <= p /\ p < first + Len(out)
<1> DEFINE to   == Position(l, stop)
           last == IF to < Len(l) - 1 THEN to ELSE Len(l) - 1
<1>1. Len(l) \in Nat /\ first \in Nat /\ to \in Int /\ last \in Int
  BY DEF Position
<1>2. out = IF first >= Len(l) \/ first > to THEN << >> ELSE SubSeq(l, first + 1, last + 1)
  BY <1>1 DEF LRange, Position
<1>3. CASE first >= Len(l) \/ first > to
  <2>1. out = << >> /\ Len(out) = 0
    BY <1>2, <1>3
  <2> QED
    BY <1>1, <1>3, <2>1 DEF Position
<1>4. CASE ~(first >= Len(l) \/ first > to)
  <2>1. out = SubSeq(l, first + 1, last + 1)
    BY <1>2, <1>4
  <2>2. 1 <= first + 1 /\ first <= last /\ last + 1 <= Len(l)
    BY <1>1, <1>4
  <2> HIDE DEF last
  <2>3. /\ out \in Seq(S) /\ Len(out) = last + 1 - first
        /\ \A i \in 1 .. Len(out) : out[i] = l[first + i]
    <3> DEFINE m == first + 1
               n == last + 1
    <3>1. m \in 1 .. n + 1 /\ n \in 0 .. Len(l)
      BY <1>1, <2>2
    <3>2. out = SubSeq(l, m, n)
      BY <2>1
    <3> HIDE DEF m, n
    <3>3. m \in Int /\ n \in Int /\ m <= n /\ \A i \in m .. n : l[i] \in S
      BY <1>1, <2>2, <3>1 DEF m, n
    <3>4. /\ out \in Seq(S) /\ Len(out) = n - m + 1
          /\ \A i \in 1 .. n - m + 1 : out[i] = l[m + i - 1]
      BY <3>2, <3>3, SubSeqProperties
    <3>5. n - m + 1 = last + 1 - first
      <4>1. n = last + 1 /\ m = first + 1
        BY DEF m, n
      <4>2. last \in Int /\ first \in Int
        BY <1>1
      <4> QED
        BY ONLY <4>1, <4>2
    <3>6. \A i \in 1 .. n - m + 1 : m + i - 1 = first + i
      BY <1>1 DEF m
    <3>7. \A i \in 1 .. n - m + 1 : out[i] = l[first + i]
      BY <3>4, <3>6
    <3>8. 1 .. Len(out) = 1 .. n - m + 1
      BY <3>4
    <3> QED
      BY <3>4, <3>5, <3>7, <3>8
  <2>4. \A i \in 1 .. Len(out) : first + i \in 1 .. Len(l)
    <3> DEFINE size == Len(l)
    <3>1. size \in Nat /\ first \in Nat /\ last \in Int /\ last + 1 <= size
      BY <1>1, <2>2
    <3>2. Len(out) = last + 1 - first
      BY <2>3
    <3> HIDE DEF size
    <3>3. \A i \in 1 .. last + 1 - first : first + i \in 1 .. size
      BY <3>1
    <3> QED
      BY <3>2, <3>3 DEF size
  <2>5. \A p \in 0 .. Len(l) - 1 :
          Position(l, start) <= p /\ p <= to <=> first <= p /\ p < first + Len(out)
    BY <1>1, <2>2, <2>3 DEF last, Position
  <2> QED
    BY <2>3, <2>4, <2>5
<1> QED
  BY <1>3, <1>4

-----------------------------------------------------------------------------
(* The loops of the commands                                               *)

\* h lists the stores a loop goes through, from st, in m steps.
Chain(h, st, m) == h \in [0 .. m -> Stores] /\ h[0] = st

\* DEL goes through its keys one by one.
LEMMA DelChain ==
  ASSUME NEW st \in Stores, NEW ks \in Seq(Keys)
  PROVE  \E h : /\ Chain(h, st, Len(ks))
                /\ \A i \in 1 .. Len(ks) : h[i] = AfterDel(h[i - 1], ks[i])
                /\ h[Len(ks)] = DelAll(st, ks)
<1> DEFINE m == Len(ks)
           F == [i \in 1 .. m |-> [s \in Stores |-> AfterDel(s, ks[i])]]
           Eqn(g) == g = [s \in SUBSET DOMAIN ks |->
                            IF s = {} THEN st ELSE AfterDel(g[s \ {Max(s)}], ks[Max(s)])]
           it == CHOOSE g : Eqn(g)
<1>1. DelAll(st, ks) = it[DOMAIN ks]
  BY DEF DelAll, FoldLeft, MapThenFoldSet
<1>2. m \in Nat /\ DOMAIN ks = 1 .. m
  OBVIOUS
<1>3. F \in [1 .. m -> [Stores -> Stores]]
  BY DelType
<1>4. PICK g : Folding(g, Stores, st, m, F)
  <2> HIDE DEF F, m
  <2> QED
    BY <1>2, <1>3, FoldExists
<1>5. Eqn(g)
  <2>1. \A s \in (SUBSET (1 .. m)) \ {{}} : g[s] = AfterDel(g[s \ {Max(s)}], ks[Max(s)])
    BY <1>4 DEF Folding
  <2>2. g \in [SUBSET DOMAIN ks -> Stores] /\ g[{}] = st
    BY <1>2, <1>4 DEF Folding
  <2> QED
    BY <1>2, <2>1, <2>2
<1>6. Eqn(it)
  <2> HIDE DEF Eqn
  <2> QED
    BY <1>5
<1> HIDE DEF it
<1>7. it[{}] = st
  BY <1>2, <1>6
<1>8. ASSUME NEW s \in (SUBSET (1 .. m)) \ {{}}, it[s \ {Max(s)}] \in Stores
      PROVE  it[s] = F[Max(s)][it[s \ {Max(s)}]]
  <2>1. Max(s) \in 1 .. m
    BY <1>4 DEF Folding
  <2>2. it[s] = AfterDel(it[s \ {Max(s)}], ks[Max(s)])
    BY <1>2, <1>6, <1>8
  <2> QED
    BY <1>8, <2>1, <2>2
<1> HIDE DEF F, m
<1>9. PICK h : Steps(h, Stores, st, m, F) /\ h[m] = it[1 .. m]
  <2>1. Iterates(it, Stores, st, m, F)
    BY <1>7, <1>8 DEF Iterates
  <2> QED
    BY <1>2, <1>3, <2>1, FoldSteps
<1>10. ASSUME NEW i \in 1 .. m PROVE h[i] = AfterDel(h[i - 1], ks[i])
  <2>1. h[i - 1] \in Stores
    <3>1. h \in [0 .. m -> Stores]
      BY <1>9 DEF Steps
    <3>2. i - 1 \in 0 .. m
      BY <1>2
    <3> QED
      BY <3>1, <3>2
  <2> QED
    BY <1>9, <2>1 DEF F, Steps
<1> QED
  BY <1>1, <1>2, <1>9, <1>10 DEF m, Chain, Steps

\* LPUSH goes through its values one by one.
LEMMA LPushChain ==
  ASSUME NEW st \in Stores, NEW k \in Keys, NEW vals \in Seq(Values)
  PROVE  \E h : /\ Chain(h, st, Len(vals))
                /\ \A i \in 1 .. Len(vals) : h[i] = AfterLPush(h[i - 1], k, vals[i])
                /\ h[Len(vals)] = LPushAll(st, k, vals)
<1> DEFINE m == Len(vals)
           F == [i \in 1 .. m |-> [s \in Stores |-> AfterLPush(s, k, vals[i])]]
           Eqn(g) == g = [s \in SUBSET DOMAIN vals |->
                            IF s = {} THEN st ELSE AfterLPush(g[s \ {Max(s)}], k, vals[Max(s)])]
           it == CHOOSE g : Eqn(g)
<1>1. LPushAll(st, k, vals) = it[DOMAIN vals]
  BY DEF LPushAll, FoldLeft, MapThenFoldSet
<1>2. m \in Nat /\ DOMAIN vals = 1 .. m
  OBVIOUS
<1>3. F \in [1 .. m -> [Stores -> Stores]]
  BY PushType
<1>4. PICK g : Folding(g, Stores, st, m, F)
  <2> HIDE DEF F, m
  <2> QED
    BY <1>2, <1>3, FoldExists
<1>5. Eqn(g)
  <2>1. \A s \in (SUBSET (1 .. m)) \ {{}} : g[s] = AfterLPush(g[s \ {Max(s)}], k, vals[Max(s)])
    BY <1>4 DEF Folding
  <2>2. g \in [SUBSET DOMAIN vals -> Stores] /\ g[{}] = st
    BY <1>2, <1>4 DEF Folding
  <2> QED
    BY <1>2, <2>1, <2>2
<1>6. Eqn(it)
  <2> HIDE DEF Eqn
  <2> QED
    BY <1>5
<1> HIDE DEF it
<1>7. it[{}] = st
  BY <1>2, <1>6
<1>8. ASSUME NEW s \in (SUBSET (1 .. m)) \ {{}}, it[s \ {Max(s)}] \in Stores
      PROVE  it[s] = F[Max(s)][it[s \ {Max(s)}]]
  <2>1. Max(s) \in 1 .. m
    BY <1>4 DEF Folding
  <2>2. it[s] = AfterLPush(it[s \ {Max(s)}], k, vals[Max(s)])
    BY <1>2, <1>6, <1>8
  <2> QED
    BY <1>8, <2>1, <2>2
<1> HIDE DEF F, m
<1>9. PICK h : Steps(h, Stores, st, m, F) /\ h[m] = it[1 .. m]
  <2>1. Iterates(it, Stores, st, m, F)
    BY <1>7, <1>8 DEF Iterates
  <2> QED
    BY <1>2, <1>3, <2>1, FoldSteps
<1>10. ASSUME NEW i \in 1 .. m PROVE h[i] = AfterLPush(h[i - 1], k, vals[i])
  <2>1. h[i - 1] \in Stores
    <3>1. h \in [0 .. m -> Stores]
      BY <1>9 DEF Steps
    <3>2. i - 1 \in 0 .. m
      BY <1>2
    <3> QED
      BY <3>1, <3>2
  <2> QED
    BY <1>9, <2>1 DEF F, Steps
<1> QED
  BY <1>1, <1>2, <1>9, <1>10 DEF m, Chain, Steps

\* RPUSH goes through its values one by one.
LEMMA RPushChain ==
  ASSUME NEW st \in Stores, NEW k \in Keys, NEW vals \in Seq(Values)
  PROVE  \E h : /\ Chain(h, st, Len(vals))
                /\ \A i \in 1 .. Len(vals) : h[i] = AfterRPush(h[i - 1], k, vals[i])
                /\ h[Len(vals)] = RPushAll(st, k, vals)
<1> DEFINE m == Len(vals)
           F == [i \in 1 .. m |-> [s \in Stores |-> AfterRPush(s, k, vals[i])]]
           Eqn(g) == g = [s \in SUBSET DOMAIN vals |->
                            IF s = {} THEN st ELSE AfterRPush(g[s \ {Max(s)}], k, vals[Max(s)])]
           it == CHOOSE g : Eqn(g)
<1>1. RPushAll(st, k, vals) = it[DOMAIN vals]
  BY DEF RPushAll, FoldLeft, MapThenFoldSet
<1>2. m \in Nat /\ DOMAIN vals = 1 .. m
  OBVIOUS
<1>3. F \in [1 .. m -> [Stores -> Stores]]
  BY PushType
<1>4. PICK g : Folding(g, Stores, st, m, F)
  <2> HIDE DEF F, m
  <2> QED
    BY <1>2, <1>3, FoldExists
<1>5. Eqn(g)
  <2>1. \A s \in (SUBSET (1 .. m)) \ {{}} : g[s] = AfterRPush(g[s \ {Max(s)}], k, vals[Max(s)])
    BY <1>4 DEF Folding
  <2>2. g \in [SUBSET DOMAIN vals -> Stores] /\ g[{}] = st
    BY <1>2, <1>4 DEF Folding
  <2> QED
    BY <1>2, <2>1, <2>2
<1>6. Eqn(it)
  <2> HIDE DEF Eqn
  <2> QED
    BY <1>5
<1> HIDE DEF it
<1>7. it[{}] = st
  BY <1>2, <1>6
<1>8. ASSUME NEW s \in (SUBSET (1 .. m)) \ {{}}, it[s \ {Max(s)}] \in Stores
      PROVE  it[s] = F[Max(s)][it[s \ {Max(s)}]]
  <2>1. Max(s) \in 1 .. m
    BY <1>4 DEF Folding
  <2>2. it[s] = AfterRPush(it[s \ {Max(s)}], k, vals[Max(s)])
    BY <1>2, <1>6, <1>8
  <2> QED
    BY <1>8, <2>1, <2>2
<1> HIDE DEF F, m
<1>9. PICK h : Steps(h, Stores, st, m, F) /\ h[m] = it[1 .. m]
  <2>1. Iterates(it, Stores, st, m, F)
    BY <1>7, <1>8 DEF Iterates
  <2> QED
    BY <1>2, <1>3, <2>1, FoldSteps
<1>10. ASSUME NEW i \in 1 .. m PROVE h[i] = AfterRPush(h[i - 1], k, vals[i])
  <2>1. h[i - 1] \in Stores
    <3>1. h \in [0 .. m -> Stores]
      BY <1>9 DEF Steps
    <3>2. i - 1 \in 0 .. m
      BY <1>2
    <3> QED
      BY <3>1, <3>2
  <2> QED
    BY <1>9, <2>1 DEF F, Steps
<1> QED
  BY <1>1, <1>2, <1>9, <1>10 DEF m, Chain, Steps

\* MSET goes through its pairs one by one.
LEMMA SetChain ==
  ASSUME NEW st \in Stores, NEW ps \in Seq(Keys \X Values), NEW now \in Nat
  PROVE  \E h : /\ Chain(h, st, Len(ps))
                /\ \A i \in 1 .. Len(ps) : h[i] = AfterSet(h[i - 1], ps[i][1], ps[i][2], None, now)
                /\ h[Len(ps)] = SetAll(st, ps, now)
<1> DEFINE m == Len(ps)
           F == [i \in 1 .. m |-> [s \in Stores |-> AfterSet(s, ps[i][1], ps[i][2], None, now)]]
           Eqn(g) == g = [s \in SUBSET DOMAIN ps |->
                            IF s = {} THEN st ELSE AfterSet(g[s \ {Max(s)}], ps[Max(s)][1], ps[Max(s)][2], None, now)]
           it == CHOOSE g : Eqn(g)
<1>1. SetAll(st, ps, now) = it[DOMAIN ps]
  BY DEF SetAll, FoldLeft, MapThenFoldSet
<1>2. m \in Nat /\ DOMAIN ps = 1 .. m
  OBVIOUS
<1>3. F \in [1 .. m -> [Stores -> Stores]]
  <2>1. \A i \in 1 .. m : ps[i][1] \in Keys /\ ps[i][2] \in Values
    OBVIOUS
  <2> QED
    BY <2>1, SetType
<1>4. PICK g : Folding(g, Stores, st, m, F)
  <2> HIDE DEF F, m
  <2> QED
    BY <1>2, <1>3, FoldExists
<1>5. Eqn(g)
  <2>1. \A s \in (SUBSET (1 .. m)) \ {{}} : g[s] = AfterSet(g[s \ {Max(s)}], ps[Max(s)][1], ps[Max(s)][2], None, now)
    BY <1>4 DEF Folding
  <2>2. g \in [SUBSET DOMAIN ps -> Stores] /\ g[{}] = st
    BY <1>2, <1>4 DEF Folding
  <2> QED
    BY <1>2, <2>1, <2>2
<1>6. Eqn(it)
  <2> HIDE DEF Eqn
  <2> QED
    BY <1>5
<1> HIDE DEF it
<1>7. it[{}] = st
  BY <1>2, <1>6
<1>8. ASSUME NEW s \in (SUBSET (1 .. m)) \ {{}}, it[s \ {Max(s)}] \in Stores
      PROVE  it[s] = F[Max(s)][it[s \ {Max(s)}]]
  <2>1. Max(s) \in 1 .. m
    BY <1>4 DEF Folding
  <2>2. it[s] = AfterSet(it[s \ {Max(s)}], ps[Max(s)][1], ps[Max(s)][2], None, now)
    BY <1>2, <1>6, <1>8
  <2> QED
    BY <1>8, <2>1, <2>2
<1> HIDE DEF F, m
<1>9. PICK h : Steps(h, Stores, st, m, F) /\ h[m] = it[1 .. m]
  <2>1. Iterates(it, Stores, st, m, F)
    BY <1>7, <1>8 DEF Iterates
  <2> QED
    BY <1>2, <1>3, <2>1, FoldSteps
<1>10. ASSUME NEW i \in 1 .. m PROVE h[i] = AfterSet(h[i - 1], ps[i][1], ps[i][2], None, now)
  <2>1. h[i - 1] \in Stores
    <3>1. h \in [0 .. m -> Stores]
      BY <1>9 DEF Steps
    <3>2. i - 1 \in 0 .. m
      BY <1>2
    <3> QED
      BY <3>1, <3>2
  <2> QED
    BY <1>9, <2>1 DEF F, Steps
<1> QED
  BY <1>1, <1>2, <1>9, <1>10 DEF m, Chain, Steps

\* MGET goes through its keys one by one.
LEMMA GetChain ==
  ASSUME NEW st \in Stores, NEW ks \in Seq(Keys), NEW now \in Nat
  PROVE  \E h : /\ Chain(h, st, Len(ks))
                /\ \A i \in 1 .. Len(ks) : h[i] = AfterGet(h[i - 1], ks[i], now)
                /\ h[Len(ks)] = GetAll(st, ks, now)
<1> DEFINE m == Len(ks)
           F == [i \in 1 .. m |-> [s \in Stores |-> AfterGet(s, ks[i], now)]]
           Eqn(g) == g = [s \in SUBSET DOMAIN ks |->
                            IF s = {} THEN st ELSE AfterGet(g[s \ {Max(s)}], ks[Max(s)], now)]
           it == CHOOSE g : Eqn(g)
<1>1. GetAll(st, ks, now) = it[DOMAIN ks]
  BY DEF GetAll, FoldLeft, MapThenFoldSet
<1>2. m \in Nat /\ DOMAIN ks = 1 .. m
  OBVIOUS
<1>3. F \in [1 .. m -> [Stores -> Stores]]
  BY EraseType, TouchType DEF AfterGet
<1>4. PICK g : Folding(g, Stores, st, m, F)
  <2> HIDE DEF F, m
  <2> QED
    BY <1>2, <1>3, FoldExists
<1>5. Eqn(g)
  <2>1. \A s \in (SUBSET (1 .. m)) \ {{}} : g[s] = AfterGet(g[s \ {Max(s)}], ks[Max(s)], now)
    BY <1>4 DEF Folding
  <2>2. g \in [SUBSET DOMAIN ks -> Stores] /\ g[{}] = st
    BY <1>2, <1>4 DEF Folding
  <2> QED
    BY <1>2, <2>1, <2>2
<1>6. Eqn(it)
  <2> HIDE DEF Eqn
  <2> QED
    BY <1>5
<1> HIDE DEF it
<1>7. it[{}] = st
  BY <1>2, <1>6
<1>8. ASSUME NEW s \in (SUBSET (1 .. m)) \ {{}}, it[s \ {Max(s)}] \in Stores
      PROVE  it[s] = F[Max(s)][it[s \ {Max(s)}]]
  <2>1. Max(s) \in 1 .. m
    BY <1>4 DEF Folding
  <2>2. it[s] = AfterGet(it[s \ {Max(s)}], ks[Max(s)], now)
    BY <1>2, <1>6, <1>8
  <2> QED
    BY <1>8, <2>1, <2>2
<1> HIDE DEF F, m
<1>9. PICK h : Steps(h, Stores, st, m, F) /\ h[m] = it[1 .. m]
  <2>1. Iterates(it, Stores, st, m, F)
    BY <1>7, <1>8 DEF Iterates
  <2> QED
    BY <1>2, <1>3, <2>1, FoldSteps
<1>10. ASSUME NEW i \in 1 .. m PROVE h[i] = AfterGet(h[i - 1], ks[i], now)
  <2>1. h[i - 1] \in Stores
    <3>1. h \in [0 .. m -> Stores]
      BY <1>9 DEF Steps
    <3>2. i - 1 \in 0 .. m
      BY <1>2
    <3> QED
      BY <3>1, <3>2
  <2> QED
    BY <1>9, <2>1 DEF F, Steps
<1> QED
  BY <1>1, <1>2, <1>9, <1>10 DEF m, Chain, Steps

-----------------------------------------------------------------------------
(* What they do                                                            *)

\* DEL of keys that have nothing changes nothing.
LEMMA DelAllOfNothing ==
  ASSUME NEW st \in Stores, NEW ks \in Seq(Keys), \A i \in DOMAIN ks : ~DelReply(st, ks[i])
  PROVE  DelAll(st, ks) = st
<1> DEFINE m == Len(ks)
<1>1. m \in Nat /\ DOMAIN ks = 1 .. m
  OBVIOUS
<1>2. PICK h : /\ Chain(h, st, m) /\ h[m] = DelAll(st, ks)
               /\ \A i \in 1 .. m : h[i] = AfterDel(h[i - 1], ks[i])
  BY DelChain
<1>3. ASSUME NEW i \in 1 .. m PROVE AfterDel(st, ks[i]) = st
  <2>1. ~DelReply(st, ks[i]) /\ ks[i] \in Keys
    BY <1>1
  <2> QED
    BY <2>1 DEF AfterDel, DelReply, Stores
<1> HIDE DEF m
<1> DEFINE T == {i \in Nat : i <= m => h[i] = st}
<1>4. 0 \in T
  BY <1>2 DEF Chain
<1>5. ASSUME NEW i \in Nat, i \in T PROVE i + 1 \in T
  <2>1. SUFFICES ASSUME i + 1 <= m PROVE h[i + 1] = st
    OBVIOUS
  <2>2. h[i] = st /\ i + 1 \in 1 .. m /\ (i + 1) - 1 = i
    BY <1>1, <1>5, <2>1
  <2> QED
    BY <1>2, <1>3, <2>2
<1> HIDE DEF T
<1>6. m \in T
  BY <1>1, <1>4, <1>5, SetInduction
<1> QED
  BY <1>1, <1>2, <1>6 DEF T

\* After DEL its keys have nothing, and the other keys what they had.
LEMMA DelAllIs ==
  ASSUME NEW st \in Stores, NEW ks \in Seq(Keys)
  PROVE  LET su == DelAll(st, ks) IN
         /\ su \in Stores
         /\ \A i \in 1 .. Len(ks) : ~DelReply(su, ks[i])
         /\ \A k \in Keys : (\A i \in 1 .. Len(ks) : ks[i] # k) =>
              su.str[k] = st.str[k] /\ su.hash[k] = st.hash[k] /\ su.list[k] = st.list[k]
<1> DEFINE m == Len(ks)
           Is(su, n) == /\ \A i \in 1 .. n : ~DelReply(su, ks[i])
                        /\ \A k \in Keys : (\A i \in 1 .. n : ks[i] # k) =>
                             su.str[k] = st.str[k] /\ su.hash[k] = st.hash[k] /\ su.list[k] = st.list[k]
<1>1. m \in Nat /\ \A i \in 1 .. m : ks[i] \in Keys
  OBVIOUS
<1>2. PICK h : /\ Chain(h, st, m) /\ h[m] = DelAll(st, ks)
               /\ \A i \in 1 .. m : h[i] = AfterDel(h[i - 1], ks[i])
  BY DelChain
<1> HIDE DEF m
<1> DEFINE T == {n \in Nat : n <= m => Is(h[n], n)}
<1>3. 0 \in T
  BY <1>2 DEF Chain
<1>4. ASSUME NEW n \in Nat, n \in T PROVE n + 1 \in T
  <2>1. SUFFICES ASSUME n + 1 <= m PROVE Is(h[n + 1], n + 1)
    OBVIOUS
  <2> DEFINE s == h[n]
             k1 == ks[n + 1]
             t == h[n + 1]
  <2>2. n \in 0 .. m /\ n + 1 \in 1 .. m /\ (n + 1) - 1 = n /\ Is(s, n)
    BY <1>1, <1>4, <2>1
  <2>3. t = AfterDel(s, k1) /\ s \in Stores /\ k1 \in Keys
    BY <1>1, <1>2, <2>2 DEF Chain
  <2>4. /\ ~DelReply(t, k1)
        /\ \A k \in Keys : ~DelReply(s, k) => ~DelReply(t, k)
        /\ \A k \in Keys : k # k1 => t.str[k] = s.str[k] /\ t.hash[k] = s.hash[k] /\ t.list[k] = s.list[k]
    BY <2>3 DEF AfterDel, DelReply, Stores
  <2>5. \A i \in 1 .. n + 1 : i = n + 1 \/ (i \in 1 .. n /\ ks[i] \in Keys)
    BY <1>1, <2>2
  <2>6. 1 .. n \subseteq 1 .. n + 1 /\ n + 1 \in 1 .. n + 1
    OBVIOUS
  <2> HIDE DEF s, t
  <2>7. \A i \in 1 .. n + 1 : ~DelReply(t, ks[i])
    BY <2>2, <2>4, <2>5
  <2>8. ASSUME NEW k \in Keys, \A i \in 1 .. n + 1 : ks[i] # k
        PROVE  t.str[k] = st.str[k] /\ t.hash[k] = st.hash[k] /\ t.list[k] = st.list[k]
    BY <2>2, <2>4, <2>6, <2>8
  <2> QED
    BY <2>7, <2>8 DEF t
<1> HIDE DEF T
<1>5. m \in T
  BY <1>1, <1>3, <1>4, SetInduction
<1>6. Is(h[m], m)
  BY <1>1, <1>5 DEF T
<1>7. h[m] \in Stores
  BY <1>1, <1>2 DEF Chain
<1> QED
  BY <1>2, <1>6, <1>7 DEF m

\* HDEL of a field that is not there changes nothing.
LEMMA HDelOfNothing ==
  ASSUME NEW st \in Stores, NEW k \in Keys, NEW f \in Fields,
         st.hash[k] # NoFields, HGetReply(st, k, f) = None
  PROVE  AfterHDel(st, k, f) = st
<1>1. CASE st.hash[k] = None
  BY <1>1 DEF AfterHDel
<1>2. CASE st.hash[k] # None
  <2>1. st.hash[k] \in Hashes /\ st.hash[k][f] = None
    BY <1>2 DEF Stores, HGetReply
  <2>2. [st.hash[k] EXCEPT ![f] = None] = st.hash[k]
    BY <2>1 DEF Hashes
  <2>3. AfterHDel(st, k, f) = [st EXCEPT !.hash[k] = st.hash[k]]
    BY <1>2, <2>1, <2>2 DEF AfterHDel
  <2> QED
    BY <2>3 DEF Stores
<1> QED
  BY <1>1, <1>2

\* A push of several values makes the list longer by their number.
LEMMA PushAllLength ==
  ASSUME NEW st \in Stores, NEW k \in Keys, NEW vals \in Seq(Values)
  PROVE  /\ Len(ListOf(LPushAll(st, k, vals), k)) = Len(ListOf(st, k)) + Len(vals)
         /\ Len(ListOf(RPushAll(st, k, vals), k)) = Len(ListOf(st, k)) + Len(vals)
<1> DEFINE m == Len(vals)
           n == Len(ListOf(st, k))
<1>1. m \in Nat /\ n \in Nat /\ \A i \in 1 .. m : vals[i] \in Values
  BY ListOfType DEF Lists
<1>2. PICK h : /\ Chain(h, st, m) /\ h[m] = LPushAll(st, k, vals)
               /\ \A i \in 1 .. m : h[i] = AfterLPush(h[i - 1], k, vals[i])
  BY LPushChain
<1>3. PICK g : /\ Chain(g, st, m) /\ g[m] = RPushAll(st, k, vals)
               /\ \A i \in 1 .. m : g[i] = AfterRPush(g[i - 1], k, vals[i])
  BY RPushChain
<1> DEFINE T == {i \in Nat : i <= m => Len(ListOf(h[i], k)) = n + i /\ Len(ListOf(g[i], k)) = n + i}
<1> HIDE DEF m
<1>4. 0 \in T
  BY <1>1, <1>2, <1>3 DEF Chain
<1>5. ASSUME NEW i \in Nat, i \in T PROVE i + 1 \in T
  <2>1. SUFFICES ASSUME i + 1 <= m
                 PROVE  Len(ListOf(h[i + 1], k)) = n + (i + 1) /\ Len(ListOf(g[i + 1], k)) = n + (i + 1)
    OBVIOUS
  <2>2. /\ i \in 0 .. m /\ i + 1 \in 1 .. m /\ (i + 1) - 1 = i
        /\ Len(ListOf(h[i], k)) = n + i /\ Len(ListOf(g[i], k)) = n + i
    BY <1>1, <1>5, <2>1
  <2>3. /\ h[i + 1] = AfterLPush(h[i], k, vals[i + 1]) /\ h[i] \in Stores
        /\ g[i + 1] = AfterRPush(g[i], k, vals[i + 1]) /\ g[i] \in Stores
        /\ vals[i + 1] \in Values
    BY <1>1, <1>2, <1>3, <2>2 DEF Chain
  <2>4. /\ Len(ListOf(h[i + 1], k)) = Len(ListOf(h[i], k)) + 1
        /\ Len(ListOf(g[i + 1], k)) = Len(ListOf(g[i], k)) + 1
    BY <2>3, PushLength
  <2> HIDE DEF n
  <2> QED
    BY <1>1, <2>2, <2>4
<1> HIDE DEF T
<1>6. m \in T
  BY <1>1, <1>4, <1>5, SetInduction
<1> QED
  BY <1>1, <1>2, <1>3, <1>6 DEF T, m

\* What a pop replies is an element, unless there is none.
LEMMA PopIsAValue ==
  ASSUME NEW st \in Stores, NEW k \in Keys
  PROVE  /\ LPopReply(st, k) = None <=> ListOf(st, k) = << >>
         /\ RPopReply(st, k) = None <=> ListOf(st, k) = << >>
<1>1. ListOf(st, k) \in Seq(Values)
  BY ListOfType DEF Lists
<1>2. CASE ListOf(st, k) = << >>
  BY <1>2 DEF LPopReply, RPopReply
<1>3. CASE ListOf(st, k) # << >>
  <2> DEFINE l == ListOf(st, k)
  <2>1. Head(l) \in Values /\ l[Len(l)] \in Values
    BY <1>1, <1>3
  <2>2. LPopReply(st, k) = Head(l) /\ RPopReply(st, k) = l[Len(l)]
    BY <1>3 DEF LPopReply, RPopReply
  <2> QED
    BY <1>3, <2>1, <2>2, NoneIsNoValue
<1> QED
  BY <1>2, <1>3
=============================================================================
