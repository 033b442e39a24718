-------------------------- MODULE Persistence_proofs --------------------------
(***************************************************************************)
(* Proofs about the append-only file, for any keys, fields, values,        *)
(* clients and bounds: TypeOK; that a crash in an append is atomic; that a *)
(* rewrite is exact; and that nothing is lost, with the commands and the   *)
(* disk that Restorable describes.                                         *)
(*                                                                         *)
(* The replay is a fold over the records of the log, and so are DEL and    *)
(* the pushes over their arguments: each fold is first shown to have its   *)
(* intermediate stores (Chain, Replaying), then a set of numbers that      *)
(* holds how far a fact goes along them is shown to be Nat (SetInduction). *)
(* What a restart at the time n makes of the log covers the store at the   *)
(* time now (Covers): a command executed now and replayed then keeps this, *)
(* the janitor and the clock only take from the store, and two restarts    *)
(* from one log agree.  A snapshot enumerates the strings, fields and      *)
(* lists of the store, and replaying it gives each of them back.           *)
(***************************************************************************)
EXTENDS Persistence, StoreOps_proofs, SequenceTheorems

-----------------------------------------------------------------------------
(* The commands that are logged, and what they leave                       *)

\* The arguments of a command have the types its methods expect.
WellFormed(c) ==
  /\ c.cmd = "SET"    => c.key \in Keys /\ c.val \in Values /\ c.ttl \in Int \cup {None}
  /\ c.cmd = "MSET"   => c.pairs \in Seq(Keys \X Values)
  /\ c.cmd = "DEL"    => c.keys \in Seq(Keys)
  /\ c.cmd = "EXPIRE" => c.key \in Keys /\ c.ttl \in Seconds
  /\ c.cmd = "INCRBY" => c.key \in Keys /\ c.delta \in Numbers
  /\ c.cmd = "HSET"   => c.key \in Keys /\ c.field \in Fields /\ c.val \in Values
  /\ c.cmd = "HDEL"   => c.key \in Keys /\ c.field \in Fields
  /\ c.cmd \in {"LPUSH", "RPUSH"} => c.key \in Keys /\ c.vals \in Seq(Values)
  /\ c.cmd \in {"LPOP", "RPOP"} => c.key \in Keys
  /\ c.cmd \in WriteCommands \cup {"error"}

\* A store whose containers all have contents.
Sound(st) == st \in Stores /\ NoEmpties(st)

\* One or two arguments are a sequence of arguments.
LEMMA OneOrTwoSeq ==
  ASSUME NEW S, NEW T, S \subseteq T, NEW s \in OneOrTwo(S)
  PROVE  s \in Seq(T) /\ Len(s) \in 1 .. 2
<1>1. CASE s \in {<<x>> : x \in S}
  <2>1. PICK x \in S : s = <<x>>
    BY <1>1
  <2> QED
    BY <2>1
<1>2. CASE s \in S \X S
  <2>1. PICK x \in S, y \in S : s = <<x, y>>
    BY <1>2
  <2> QED
    BY <2>1
<1> QED
  BY <1>1, <1>2 DEF OneOrTwo

\* What clients send is well formed.
LEMMA WritesAreWellFormed ==
  ASSUME NEW c \in AllWrites
  PROVE  WellFormed(c)
<1>1. Inputs \subseteq Values /\ Deltas \subseteq Numbers /\ TTLs \subseteq Int
  BY PersistenceAssumption
<1>2. CASE c \in [cmd : {"SET"}, key : Keys, val : Inputs, ttl : TTLs \cup {None}]
  BY <1>1, <1>2 DEF WellFormed, WriteCommands
<1>3. CASE c \in [cmd : {"MSET"}, pairs : OneOrTwo(Keys \X Inputs)]
  <2>1. Keys \X Inputs \subseteq Keys \X Values
    BY <1>1
  <2>2. c.cmd = "MSET" /\ c.pairs \in Seq(Keys \X Values)
    BY <1>3, <2>1, OneOrTwoSeq
  <2> QED
    BY <2>2 DEF WellFormed, WriteCommands
<1>4. CASE c \in [cmd : {"DEL"}, keys : OneOrTwo(Keys)]
  <2>1. c.cmd = "DEL" /\ c.keys \in Seq(Keys)
    BY <1>4, OneOrTwoSeq
  <2> QED
    BY <2>1 DEF WellFormed, WriteCommands
<1>5. CASE c \in [cmd : {"EXPIRE"}, key : Keys, ttl : TTLs]
  <2>1. \A t \in TTLs : t \in Seconds
    BY <1>1 DEF Seconds
  <2> QED
    BY <1>5, <2>1 DEF WellFormed, WriteCommands
<1>6. CASE c \in [cmd : {"INCRBY"}, key : Keys, delta : Deltas]
  BY <1>1, <1>6 DEF WellFormed, WriteCommands
<1>7. CASE c \in [cmd : {"HSET"}, key : Keys, field : Fields, val : Inputs]
  BY <1>1, <1>7 DEF WellFormed, WriteCommands
<1>8. CASE c \in [cmd : {"HDEL"}, key : Keys, field : Fields]
  BY <1>8 DEF WellFormed, WriteCommands
<1>9. CASE c \in [cmd : {"LPUSH", "RPUSH"}, key : Keys, vals : OneOrTwo(Inputs)]
  <2>1. c.cmd \in {"LPUSH", "RPUSH"} /\ c.key \in Keys /\ c.vals \in Seq(Values)
    BY <1>1, <1>9, OneOrTwoSeq
  <2> QED
    BY <2>1 DEF WellFormed, WriteCommands
<1>10. CASE c \in [cmd : {"LPOP", "RPOP"}, key : Keys]
  BY <1>10 DEF WellFormed, WriteCommands
<1>11. CASE c \in [cmd : {"FLUSHDB"}]
  BY <1>11 DEF WellFormed, WriteCommands
<1> QED
  BY <1>2, <1>3, <1>4, <1>5, <1>6, <1>7, <1>8, <1>9, <1>10, <1>11 DEF AllWrites

\* So are the commands of a snapshot, and an EXPIRE with other seconds.
LEMMA LoggableIsWellFormed ==
  ASSUME NEW c \in Loggable
  PROVE  WellFormed(c)
<1>1. CASE c \in AllWrites
  BY <1>1, WritesAreWellFormed
<1>2. CASE c \in [cmd : {"SET"}, key : Keys, val : Values, ttl : {None}]
  BY <1>2 DEF WellFormed, WriteCommands
<1>3. CASE c \in [cmd : {"HSET"}, key : Keys, field : Fields, val : Values]
  BY <1>3 DEF WellFormed, WriteCommands
<1>4. CASE c \in [cmd : {"RPUSH"}, key : Keys, vals : Lists]
  BY <1>4 DEF WellFormed, WriteCommands, Lists
<1>5. CASE c \in [cmd : {"EXPIRE"}, key : Keys, ttl : Seconds]
  BY <1>5 DEF WellFormed, WriteCommands
<1> QED
  BY <1>1, <1>2, <1>3, <1>4, <1>5 DEF Loggable

\* Methods on strings leave hashes and lists alone.
LEMMA StringsKeepContainers ==
  ASSUME NEW st \in Stores, NEW k \in Keys, NEW v, NEW ttl, NEW delta, NEW now
  PROVE  /\ AfterSet(st, k, v, ttl, now).hash = st.hash
         /\ AfterSet(st, k, v, ttl, now).list = st.list
         /\ AfterErase(st, k).hash = st.hash /\ AfterErase(st, k).list = st.list
         /\ AfterExpire(st, k, ttl, now).hash = st.hash
         /\ AfterExpire(st, k, ttl, now).list = st.list
         /\ AfterIncr(st, k, delta, now).hash = st.hash
         /\ AfterIncr(st, k, delta, now).list = st.list
<1>1. \A e : [st EXCEPT !.str[k] = e].hash = st.hash /\ [st EXCEPT !.str[k] = e].list = st.list
  BY DEF Stores
<1>2. AfterErase(st, k).hash = st.hash /\ AfterErase(st, k).list = st.list
  BY <1>1 DEF AfterErase
<1>3. /\ AfterSet(st, k, v, ttl, now).hash = st.hash
      /\ AfterSet(st, k, v, ttl, now).list = st.list
  BY <1>1 DEF AfterSet
<1>4. /\ AfterExpire(st, k, ttl, now).hash = st.hash
      /\ AfterExpire(st, k, ttl, now).list = st.list
  BY <1>2 DEF AfterExpire, Stores
<1>5. /\ AfterIncr(st, k, delta, now).hash = st.hash
      /\ AfterIncr(st, k, delta, now).list = st.list
  BY <1>1 DEF AfterIncr
<1> QED
  BY <1>2, <1>3, <1>4, <1>5

\* Nothing stays in the store of a server that starts, or after FLUSHDB.
LEMMA EmptyIsSound == Sound(EmptyStore)
BY NoneIsNotEmpty DEF Sound, EmptyStore, Stores, NoEmpties

\* Each method a command calls leaves a sound store sound.
LEMMA MethodsKeepSound ==
  ASSUME NEW st, Sound(st), NEW k \in Keys, NEW now \in Nat
  PROVE  /\ \A v \in Values, ttl \in Int \cup {None} : Sound(AfterSet(st, k, v, ttl, now))
         /\ Sound(AfterErase(st, k))
         /\ Sound(AfterDel(st, k))
         /\ \A ttl \in Int : Sound(AfterExpire(st, k, ttl, now))
         /\ \A delta \in Numbers : Sound(AfterIncr(st, k, delta, now))
         /\ \A f \in Fields, v \in Values : Sound(AfterHSet(st, k, f, v))
         /\ \A f \in Fields : Sound(AfterHDel(st, k, f))
         /\ \A v \in Values : Sound(AfterLPush(st, k, v)) /\ Sound(AfterRPush(st, k, v))
         /\ Sound(AfterLPop(st, k)) /\ Sound(AfterRPop(st, k))
<1>1. st \in Stores /\ NoEmpties(st)
  BY DEF Sound
<1>2. ASSUME NEW su \in Stores, su.hash = st.hash, su.list = st.list PROVE Sound(su)
  BY <1>1, <1>2 DEF Sound, NoEmpties
<1>3. ASSUME NEW v \in Values, NEW ttl \in Int \cup {None} PROVE Sound(AfterSet(st, k, v, ttl, now))
  BY <1>1, <1>2, SetType, StringsKeepContainers
<1>4. Sound(AfterErase(st, k))
  BY <1>1, <1>2, EraseType, StringsKeepContainers
<1>5. Sound(AfterDel(st, k))
  <2>1. AfterDel(st, k) \in Stores
    BY <1>1, DelType
  <2>2. \A j \in Keys : /\ AfterDel(st, k).hash[j] \in {None, st.hash[j]}
                        /\ AfterDel(st, k).list[j] \in {None, st.list[j]}
    BY <1>1 DEF AfterDel, Stores
  <2> QED
    BY <1>1, <2>1, <2>2, NoneIsNotEmpty DEF Sound, NoEmpties
<1>6. ASSUME NEW ttl \in Int PROVE Sound(AfterExpire(st, k, ttl, now))
  BY <1>1, <1>2, ExpireType, StringsKeepContainers
<1>7. ASSUME NEW delta \in Numbers PROVE Sound(AfterIncr(st, k, delta, now))
  BY <1>1, <1>2, IncrType, StringsKeepContainers
<1>8. ASSUME NEW f \in Fields, NEW v \in Values PROVE Sound(AfterHSet(st, k, f, v))
  BY <1>1, HSetType DEF Sound
<1>9. ASSUME NEW f \in Fields PROVE Sound(AfterHDel(st, k, f))
  BY <1>1, HDelType DEF Sound
<1>10. ASSUME NEW v \in Values PROVE Sound(AfterLPush(st, k, v)) /\ Sound(AfterRPush(st, k, v))
  BY <1>1, PushType DEF Sound
<1>11. Sound(AfterLPop(st, k)) /\ Sound(AfterRPop(st, k))
  BY <1>1, PopType DEF Sound
<1> QED
  BY <1>3, <1>4, <1>5, <1>6, <1>7, <1>8, <1>9, <1>10, <1>11

\* So does a loop of them.
LEMMA DelAllSound ==
  ASSUME NEW st, Sound(st), NEW ks \in Seq(Keys)
  PROVE  Sound(DelAll(st, ks))
<1>1. PICK h : /\ Chain(h, st, Len(ks))
               /\ \A i \in 1 .. Len(ks) : h[i] = AfterDel(h[i - 1], ks[i])
               /\ h[Len(ks)] = DelAll(st, ks)
  BY DelChain DEF Sound
<1> DEFINE T == {i \in Nat : i <= Len(ks) => Sound(h[i])}
<1>2. 0 \in T
  BY <1>1 DEF Chain
<1>3. ASSUME NEW i \in Nat, i \in T PROVE i + 1 \in T
  <2>1. SUFFICES ASSUME i + 1 <= Len(ks) PROVE Sound(h[i + 1])
    OBVIOUS
  <2>2. Sound(h[i])
    BY <1>3, <2>1
  <2>3. i + 1 \in 1 .. Len(ks) /\ (i + 1) - 1 = i
    BY <2>1
  <2>4. h[i + 1] = AfterDel(h[i], ks[i + 1]) /\ ks[i + 1] \in Keys
    BY <1>1, <2>3
  <2> QED
    BY <2>2, <2>4, MethodsKeepSound
<1> HIDE DEF T
<1>4. Len(ks) \in T
  BY <1>2, <1>3, SetInduction
<1> QED
  BY <1>1, <1>4 DEF T

\* So does a loop of them.
LEMMA LPushAllSound ==
  ASSUME NEW st, Sound(st), NEW k \in Keys, NEW vals \in Seq(Values)
  PROVE  Sound(LPushAll(st, k, vals))
<1>1. PICK h : /\ Chain(h, st, Len(vals))
               /\ \A i \in 1 .. Len(vals) : h[i] = AfterLPush(h[i - 1], k, vals[i])
               /\ h[Len(vals)] = LPushAll(st, k, vals)
  BY LPushChain DEF Sound
<1> DEFINE T == {i \in Nat : i <= Len(vals) => Sound(h[i])}
<1>2. 0 \in T
  BY <1>1 DEF Chain
<1>3. ASSUME NEW i \in Nat, i \in T PROVE i + 1 \in T
  <2>1. SUFFICES ASSUME i + 1 <= Len(vals) PROVE Sound(h[i + 1])
    OBVIOUS
  <2>2. Sound(h[i])
    BY <1>3, <2>1
  <2>3. i + 1 \in 1 .. Len(vals) /\ (i + 1) - 1 = i
    BY <2>1
  <2>4. h[i + 1] = AfterLPush(h[i], k, vals[i + 1]) /\ vals[i + 1] \in Values
    BY <1>1, <2>3
  <2> QED
    BY <2>2, <2>4, MethodsKeepSound
<1> HIDE DEF T
<1>4. Len(vals) \in T
  BY <1>2, <1>3, SetInduction
<1> QED
  BY <1>1, <1>4 DEF T

\* So does a loop of them.
LEMMA RPushAllSound ==
  ASSUME NEW st, Sound(st), NEW k \in Keys, NEW vals \in Seq(Values)
  PROVE  Sound(RPushAll(st, k, vals))
<1>1. PICK h : /\ Chain(h, st, Len(vals))
               /\ \A i \in 1 .. Len(vals) : h[i] = AfterRPush(h[i - 1], k, vals[i])
               /\ h[Len(vals)] = RPushAll(st, k, vals)
  BY RPushChain DEF Sound
<1> DEFINE T == {i \in Nat : i <= Len(vals) => Sound(h[i])}
<1>2. 0 \in T
  BY <1>1 DEF Chain
<1>3. ASSUME NEW i \in Nat, i \in T PROVE i + 1 \in T
  <2>1. SUFFICES ASSUME i + 1 <= Len(vals) PROVE Sound(h[i + 1])
    OBVIOUS
  <2>2. Sound(h[i])
    BY <1>3, <2>1
  <2>3. i + 1 \in 1 .. Len(vals) /\ (i + 1) - 1 = i
    BY <2>1
  <2>4. h[i + 1] = AfterRPush(h[i], k, vals[i + 1]) /\ vals[i + 1] \in Values
    BY <1>1, <2>3
  <2> QED
    BY <2>2, <2>4, MethodsKeepSound
<1> HIDE DEF T
<1>4. Len(vals) \in T
  BY <1>2, <1>3, SetInduction
<1> QED
  BY <1>1, <1>4 DEF T

\* So does a loop of them.
LEMMA SetAllSound ==
  ASSUME NEW st, Sound(st), NEW ps \in Seq(Keys \X Values), NEW now \in Nat
  PROVE  Sound(SetAll(st, ps, now))
<1>1. PICK h : /\ Chain(h, st, Len(ps))
               /\ \A i \in 1 .. Len(ps) : h[i] = AfterSet(h[i - 1], ps[i][1], ps[i][2], None, now)
               /\ h[Len(ps)] = SetAll(st, ps, now)
  BY SetChain DEF Sound
<1> DEFINE T == {i \in Nat : i <= Len(ps) => Sound(h[i])}
<1>2. 0 \in T
  BY <1>1 DEF Chain
<1>3. ASSUME NEW i \in Nat, i \in T PROVE i + 1 \in T
  <2>1. SUFFICES ASSUME i + 1 <= Len(ps) PROVE Sound(h[i + 1])
    OBVIOUS
  <2>2. Sound(h[i])
    BY <1>3, <2>1
  <2>3. i + 1 \in 1 .. Len(ps) /\ (i + 1) - 1 = i
    BY <2>1
  <2>4. /\ h[i + 1] = AfterSet(h[i], ps[i + 1][1], ps[i + 1][2], None, now)
        /\ ps[i + 1] \in Keys \X Values
    BY <1>1, <2>3
  <2>5. ps[i + 1][1] \in Keys /\ ps[i + 1][2] \in Values
    BY <2>4
  <2> QED
    BY <2>2, <2>4, <2>5, MethodsKeepSound
<1> HIDE DEF T
<1>4. Len(ps) \in T
  BY <1>2, <1>3, SetInduction
<1> QED
  BY <1>1, <1>4 DEF T

\* What a well-formed command leaves of a sound store is sound.
LEMMA CommandKeepsSound ==
  ASSUME NEW st, Sound(st), NEW c, WellFormed(c), NEW now \in Nat
  PROVE  Sound(AfterCommand(st, c, now))
<1> DEFINE su == AfterCommand(st, c, now)
<1>1. CASE c.cmd = "SET"
  <2>1. su = AfterSet(st, c.key, c.val, c.ttl, now)
    BY <1>1 DEF AfterCommand
  <2> QED
    BY <1>1, <2>1, MethodsKeepSound DEF WellFormed
<1>2. CASE c.cmd = "MSET"
  <2>1. su = SetAll(st, c.pairs, now)
    BY <1>2 DEF AfterCommand
  <2> QED
    BY <1>2, <2>1, SetAllSound DEF WellFormed
<1>3. CASE c.cmd = "DEL"
  <2>1. su = DelAll(st, c.keys)
    BY <1>3 DEF AfterCommand
  <2> QED
    BY <1>3, <2>1, DelAllSound DEF WellFormed
<1>4. CASE c.cmd = "EXPIRE"
  <2>1. su = AfterExpire(st, c.key, c.ttl, now)
    BY <1>4 DEF AfterCommand
  <2>2. c.key \in Keys /\ c.ttl \in Int
    BY <1>4 DEF WellFormed, Seconds
  <2> QED
    BY <2>1, <2>2, MethodsKeepSound
<1>5. CASE c.cmd = "INCRBY"
  <2>1. su = AfterIncr(st, c.key, c.delta, now)
    BY <1>5 DEF AfterCommand
  <2> QED
    BY <1>5, <2>1, MethodsKeepSound DEF WellFormed
<1>6. CASE c.cmd = "HSET"
  <2>1. su = AfterHSet(st, c.key, c.field, c.val)
    BY <1>6 DEF AfterCommand
  <2> QED
    BY <1>6, <2>1, MethodsKeepSound DEF WellFormed
<1>7. CASE c.cmd = "HDEL"
  <2>1. su = AfterHDel(st, c.key, c.field)
    BY <1>7 DEF AfterCommand
  <2> QED
    BY <1>7, <2>1, MethodsKeepSound DEF WellFormed
<1>8. CASE c.cmd = "LPUSH"
  <2>1. su = LPushAll(st, c.key, c.vals)
    BY <1>8 DEF AfterCommand
  <2> QED
    BY <1>8, <2>1, LPushAllSound DEF WellFormed
<1>9. CASE c.cmd = "RPUSH"
  <2>1. su = RPushAll(st, c.key, c.vals)
    BY <1>9 DEF AfterCommand
  <2> QED
    BY <1>9, <2>1, RPushAllSound DEF WellFormed
<1>10. CASE c.cmd = "LPOP"
  <2>1. su = AfterLPop(st, c.key)
    BY <1>10 DEF AfterCommand
  <2> QED
    BY <1>10, <2>1, MethodsKeepSound DEF WellFormed
<1>11. CASE c.cmd = "RPOP"
  <2>1. su = AfterRPop(st, c.key)
    BY <1>11 DEF AfterCommand
  <2> QED
    BY <1>11, <2>1, MethodsKeepSound DEF WellFormed
<1>12. CASE c.cmd = "FLUSHDB"
  <2>1. su = EmptyStore
    BY <1>12 DEF AfterCommand
  <2> QED
    BY <2>1, EmptyIsSound
<1>13. CASE c.cmd = "error"
  <2>1. su = st
    BY <1>13 DEF AfterCommand
  <2> QED
    BY <2>1
<1> QED
  BY <1>1, <1>2, <1>3, <1>4, <1>5, <1>6, <1>7, <1>8, <1>9, <1>10, <1>11, <1>12, <1>13
     DEF WellFormed, WriteCommands

-----------------------------------------------------------------------------
(* Replaying the log                                                       *)

SoundStores == {st \in Stores : NoEmpties(st)}

\* What the replay can be given.
Replayable(found) ==
  /\ Len(found) \in Nat /\ DOMAIN found = 1 .. Len(found)
  /\ \A i \in DOMAIN found : WellFormed(found[i].command)

\* Replaying one record leaves a sound store sound.
LEMMA ReplayKeepsSound ==
  ASSUME NEW st, Sound(st), NEW r, WellFormed(r.command), NEW now \in Nat
  PROVE  Sound(Replay(st, r, now))
<1>1. CASE r.spelling # "upper" \/ r.command.cmd \notin Replayed
  BY <1>1 DEF Replay
<1>2. CASE ~(r.spelling # "upper" \/ r.command.cmd \notin Replayed) /\ r.command.cmd = "SET"
  <2>1. r.command.key \in Keys /\ r.command.val \in Values
    BY <1>2 DEF WellFormed
  <2>2. Replay(st, r, now) = AfterSet(st, r.command.key, r.command.val, None, now)
    BY <1>2 DEF Replay
  <2> QED
    BY <2>1, <2>2, MethodsKeepSound
<1>3. CASE ~(r.spelling # "upper" \/ r.command.cmd \notin Replayed) /\ r.command.cmd # "SET"
  <2>1. Replay(st, r, now) = AfterCommand(st, r.command, now)
    BY <1>3 DEF Replay
  <2> QED
    BY <2>1, CommandKeepsSound
<1> QED
  BY <1>1, <1>2, <1>3

\* The replay goes through the records one by one.
LEMMA ReplayChain ==
  ASSUME NEW st \in SoundStores, NEW found, Replayable(found), NEW now \in Nat
  PROVE  \E h : /\ h \in [0 .. Len(found) -> SoundStores] /\ h[0] = st
                /\ \A i \in 1 .. Len(found) : h[i] = Replay(h[i - 1], found[i], now)
                /\ h[Len(found)] = ReplayAll(st, found, now)
<1> DEFINE m == Len(found)
           F == [i \in 1 .. m |-> [s \in SoundStores |-> Replay(s, found[i], now)]]
           Eqn(g) == g = [s \in SUBSET DOMAIN found |->
                            IF s = {} THEN st ELSE Replay(g[s \ {Max(s)}], found[Max(s)], now)]
           it == CHOOSE g : Eqn(g)
<1>1. ReplayAll(st, found, now) = it[DOMAIN found]
  BY DEF ReplayAll, FoldLeft, MapThenFoldSet
<1>2. m \in Nat /\ DOMAIN found = 1 .. m
  BY DEF Replayable
<1>3. F \in [1 .. m -> [SoundStores -> SoundStores]]
  <2>1. ASSUME NEW s \in SoundStores, NEW i \in 1 .. m PROVE Replay(s, found[i], now) \in SoundStores
    <3>1. Sound(s) /\ WellFormed(found[i].command)
      BY <1>2 DEF Replayable, Sound, SoundStores
    <3> QED
      BY <3>1, ReplayKeepsSound DEF Sound, SoundStores
  <2> QED
    BY <2>1
<1>4. PICK g : Folding(g, SoundStores, st, m, F)
  <2> HIDE DEF F, m
  <2> QED
    BY <1>2, <1>3, FoldExists
<1>5. Eqn(g)
  <2>1. \A s \in (SUBSET (1 .. m)) \ {{}} : g[s] = Replay(g[s \ {Max(s)}], found[Max(s)], now)
    BY <1>4 DEF Folding
  <2>2. g \in [SUBSET DOMAIN found -> SoundStores] /\ g[{}] = st
    BY <1>2, <1>4 DEF Folding
  <2> QED
    BY <1>2, <2>1, <2>2
<1>6. Eqn(it)
  <2> HIDE DEF Eqn
  <2> QED
    BY <1>5
<1> HIDE DEF it
<1>7. it[{}] = st
  BY <1>2, <1>6
<1>8. ASSUME NEW s \in (SUBSET (1 .. m)) \ {{}}, it[s \ {Max(s)}] \in SoundStores
      PROVE  it[s] = F[Max(s)][it[s \ {Max(s)}]]
  <2>1. Max(s) \in 1 .. m
    BY <1>4 DEF Folding
  <2>2. it[s] = Replay(it[s \ {Max(s)}], found[Max(s)], now)
    BY <1>2, <1>6, <1>8
  <2> QED
    BY <1>8, <2>1, <2>2
<1> HIDE DEF F, m
<1>9. PICK h : Steps(h, SoundStores, st, m, F) /\ h[m] = it[1 .. m]
  <2>1. Iterates(it, SoundStores, st, m, F)
    BY <1>7, <1>8 DEF Iterates
  <2> QED
    BY <1>2, <1>3, <2>1, FoldSteps
<1>10. ASSUME NEW i \in 1 .. m PROVE h[i] = Replay(h[i - 1], found[i], now)
  <2>1. h[i - 1] \in SoundStores
    BY <1>2, <1>9 DEF Steps
  <2> QED
    BY <1>9, <2>1 DEF F, Steps
<1> QED
  BY <1>1, <1>2, <1>9, <1>10 DEF m, Steps

\* A record that was cut in its last token still has arguments of their types.
LEMMA GarbledIsWellFormed ==
  ASSUME NEW r \in Records
  PROVE  WellFormed(Garbled(r).command)
<1> DEFINE c == r.command
<1>1. WellFormed(c) /\ Torn \in Values
  BY LoggableIsWellFormed, PersistenceAssumption DEF Records, Values
<1>2. CASE c.cmd = "HSET" \/ (c.cmd = "SET" /\ c.ttl = None)
  <2>1. Garbled(r).command = [c EXCEPT !.val = Torn]
    BY <1>2 DEF Garbled, Records
  <2>2. CASE c.cmd = "SET"
    <3>1. c.key \in Keys /\ c.ttl \in Int \cup {None} /\ c \in Loggable
      BY <1>1, <2>2 DEF WellFormed, Records
    <3>2. c \in [cmd : {"SET"}, key : Keys, val : Values, ttl : Int \cup {None}]
      BY <1>1, <2>2, <3>1, PersistenceAssumption DEF WellFormed, Loggable, AllWrites
    <3>3. [c EXCEPT !.val = Torn] \in [cmd : {"SET"}, key : Keys, val : Values, ttl : Int \cup {None}]
      BY <1>1, <3>2
    <3> QED
      BY <2>1, <3>3 DEF WellFormed, WriteCommands
  <2>3. CASE c.cmd = "HSET"
    <3>1. c \in [cmd : {"HSET"}, key : Keys, field : Fields, val : Values]
      BY <2>3, PersistenceAssumption DEF Records, Loggable, AllWrites
    <3>2. [c EXCEPT !.val = Torn] \in [cmd : {"HSET"}, key : Keys, field : Fields, val : Values]
      BY <1>1, <3>1
    <3> QED
      BY <2>1, <3>2 DEF WellFormed, WriteCommands
  <2> QED
    BY <1>2, <2>2, <2>3
<1>3. CASE c.cmd \in {"LPUSH", "RPUSH"}
  <2> DEFINE v == [c.vals EXCEPT ![Len(c.vals)] = Torn]
  <2>1. Garbled(r).command = [c EXCEPT !.vals = v]
    BY <1>3 DEF Garbled, Records
  <2>2. c.vals \in Seq(Values) /\ c.key \in Keys
    BY <1>1, <1>3 DEF WellFormed
  <2>3. v \in Seq(Values)
    <3>1. c.vals \in [1 .. Len(c.vals) -> Values] /\ Len(c.vals) \in Nat
      BY <2>2
    <3>2. v \in [1 .. Len(c.vals) -> Values]
      BY <1>1, <3>1
    <3> QED
      BY <3>1, <3>2
  <2>4. c \in [cmd : {"LPUSH", "RPUSH"}, key : Keys, vals : Seq(Values)]
    <3>1. \/ c \in [cmd : {"LPUSH", "RPUSH"}, key : Keys, vals : OneOrTwo(Inputs)]
          \/ c \in [cmd : {"RPUSH"}, key : Keys, vals : Lists]
      BY <1>3 DEF Records, Loggable, AllWrites
    <3> QED
      BY <2>2, <3>1
  <2> HIDE DEF v
  <2>5. [c EXCEPT !.vals = v] \in [cmd : {"LPUSH", "RPUSH"}, key : Keys, vals : Seq(Values)]
    BY <2>3, <2>4
  <2> QED
    BY <2>1, <2>5 DEF WellFormed, WriteCommands
<1>4. CASE c.cmd = "DEL"
  <2>1. Garbled(r).command = [c EXCEPT !.keys = Front(c.keys)]
    BY <1>4 DEF Garbled, Records
  <2>2. c.keys \in Seq(Keys) /\ Len(c.keys) \in 1 .. 2 /\ c \in [cmd : {"DEL"}, keys : OneOrTwo(Keys)]
    <3>1. c \in [cmd : {"DEL"}, keys : OneOrTwo(Keys)]
      BY <1>4 DEF Records, Loggable, AllWrites
    <3> QED
      BY <3>1, OneOrTwoSeq
  <2>3. Front(c.keys) \in Seq(Keys)
    BY <2>2 DEF Front
  <2>4. [c EXCEPT !.keys = Front(c.keys)] \in [cmd : {"DEL"}, keys : Seq(Keys)]
    BY <2>2, <2>3
  <2> QED
    BY <2>1, <2>4 DEF WellFormed, WriteCommands
<1>5. CASE c.cmd \notin {"SET", "HSET", "LPUSH", "RPUSH", "DEL"}
  <2>1. Garbled(r).command = Wrong("garbled")
    BY <1>5 DEF Garbled, Records
  <2> QED
    BY <2>1 DEF WellFormed, WriteCommands, Wrong
<1>6. CASE c.cmd = "SET" /\ c.ttl # None
  <2>1. Garbled(r) = r
    BY <1>6 DEF Garbled
  <2> QED
    BY <1>1, <2>1
<1> QED
  BY <1>2, <1>3, <1>4, <1>5, <1>6

\* What the reader finds in a log can be replayed.
LEMMA ReadableIsReplayable ==
  ASSUME NEW l \in Seq(Records)
  PROVE  Replayable(Readable(l)) /\ Len(Readable(l)) = Len(l)
<1> DEFINE found == Readable(l)
<1>1. found = [i \in 1 .. Len(l) |-> found[i]] /\ \A i \in 1 .. Len(l) : found[i] = Found(l, i)
  BY DEF Readable
<1>2. Len(found) = Len(l) /\ DOMAIN found = 1 .. Len(l)
  <2> HIDE DEF found
  <2>1. found \in [1 .. Len(l) -> {found[i] : i \in 1 .. Len(l)}]
    BY <1>1
  <2> QED
    BY <2>1
<1>3. ASSUME NEW i \in 1 .. Len(l) PROVE WellFormed(found[i].command)
  <2>1. l[i] \in Records
    OBVIOUS
  <2>2. found[i] \in {Skipped(l[i]), Garbled(l[i]), l[i]}
    BY <1>1, <2>1 DEF Found, Records, Cuts
  <2>3. WellFormed(Skipped(l[i]).command)
    <3>1. Skipped(l[i]).command = Wrong("skipped")
      BY <2>1 DEF Skipped, Records
    <3> QED
      BY <3>1 DEF WellFormed, WriteCommands, Wrong
  <2>4. WellFormed(Garbled(l[i]).command) /\ WellFormed(l[i].command)
    BY <2>1, GarbledIsWellFormed, LoggableIsWellFormed DEF Records
  <2> QED
    BY <2>2, <2>3, <2>4
<1> QED
  BY <1>2, <1>3 DEF Replayable

\* h is the replay of a log, record by record.
Replaying(h, l, now) ==
  /\ h \in [0 .. Len(l) -> SoundStores] /\ h[0] = EmptyStore
  /\ \A i \in 1 .. Len(l) : h[i] = Replay(h[i - 1], Found(l, i), now)
  /\ h[Len(l)] = Recovered(l, now)

\* Every log has one.
LEMMA RecoveredChain ==
  ASSUME NEW l \in Seq(Records), NEW now \in Nat
  PROVE  \E h : Replaying(h, l, now)
<1> DEFINE found == Readable(l)
<1>1. EmptyStore \in SoundStores
  BY EmptyIsSound DEF Sound, SoundStores
<1>2. Replayable(found) /\ Len(found) = Len(l) /\ Recovered(l, now) = ReplayAll(EmptyStore, found, now)
  BY ReadableIsReplayable DEF Recovered
<1>3. \A i \in 1 .. Len(l) : found[i] = Found(l, i)
  BY DEF Readable
<1> HIDE DEF found
<1>4. PICK h : /\ h \in [0 .. Len(found) -> SoundStores] /\ h[0] = EmptyStore
               /\ \A i \in 1 .. Len(found) : h[i] = Replay(h[i - 1], found[i], now)
               /\ h[Len(found)] = ReplayAll(EmptyStore, found, now)
  BY <1>1, <1>2, ReplayChain
<1>5. Replaying(h, l, now)
  BY <1>2, <1>3, <1>4 DEF Replaying
<1> QED
  BY <1>5

\* A restart gives a sound store.
LEMMA RecoveredIsSound ==
  ASSUME NEW l \in Seq(Records), NEW now \in Nat
  PROVE  Sound(Recovered(l, now))
<1>1. PICK h : Replaying(h, l, now)
  BY RecoveredChain
<1>2. h[Len(l)] \in SoundStores /\ h[Len(l)] = Recovered(l, now)
  BY <1>1 DEF Replaying
<1> QED
  BY <1>2 DEF Sound, SoundStores

\* A record behind the others is replayed after them.
LEMMA RecoveredAppend ==
  ASSUME NEW l \in Seq(Records), NEW r \in Records, NEW now \in Nat
  PROVE  Recovered(Append(l, r), now) =
           Replay(Recovered(l, now), Found(Append(l, r), Len(l) + 1), now)
<1> DEFINE m == Len(l)
           k == Append(l, r)
<1>1. k \in Seq(Records) /\ Len(k) = m + 1 /\ m \in Nat /\ \A i \in 1 .. m : k[i] = l[i]
  OBVIOUS
<1>2. ASSUME NEW i \in 1 .. m PROVE Found(k, i) = Found(l, i)
  <2>1. k[i] = l[i] /\ (i > 1 => k[i - 1] = l[i - 1])
    BY <1>1
  <2> QED
    BY <2>1 DEF Found
<1>3. PICK h : Replaying(h, l, now)
  BY RecoveredChain
<1> HIDE DEF k
<1>4. PICK g : Replaying(g, k, now)
  BY <1>1, RecoveredChain
<1> HIDE DEF m
<1> DEFINE T == {i \in Nat : i <= m => g[i] = h[i]}
<1>5. 0 \in T
  BY <1>3, <1>4 DEF Replaying
<1>6. ASSUME NEW i \in Nat, i \in T PROVE i + 1 \in T
  <2>1. SUFFICES ASSUME i + 1 <= m PROVE g[i + 1] = h[i + 1]
    OBVIOUS
  <2>2. g[i] = h[i] /\ i + 1 \in 1 .. m /\ i + 1 \in 1 .. Len(k) /\ (i + 1) - 1 = i
    BY <1>1, <1>6, <2>1
  <2>3. /\ g[i + 1] = Replay(g[i], Found(k, i + 1), now)
        /\ h[i + 1] = Replay(h[i], Found(l, i + 1), now)
    BY <1>3, <1>4, <2>2 DEF Replaying, m
  <2> QED
    BY <1>2, <2>2, <2>3
<1> HIDE DEF T
<1>7. m \in T
  BY <1>1, <1>5, <1>6, SetInduction
<1>8. g[m] = Recovered(l, now)
  BY <1>1, <1>3, <1>7 DEF T, Replaying, m
<1>9. m + 1 \in 1 .. Len(k) /\ (m + 1) - 1 = m
  BY <1>1
<1>10. g[m + 1] = Replay(g[m], Found(k, m + 1), now) /\ g[m + 1] = Recovered(k, now)
  BY <1>1, <1>4, <1>9 DEF Replaying
<1> QED
  BY <1>8, <1>10 DEF k, m

-----------------------------------------------------------------------------
(* What a restart at the time n would give back of a store looked at now   *)

\* The store back has, at the time n, the hashes and lists of st and every
\* string that is live in st at the time now.
Covers(back, n, st, now) ==
  /\ back.hash = st.hash /\ back.list = st.list
  /\ \A j \in Keys : Live(st.str[j], now) =>
       Live(back.str[j], n) /\ back.str[j].value = st.str[j].value

\* No deadline given by EXPIRE wraps, whenever it is set.
DeadlinesFit == \A n \in 0 .. ClockBound, ttl \in Seconds : ttl > 0 => After(n, ttl) > n

\* Entries put under one key.
LEMMA CoversPut ==
  ASSUME NEW st \in Stores, NEW back \in Stores, NEW n, NEW now, Covers(back, n, st, now),
         NEW k \in Keys, NEW e, NEW f, Live(e, now) => Live(f, n) /\ f.value = e.value
  PROVE  Covers([back EXCEPT !.str[k] = f], n, [st EXCEPT !.str[k] = e], now)
<1> DEFINE su == [st EXCEPT !.str[k] = e]
           bu == [back EXCEPT !.str[k] = f]
<1>1. su.hash = st.hash /\ su.list = st.list /\ bu.hash = back.hash /\ bu.list = back.list
  BY DEF Stores
<1>2. \A j \in Keys : /\ su.str[j] = IF j = k THEN e ELSE st.str[j]
                      /\ bu.str[j] = IF j = k THEN f ELSE back.str[j]
  BY DEF Stores
<1> HIDE DEF su, bu
<1>3. Covers(bu, n, su, now)
  BY <1>1, <1>2 DEF Covers
<1> QED
  BY <1>3 DEF su, bu

\* The same hashes and lists put in both.
LEMMA CoversContainers ==
  ASSUME NEW st \in Stores, NEW back \in Stores, NEW n, NEW now, Covers(back, n, st, now),
         NEW h, NEW l
  PROVE  /\ Covers([back EXCEPT !.hash = h], n, [st EXCEPT !.hash = h], now)
         /\ Covers([back EXCEPT !.list = l], n, [st EXCEPT !.list = l], now)
BY DEF Covers, Stores

\* An absent or an erased string is not live.
LEMMA NoneIsNotLive == \A now : ~Live(None, now)
BY DEF Live

\* What covers a store covers it later, and without a string the janitor took.
LEMMA CoversLess ==
  ASSUME NEW st \in Stores, NEW back \in Stores, NEW n, NEW now \in Nat, Covers(back, n, st, now)
  PROVE  /\ \A later \in Nat : now <= later => Covers(back, n, st, later)
         /\ \A k \in Keys : Covers(back, n, AfterErase(st, k), now)
<1>1. ASSUME NEW later \in Nat, now <= later PROVE Covers(back, n, st, later)
  <2>1. ASSUME NEW j \in Keys, Live(st.str[j], later) PROVE Live(st.str[j], now)
    <3>1. st.str[j] \in Entries
      BY <2>1 DEF Live, Stores
    <3> QED
      BY <1>1, <2>1, <3>1 DEF Live, Expired, Entries
  <2> QED
    BY <2>1 DEF Covers
<1>2. ASSUME NEW k \in Keys PROVE Covers(back, n, AfterErase(st, k), now)
  <2> DEFINE su == AfterErase(st, k)
  <2>1. su.hash = st.hash /\ su.list = st.list
        /\ \A j \in Keys : su.str[j] = IF j = k THEN None ELSE st.str[j]
    BY DEF AfterErase, Stores
  <2> HIDE DEF su
  <2>2. Covers(back, n, su, now)
    BY <2>1, NoneIsNotLive DEF Covers
  <2> QED
    BY <2>2 DEF su
<1> QED
  BY <1>1, <1>2

\* SET in the store, with a TTL or without, and SET in the replay.
LEMMA CoversSet ==
  ASSUME NEW st \in Stores, NEW back \in Stores, NEW n \in Nat, NEW now, Covers(back, n, st, now),
         NEW k \in Keys, NEW v \in Values, NEW ttl
  PROVE  Covers(AfterSet(back, k, v, None, n), n, AfterSet(st, k, v, ttl, now), now)
<1> DEFINE e == [value |-> v, expires_at |-> IF ttl # None /\ ttl > 0 THEN After(now, ttl) ELSE None,
                 last_accessed |-> now]
           f == [value |-> v, expires_at |-> None, last_accessed |-> n]
<1>1. f # None
  <2>1. f \in Entries
    BY DEF Entries
  <2> QED
    BY <2>1, NoneAssumption
<1>2. Live(f, n) /\ f.value = e.value
  BY <1>1 DEF Live, Expired
<1>3. AfterSet(st, k, v, ttl, now) = [st EXCEPT !.str[k] = e]
  BY DEF AfterSet
<1>4. AfterSet(back, k, v, None, n) = [back EXCEPT !.str[k] = f]
  BY DEF AfterSet
<1> HIDE DEF e, f
<1> QED
  BY <1>2, <1>3, <1>4, CoversPut

\* DEL of one key.
LEMMA CoversDel ==
  ASSUME NEW st \in Stores, NEW back \in Stores, NEW n, NEW now, Covers(back, n, st, now),
         NEW k \in Keys
  PROVE  Covers(AfterDel(back, k), n, AfterDel(st, k), now)
<1> DEFINE su == AfterDel(st, k)
           bu == AfterDel(back, k)
<1>1. st.hash = back.hash /\ st.list = back.list
  BY DEF Covers
<1>2. su.hash = bu.hash /\ su.list = bu.list
  BY <1>1 DEF AfterDel, Stores
<1>3. \A j \in Keys : /\ su.str[j] = IF j = k THEN None ELSE st.str[j]
                      /\ bu.str[j] = IF j = k THEN None ELSE back.str[j]
  BY DEF AfterDel, Stores
<1> HIDE DEF su, bu
<1>4. Covers(bu, n, su, now)
  BY <1>2, <1>3, NoneIsNotLive DEF Covers
<1> QED
  BY <1>4 DEF su, bu

\* EXPIRE: the string that lives on in the store lives on in the replay.
LEMMA CoversExpire ==
  ASSUME NEW st \in Stores, NEW back \in Stores, NEW n \in 0 .. ClockBound, NEW now \in Nat,
         Covers(back, n, st, now), DeadlinesFit, NEW k \in Keys, NEW ttl \in Seconds
  PROVE  Covers(AfterExpire(back, k, ttl, n), n, AfterExpire(st, k, ttl, now), now)
<1> DEFINE e == [st.str[k] EXCEPT !.expires_at = After(now, ttl)]
           f == [back.str[k] EXCEPT !.expires_at = After(n, ttl)]
<1>1. ttl \in Int
  BY DEF Seconds
<1>2. CASE Live(st.str[k], now) /\ ttl > 0
  <2>1. Live(back.str[k], n) /\ back.str[k].value = st.str[k].value
    BY <1>2 DEF Covers
  <2>2. st.str[k] \in Entries /\ back.str[k] \in Entries
    BY <1>2, <2>1 DEF Live, Stores
  <2>3. f \in Entries /\ f.value = e.value /\ f.expires_at = After(n, ttl) /\ After(n, ttl) \in Int
    BY <1>1, <2>1, <2>2, AfterType, PersistenceAssumption DEF Entries
  <2>4. After(n, ttl) > n
    BY <1>2 DEF DeadlinesFit
  <2>5. Live(f, n)
    <3>1. ~(After(n, ttl) <= n)
      BY <2>3, <2>4, PersistenceAssumption
    <3> QED
      BY <2>3, <3>1, NoneAssumption DEF Live, Expired
  <2>6. AfterExpire(st, k, ttl, now) = [st EXCEPT !.str[k] = e]
    BY <1>2, <2>2 DEF AfterExpire, Stores
  <2>7. AfterExpire(back, k, ttl, n) = [back EXCEPT !.str[k] = f]
    BY <1>2, <2>1, <2>2 DEF AfterExpire, Stores
  <2> HIDE DEF e, f
  <2>8. Live(e, now) => Live(f, n) /\ f.value = e.value
    BY <2>3, <2>5
  <2>9. Covers([back EXCEPT !.str[k] = f], n, [st EXCEPT !.str[k] = e], now)
    BY <2>8, CoversPut
  <2> QED
    BY <2>6, <2>7, <2>9
<1>3. CASE ~(Live(st.str[k], now) /\ ttl > 0)
  <2>1. AfterExpire(st, k, ttl, now) = [st EXCEPT !.str[k] = None]
    BY <1>3 DEF AfterExpire, AfterErase
  <2>2. PICK x : AfterExpire(back, k, ttl, n) = [back EXCEPT !.str[k] = x]
    <3>1. CASE Live(back.str[k], n) /\ ttl > 0
      <4>1. AfterExpire(back, k, ttl, n) = [back EXCEPT !.str[k] = f]
        BY <3>1 DEF AfterExpire, Stores
      <4> QED
        BY <4>1
    <3>2. CASE ~(Live(back.str[k], n) /\ ttl > 0)
      BY <3>2 DEF AfterExpire, AfterErase
    <3> QED
      BY <3>1, <3>2
  <2>3. Covers([back EXCEPT !.str[k] = x], n, [st EXCEPT !.str[k] = None], now)
    BY NoneIsNotLive, CoversPut
  <2> QED
    BY <2>1, <2>2, <2>3
<1> QED
  BY <1>2, <1>3

\* Methods on hashes and lists do the same to both.
LEMMA CoversOthers ==
  ASSUME NEW st \in Stores, NEW back \in Stores, NEW n, NEW now, Covers(back, n, st, now),
         NEW k \in Keys
  PROVE  /\ \A f, v : Covers(AfterHSet(back, k, f, v), n, AfterHSet(st, k, f, v), now)
         /\ \A f : Covers(AfterHDel(back, k, f), n, AfterHDel(st, k, f), now)
         /\ \A v : Covers(AfterLPush(back, k, v), n, AfterLPush(st, k, v), now)
         /\ \A v : Covers(AfterRPush(back, k, v), n, AfterRPush(st, k, v), now)
<1>1. back.hash = st.hash /\ back.list = st.list
  BY DEF Covers
<1>2. ListOf(back, k) = ListOf(st, k)
  BY <1>1 DEF ListOf
<1>3. ASSUME NEW f, NEW v PROVE Covers(AfterHSet(back, k, f, v), n, AfterHSet(st, k, f, v), now)
  BY <1>1, CoversContainers DEF AfterHSet
<1>4. ASSUME NEW f PROVE Covers(AfterHDel(back, k, f), n, AfterHDel(st, k, f), now)
  BY <1>1, CoversContainers DEF AfterHDel
<1>5. ASSUME NEW v PROVE Covers(AfterLPush(back, k, v), n, AfterLPush(st, k, v), now)
  BY <1>1, <1>2, CoversContainers DEF AfterLPush
<1>6. ASSUME NEW v PROVE Covers(AfterRPush(back, k, v), n, AfterRPush(st, k, v), now)
  BY <1>1, <1>2, CoversContainers DEF AfterRPush
<1> QED
  BY <1>3, <1>4, <1>5, <1>6

\* DEL.
LEMMA CoversDelAll ==
  ASSUME NEW st \in Stores, NEW back \in Stores, NEW n, NEW now, Covers(back, n, st, now),
         NEW ks \in Seq(Keys)
  PROVE  Covers(DelAll(back, ks), n, DelAll(st, ks), now)
<1> DEFINE m == Len(ks)
<1>1. PICK h : Chain(h, st, m) /\ h[m] = DelAll(st, ks)
               /\ \A i \in 1 .. m : h[i] = AfterDel(h[i - 1], ks[i])
  BY DelChain
<1>2. PICK g : Chain(g, back, m) /\ g[m] = DelAll(back, ks)
               /\ \A i \in 1 .. m : g[i] = AfterDel(g[i - 1], ks[i])
  BY DelChain
<1>3. m \in Nat /\ \A i \in 1 .. m : ks[i] \in Keys
  OBVIOUS
<1> HIDE DEF m
<1> DEFINE T == {i \in Nat : i <= m => Covers(g[i], n, h[i], now)}
<1>4. 0 \in T
  BY <1>1, <1>2 DEF Chain
<1>5. ASSUME NEW i \in Nat, i \in T PROVE i + 1 \in T
  <2>1. SUFFICES ASSUME i + 1 <= m PROVE Covers(g[i + 1], n, h[i + 1], now)
    OBVIOUS
  <2>2. Covers(g[i], n, h[i], now) /\ i + 1 \in 1 .. m /\ (i + 1) - 1 = i /\ i \in 0 .. m
    BY <1>3, <1>5, <2>1
  <2>3. h[i] \in Stores /\ g[i] \in Stores
    BY <1>1, <1>2, <2>2 DEF Chain
  <2>4. /\ h[i + 1] = AfterDel(h[i], ks[i + 1])
        /\ g[i + 1] = AfterDel(g[i], ks[i + 1])
        /\ ks[i + 1] \in Keys
    BY <1>1, <1>2, <1>3, <2>2
  <2> QED
    BY <2>2, <2>3, <2>4, CoversDel
<1> HIDE DEF T
<1>6. m \in T
  BY <1>3, <1>4, <1>5, SetInduction
<1> QED
  BY <1>1, <1>2, <1>3, <1>6 DEF T

\* LPUSH.
LEMMA CoversLPushAll ==
  ASSUME NEW st \in Stores, NEW back \in Stores, NEW n, NEW now, Covers(back, n, st, now),
         NEW k \in Keys, NEW vals \in Seq(Values)
  PROVE  Covers(LPushAll(back, k, vals), n, LPushAll(st, k, vals), now)
<1> DEFINE m == Len(vals)
<1>1. PICK h : Chain(h, st, m) /\ h[m] = LPushAll(st, k, vals)
               /\ \A i \in 1 .. m : h[i] = AfterLPush(h[i - 1], k, vals[i])
  BY LPushChain
<1>2. PICK g : Chain(g, back, m) /\ g[m] = LPushAll(back, k, vals)
               /\ \A i \in 1 .. m : g[i] = AfterLPush(g[i - 1], k, vals[i])
  BY LPushChain
<1>3. m \in Nat /\ \A i \in 1 .. m : vals[i] \in Values
  OBVIOUS
<1> HIDE DEF m
<1> DEFINE T == {i \in Nat : i <= m => Covers(g[i], n, h[i], now)}
<1>4. 0 \in T
  BY <1>1, <1>2 DEF Chain
<1>5. ASSUME NEW i \in Nat, i \in T PROVE i + 1 \in T
  <2>1. SUFFICES ASSUME i + 1 <= m PROVE Covers(g[i + 1], n, h[i + 1], now)
    OBVIOUS
  <2>2. Covers(g[i], n, h[i], now) /\ i + 1 \in 1 .. m /\ (i + 1) - 1 = i /\ i \in 0 .. m
    BY <1>3, <1>5, <2>1
  <2>3. h[i] \in Stores /\ g[i] \in Stores
    BY <1>1, <1>2, <2>2 DEF Chain
  <2>4. /\ h[i + 1] = AfterLPush(h[i], k, vals[i + 1])
        /\ g[i + 1] = AfterLPush(g[i], k, vals[i + 1])
        /\ vals[i + 1] \in Values
    BY <1>1, <1>2, <1>3, <2>2
  <2> QED
    BY <2>2, <2>3, <2>4, CoversOthers
<1> HIDE DEF T
<1>6. m \in T
  BY <1>3, <1>4, <1>5, SetInduction
<1> QED
  BY <1>1, <1>2, <1>3, <1>6 DEF T

\* RPUSH.
LEMMA CoversRPushAll ==
  ASSUME NEW st \in Stores, NEW back \in Stores, NEW n, NEW now, Covers(back, n, st, now),
         NEW k \in Keys, NEW vals \in Seq(Values)
  PROVE  Covers(RPushAll(back, k, vals), n, RPushAll(st, k, vals), now)
<1> DEFINE m == Len(vals)
<1>1. PICK h : Chain(h, st, m) /\ h[m] = RPushAll(st, k, vals)
               /\ \A i \in 1 .. m : h[i] = AfterRPush(h[i - 1], k, vals[i])
  BY RPushChain
<1>2. PICK g : Chain(g, back, m) /\ g[m] = RPushAll(back, k, vals)
               /\ \A i \in 1 .. m : g[i] = AfterRPush(g[i - 1], k, vals[i])
  BY RPushChain
<1>3. m \in Nat /\ \A i \in 1 .. m : vals[i] \in Values
  OBVIOUS
<1> HIDE DEF m
<1> DEFINE T == {i \in Nat : i <= m => Covers(g[i], n, h[i], now)}
<1>4. 0 \in T
  BY <1>1, <1>2 DEF Chain
<1>5. ASSUME NEW i \in Nat, i \in T PROVE i + 1 \in T
  <2>1. SUFFICES ASSUME i + 1 <= m PROVE Covers(g[i + 1], n, h[i + 1], now)
    OBVIOUS
  <2>2. Covers(g[i], n, h[i], now) /\ i + 1 \in 1 .. m /\ (i + 1) - 1 = i /\ i \in 0 .. m
    BY <1>3, <1>5, <2>1
  <2>3. h[i] \in Stores /\ g[i] \in Stores
    BY <1>1, <1>2, <2>2 DEF Chain
  <2>4. /\ h[i + 1] = AfterRPush(h[i], k, vals[i + 1])
        /\ g[i + 1] = AfterRPush(g[i], k, vals[i + 1])
        /\ vals[i + 1] \in Values
    BY <1>1, <1>2, <1>3, <2>2
  <2> QED
    BY <2>2, <2>3, <2>4, CoversOthers
<1> HIDE DEF T
<1>6. m \in T
  BY <1>3, <1>4, <1>5, SetInduction
<1> QED
  BY <1>1, <1>2, <1>3, <1>6 DEF T

\* A command but SET, executed now and replayed at the time n.
LEMMA CoversCommand ==
  ASSUME NEW st \in Stores, NEW back \in Stores, NEW n \in 0 .. ClockBound, NEW now \in Nat,
         Covers(back, n, st, now), DeadlinesFit,
         NEW c, WellFormed(c), c.cmd \in Replayed \ {"SET"}
  PROVE  Covers(AfterCommand(back, c, n), n, AfterCommand(st, c, now), now)
<1>1. CASE c.cmd = "DEL"
  <2>1. \A su, t : AfterCommand(su, c, t) = DelAll(su, c.keys)
    BY <1>1 DEF AfterCommand
  <2>2. c.keys \in Seq(Keys)
    BY <1>1 DEF WellFormed
  <2> QED
    BY <2>1, <2>2, CoversDelAll
<1>2. CASE c.cmd = "EXPIRE"
  <2>1. \A su, t : AfterCommand(su, c, t) = AfterExpire(su, c.key, c.ttl, t)
    BY <1>2 DEF AfterCommand
  <2>2. c.key \in Keys /\ c.ttl \in Seconds
    BY <1>2 DEF WellFormed
  <2> QED
    BY <2>1, <2>2, CoversExpire
<1>3. CASE c.cmd = "HSET"
  <2>1. \A su, t : AfterCommand(su, c, t) = AfterHSet(su, c.key, c.field, c.val)
    BY <1>3 DEF AfterCommand
  <2>2. c.key \in Keys
    BY <1>3 DEF WellFormed
  <2> QED
    BY <2>1, <2>2, CoversOthers
<1>4. CASE c.cmd = "HDEL"
  <2>1. \A su, t : AfterCommand(su, c, t) = AfterHDel(su, c.key, c.field)
    BY <1>4 DEF AfterCommand
  <2>2. c.key \in Keys
    BY <1>4 DEF WellFormed
  <2> QED
    BY <2>1, <2>2, CoversOthers
<1>5. CASE c.cmd = "LPUSH"
  <2>1. \A su, t : AfterCommand(su, c, t) = LPushAll(su, c.key, c.vals)
    BY <1>5 DEF AfterCommand
  <2>2. c.key \in Keys /\ c.vals \in Seq(Values)
    BY <1>5 DEF WellFormed
  <2> QED
    BY <2>1, <2>2, CoversLPushAll
<1>6. CASE c.cmd = "RPUSH"
  <2>1. \A su, t : AfterCommand(su, c, t) = RPushAll(su, c.key, c.vals)
    BY <1>6 DEF AfterCommand
  <2>2. c.key \in Keys /\ c.vals \in Seq(Values)
    BY <1>6 DEF WellFormed
  <2> QED
    BY <2>1, <2>2, CoversRPushAll
<1>7. CASE c.cmd = "FLUSHDB"
  <2>1. \A su, t : AfterCommand(su, c, t) = EmptyStore
    BY <1>7 DEF AfterCommand
  <2> QED
    BY <2>1, NoneIsNotLive DEF Covers, EmptyStore
<1> QED
  BY <1>1, <1>2, <1>3, <1>4, <1>5, <1>6, <1>7 DEF Replayed

\* A record, replayed at the two times.
LEMMA CoversReplay ==
  ASSUME NEW st \in Stores, NEW back \in Stores, NEW n \in 0 .. ClockBound, NEW now \in Nat,
         Covers(back, n, st, now), DeadlinesFit, NEW r, WellFormed(r.command)
  PROVE  Covers(Replay(back, r, n), n, Replay(st, r, now), now)
<1> DEFINE c == r.command
<1>1. CASE r.spelling # "upper" \/ c.cmd \notin Replayed
  BY <1>1 DEF Replay
<1>2. CASE r.spelling = "upper" /\ c.cmd = "SET"
  <2>1. \A su, t : Replay(su, r, t) = AfterSet(su, c.key, c.val, None, t)
    BY <1>2 DEF Replay, Replayed
  <2>2. c.key \in Keys /\ c.val \in Values /\ n \in Nat
    BY <1>2, PersistenceAssumption DEF WellFormed
  <2> QED
    BY <2>1, <2>2, CoversSet
<1>3. CASE r.spelling = "upper" /\ c.cmd \in Replayed \ {"SET"}
  <2>1. \A su, t : Replay(su, r, t) = AfterCommand(su, c, t)
    BY <1>3 DEF Replay
  <2> QED
    BY <1>3, <2>1, CoversCommand
<1> QED
  BY <1>1, <1>2, <1>3

\* A command, executed now and replayed at the time n.
LEMMA CoversExecute ==
  ASSUME NEW st \in Stores, NEW back \in Stores, NEW n \in 0 .. ClockBound, NEW now \in Nat,
         Covers(back, n, st, now), DeadlinesFit,
         NEW r, WellFormed(r.command), r.spelling = "upper", r.command.cmd \in Replayed
  PROVE  Covers(Replay(back, r, n), n, AfterCommand(st, r.command, now), now)
<1> DEFINE c == r.command
<1>1. CASE c.cmd = "SET"
  <2>1. Replay(back, r, n) = AfterSet(back, c.key, c.val, None, n)
    BY <1>1 DEF Replay, Replayed
  <2>2. AfterCommand(st, c, now) = AfterSet(st, c.key, c.val, c.ttl, now)
    BY <1>1 DEF AfterCommand
  <2>3. c.key \in Keys /\ c.val \in Values /\ n \in Nat
    BY <1>1, PersistenceAssumption DEF WellFormed
  <2> QED
    BY <2>1, <2>2, <2>3, CoversSet
<1>2. CASE c.cmd # "SET"
  <2>1. Replay(back, r, n) = AfterCommand(back, c, n)
    BY <1>2 DEF Replay
  <2> QED
    BY <1>2, <2>1, CoversCommand
<1> QED
  BY <1>1, <1>2

\* What a restart gives back now, one at a later time gives back as well.
LEMMA RestartsAgree ==
  ASSUME NEW l \in Seq(Records), NEW n \in 0 .. ClockBound, NEW now \in Nat, DeadlinesFit
  PROVE  Covers(Recovered(l, n), n, Recovered(l, now), now)
<1> DEFINE m == Len(l)
<1>1. n \in Nat /\ m \in Nat
  BY PersistenceAssumption
<1>2. PICK h : Replaying(h, l, now)
  BY RecoveredChain
<1>3. PICK g : Replaying(g, l, n)
  BY <1>1, RecoveredChain
<1>4. ASSUME NEW i \in 1 .. m PROVE WellFormed(Found(l, i).command)
  <2>1. i \in DOMAIN Readable(l) /\ Readable(l)[i] = Found(l, i)
    BY DEF Readable
  <2> QED
    BY <2>1, ReadableIsReplayable DEF Replayable
<1> DEFINE T == {i \in Nat : i <= m => Covers(g[i], n, h[i], now)}
<1>5. 0 \in T
  <2>1. Covers(EmptyStore, n, EmptyStore, now)
    BY NoneIsNotLive DEF Covers, EmptyStore
  <2> QED
    BY <1>2, <1>3, <2>1 DEF Replaying
<1>6. ASSUME NEW i \in Nat, i \in T PROVE i + 1 \in T
  <2>1. SUFFICES ASSUME i + 1 <= m PROVE Covers(g[i + 1], n, h[i + 1], now)
    OBVIOUS
  <2>2. Covers(g[i], n, h[i], now) /\ i + 1 \in 1 .. m /\ (i + 1) - 1 = i /\ i \in 0 .. m
    BY <1>1, <1>6, <2>1
  <2>3. h[i] \in Stores /\ g[i] \in Stores
    BY <1>2, <1>3, <2>2 DEF Replaying, SoundStores
  <2>4. /\ h[i + 1] = Replay(h[i], Found(l, i + 1), now)
        /\ g[i + 1] = Replay(g[i], Found(l, i + 1), n)
    BY <1>2, <1>3, <2>2 DEF Replaying
  <2> QED
    BY <1>4, <2>2, <2>3, <2>4, CoversReplay
<1> HIDE DEF T
<1>7. m \in T
  BY <1>1, <1>5, <1>6, SetInduction
<1> QED
  BY <1>1, <1>2, <1>3, <1>7 DEF T, Replaying

-----------------------------------------------------------------------------
(* The snapshot                                                            *)

\* s has every element of S, once.
Enumerates(s, S) ==
  /\ s \in Seq(S)
  /\ \A x \in S : \E i \in 1 .. Len(s) : s[i] = x
  /\ \A i, j \in 1 .. Len(s) : s[i] = s[j] => i = j

\* So does the sequence that a finite set is made into.
LEMMA SetToSeqEnumerates ==
  ASSUME NEW S, IsFiniteSet(S)
  PROVE  Enumerates(SetToSeq(S), S)
<1> DEFINE c == Cardinality(S)
           f == SetToSeq(S)
<1>1. c \in Nat /\ ExistsBijection(1 .. c, S)
  BY FS_CardinalityType
<1>2. PICK g \in [1 .. c -> S] : IsInjective(g)
  BY <1>1 DEF ExistsBijection, Bijection, Injection
<1>3. f \in [1 .. c -> S] /\ IsInjective(f)
  BY <1>2 DEF SetToSeq
<1> HIDE DEF f
<1>4. f \in Injection(1 .. c, S)
  BY <1>3 DEF Injection
<1>5. Cardinality(1 .. c) = c
  BY <1>1, FS_Interval
<1> HIDE DEF c
<1>6. f \in Surjection(1 .. c, S)
  BY <1>4, <1>5, FS_Injection DEF c
<1>7. f \in Seq(S) /\ Len(f) = c
  BY <1>1, <1>3
<1> QED
  BY <1>3, <1>6, <1>7 DEF Enumerates, IsInjective, Surjection, f

\* The images of the elements of a finite set are finitely many.
LEMMA ImageIsFinite ==
  ASSUME NEW S, IsFiniteSet(S), NEW F, F = [x \in S |-> F[x]]
  PROVE  IsFiniteSet({F[x] : x \in S})
<1> DEFINE T == {F[x] : x \in S}
<1>1. F \in [S -> T]
  OBVIOUS
<1>2. \A y \in T : \E x \in S : F[x] = y
  OBVIOUS
<1> HIDE DEF T
<1>3. F \in Surjection(S, T)
  BY <1>1, <1>2 DEF Surjection
<1>4. IsFiniteSet(T)
  BY <1>3, FS_Surjection
<1> QED
  BY <1>4 DEF T

\* A sequence and one of other elements behind it.
LEMMA ConcatEnumerates ==
  ASSUME NEW s, NEW t, NEW S, NEW T, Enumerates(s, S), Enumerates(t, T), S \cap T = {}
  PROVE  Enumerates(s \o t, S \cup T)
<1> DEFINE u == s \o t
<1>1. s \in Seq(S) /\ t \in Seq(T)
  BY DEF Enumerates
<1>2. u \in Seq(S \cup T) /\ Len(u) = Len(s) + Len(t) /\ Len(s) \in Nat /\ Len(t) \in Nat
  <2>1. s \in Seq(S \cup T) /\ t \in Seq(S \cup T)
    BY <1>1
  <2> QED
    BY <2>1
<1>3. \A i \in 1 .. Len(s) : u[i] = s[i] /\ u[i] \in S
  BY <1>1
<1>4. \A i \in 1 .. Len(t) : u[Len(s) + i] = t[i] /\ u[Len(s) + i] \in T
  BY <1>1
<1> HIDE DEF u
<1>5. ASSUME NEW i \in 1 .. Len(u), ~(i <= Len(s))
      PROVE  i - Len(s) \in 1 .. Len(t) /\ u[i] = t[i - Len(s)] /\ u[i] \in T
  <2>1. i - Len(s) \in 1 .. Len(t) /\ Len(s) + (i - Len(s)) = i
    BY <1>2, <1>5
  <2> QED
    BY <1>4, <2>1
<1>6. ASSUME NEW x \in S \cup T PROVE \E i \in 1 .. Len(u) : u[i] = x
  <2>1. CASE x \in S
    <3>1. PICK i \in 1 .. Len(s) : s[i] = x
      BY <2>1 DEF Enumerates
    <3>2. i \in 1 .. Len(u)
      BY <1>2
    <3> QED
      BY <1>3, <3>1, <3>2
  <2>2. CASE x \in T
    <3>1. PICK i \in 1 .. Len(t) : t[i] = x
      BY <2>2 DEF Enumerates
    <3>2. Len(s) + i \in 1 .. Len(u)
      BY <1>2
    <3> QED
      BY <1>4, <3>1, <3>2
  <2> QED
    BY <2>1, <2>2
<1>7. ASSUME NEW i \in 1 .. Len(u), NEW j \in 1 .. Len(u), u[i] = u[j] PROVE i = j
  <2>1. CASE i <= Len(s) /\ j <= Len(s)
    <3>1. i \in 1 .. Len(s) /\ j \in 1 .. Len(s)
      BY <2>1
    <3> QED
      BY <1>3, <1>7, <3>1 DEF Enumerates
  <2>2. CASE ~(i <= Len(s)) /\ ~(j <= Len(s))
    <3>1. i - Len(s) \in 1 .. Len(t) /\ j - Len(s) \in 1 .. Len(t)
      BY <1>5, <2>2
    <3>2. t[i - Len(s)] = t[j - Len(s)]
      BY <1>5, <1>7, <2>2
    <3>3. i - Len(s) = j - Len(s)
      BY <3>1, <3>2 DEF Enumerates
    <3> QED
      BY <1>2, <3>3
  <2>3. CASE i <= Len(s) /\ ~(j <= Len(s))
    <3>1. i \in 1 .. Len(s)
      BY <2>3
    <3> QED
      BY <1>3, <1>5, <1>7, <2>3, <3>1
  <2>4. CASE ~(i <= Len(s)) /\ j <= Len(s)
    <3>1. j \in 1 .. Len(s)
      BY <2>4
    <3> QED
      BY <1>3, <1>5, <1>7, <2>4, <3>1
  <2> QED
    BY <2>1, <2>2, <2>3, <2>4
<1> QED
  BY <1>2, <1>6, <1>7 DEF Enumerates, u

\* The commands of a snapshot.
Listed(st, now) == SetsOf(st, now) \cup HSetsOf(st) \cup PushesOf(st, "RPUSH")

\* l is written from st at the time now; all are the commands of its records.
Rewritten(l, all, st, now) ==
  /\ l \in Seq(Records) /\ Len(l) = Len(all) /\ Enumerates(all, Listed(st, now))
  /\ \A i \in 1 .. Len(l) : l[i].command = all[i] /\ l[i].cut = "no" /\ l[i].spelling = "upper"

\* There are finitely many.
LEMMA ListedIsFinite ==
  ASSUME NEW st, NEW now
  PROVE  IsFiniteSet(SetsOf(st, now)) /\ IsFiniteSet(HSetsOf(st)) /\ IsFiniteSet(PushesOf(st, "RPUSH"))
<1> DEFINE A == {j \in Keys : Live(st.str[j], now)}
           B == {g \in Keys \X Fields : HGetReply(st, g[1], g[2]) # None}
           C == {j \in Keys : ListOf(st, j) # << >>}
<1>1. IsFiniteSet(A) /\ IsFiniteSet(C)
  <2>1. A \in SUBSET Keys /\ C \in SUBSET Keys
    OBVIOUS
  <2> HIDE DEF A, C
  <2> QED
    BY <2>1, PersistenceAssumption, FS_Subset
<1>2. IsFiniteSet(B)
  <2>1. B \in SUBSET (Keys \X Fields)
    OBVIOUS
  <2>2. IsFiniteSet(Keys \X Fields)
    BY PersistenceAssumption, FS_Product
  <2> HIDE DEF B
  <2> QED
    BY <2>1, <2>2, FS_Subset
<1> HIDE DEF A, B, C
<1>3. IsFiniteSet({SetOf(st, k) : k \in A})
  <2> DEFINE F == [k \in A |-> SetOf(st, k)]
  <2>1. IsFiniteSet({F[k] : k \in A})
    <3>1. F = [k \in A |-> F[k]]
      OBVIOUS
    <3> HIDE DEF F
    <3> QED
      BY <1>1, <3>1, ImageIsFinite
  <2>2. {F[k] : k \in A} = {SetOf(st, k) : k \in A}
    OBVIOUS
  <2> QED
    BY <2>1, <2>2
<1>4. IsFiniteSet({HSetOf(st, h[1], h[2]) : h \in B})
  <2> DEFINE F == [h \in B |-> HSetOf(st, h[1], h[2])]
  <2>1. IsFiniteSet({F[h] : h \in B})
    <3>1. F = [h \in B |-> F[h]]
      OBVIOUS
    <3> HIDE DEF F
    <3> QED
      BY <1>2, <3>1, ImageIsFinite
  <2>2. {F[h] : h \in B} = {HSetOf(st, h[1], h[2]) : h \in B}
    OBVIOUS
  <2> QED
    BY <2>1, <2>2
<1>5. IsFiniteSet({PushOf(st, k, "RPUSH") : k \in C})
  <2> DEFINE F == [k \in C |-> PushOf(st, k, "RPUSH")]
  <2>1. IsFiniteSet({F[k] : k \in C})
    <3>1. F = [k \in C |-> F[k]]
      OBVIOUS
    <3> HIDE DEF F
    <3> QED
      BY <1>1, <3>1, ImageIsFinite
  <2>2. {F[k] : k \in C} = {PushOf(st, k, "RPUSH") : k \in C}
    OBVIOUS
  <2> QED
    BY <2>1, <2>2
<1> QED
  BY <1>3, <1>4, <1>5 DEF SetsOf, HSetsOf, PushesOf, A, B, C

\* A command of a snapshot is one for a string, a field or a list.
LEMMA ListedIs ==
  ASSUME NEW st \in Stores, NEW now, NEW c \in Listed(st, now)
  PROVE  /\ c \in Loggable
         /\ \/ \E k \in Keys : Live(st.str[k], now) /\ c = SetOf(st, k)
            \/ \E k \in Keys, f \in Fields : HGetReply(st, k, f) # None /\ c = HSetOf(st, k, f)
            \/ \E k \in Keys : ListOf(st, k) # << >> /\ c = PushOf(st, k, "RPUSH")
<1>1. CASE c \in SetsOf(st, now)
  <2>1. PICK k \in Keys : Live(st.str[k], now) /\ c = SetOf(st, k)
    BY <1>1 DEF SetsOf
  <2>2. st.str[k] \in Entries
    BY <2>1 DEF Stores, Live
  <2>3. c \in [cmd : {"SET"}, key : Keys, val : Values, ttl : {None}]
    BY <2>1, <2>2 DEF SetOf, Entries
  <2> QED
    BY <2>1, <2>3 DEF Loggable
<1>2. CASE c \in HSetsOf(st)
  <2>1. PICK k \in Keys, f \in Fields : HGetReply(st, k, f) # None /\ c = HSetOf(st, k, f)
    BY <1>2 DEF HSetsOf
  <2>2. HGetReply(st, k, f) \in Values
    BY <2>1 DEF HGetReply, Stores, Hashes
  <2>3. c \in [cmd : {"HSET"}, key : Keys, field : Fields, val : Values]
    BY <2>1, <2>2 DEF HSetOf
  <2> QED
    BY <2>1, <2>3 DEF Loggable
<1>3. CASE c \in PushesOf(st, "RPUSH")
  <2>1. PICK k \in Keys : ListOf(st, k) # << >> /\ c = PushOf(st, k, "RPUSH")
    BY <1>3 DEF PushesOf
  <2>2. st.list[k] \in Lists
    BY <2>1 DEF ListOf, Stores
  <2>3. c \in [cmd : {"RPUSH"}, key : Keys, vals : Lists]
    BY <2>1, <2>2 DEF PushOf
  <2> QED
    BY <2>1, <2>3 DEF Loggable
<1> QED
  BY <1>1, <1>2, <1>3 DEF Listed

\* The records of a snapshot are its commands, each once.
LEMMA SnapshotIsRewritten ==
  ASSUME NEW st \in Stores, NEW now
  PROVE  \E all : Rewritten(SnapshotRecords(st, now), all, st, now)
<1> DEFINE A == SetsOf(st, now)
           B == HSetsOf(st)
           C == PushesOf(st, "RPUSH")
           all == SetToSeq(A) \o SetToSeq(B) \o SetToSeq(C)
           l == SnapshotRecords(st, now)
<1>1. Enumerates(SetToSeq(A), A) /\ Enumerates(SetToSeq(B), B) /\ Enumerates(SetToSeq(C), C)
  BY ListedIsFinite, SetToSeqEnumerates
<1>2. A \cap B = {} /\ (A \cup B) \cap C = {}
  <2>1. /\ \A c \in A : c.cmd = "SET"
        /\ \A c \in B : c.cmd = "HSET"
        /\ \A c \in C : c.cmd = "RPUSH"
    BY DEF SetsOf, HSetsOf, PushesOf, SetOf, HSetOf, PushOf
  <2> HIDE DEF A, B, C
  <2> QED
    BY <2>1
<1>3. l = [i \in DOMAIN all |-> RecordOf(all[i], "upper")]
  BY DEF SnapshotRecords, Snapshot
<1> HIDE DEF A, B, C, l
<1>4. Enumerates(SetToSeq(A) \o SetToSeq(B), A \cup B)
  BY <1>1, <1>2, ConcatEnumerates
<1>5. Enumerates(all, (A \cup B) \cup C)
  BY <1>1, <1>2, <1>4, ConcatEnumerates
<1> HIDE DEF all
<1>6. Enumerates(all, Listed(st, now))
  BY <1>5 DEF Listed, A, B, C
<1>7. all \in Seq(Loggable)
  <2>1. Listed(st, now) \subseteq Loggable
    BY ListedIs
  <2>2. all \in Seq(Listed(st, now))
    BY <1>6 DEF Enumerates
  <2> QED
    BY <2>1, <2>2
<1>8. ASSUME NEW i \in 1 .. Len(all)
      PROVE  /\ RecordOf(all[i], "upper") \in Records
             /\ RecordOf(all[i], "upper").command = all[i]
             /\ RecordOf(all[i], "upper").cut = "no"
             /\ RecordOf(all[i], "upper").spelling = "upper"
  BY <1>7 DEF RecordOf, Records
<1>9. DOMAIN all = 1 .. Len(all) /\ Len(all) \in Nat
  BY <1>7
<1>10. l \in [1 .. Len(all) -> Records]
       /\ \A i \in 1 .. Len(all) : l[i] = RecordOf(all[i], "upper")
  BY <1>3, <1>8, <1>9
<1>11. l \in Seq(Records) /\ Len(l) = Len(all)
  BY <1>9, <1>10
<1>12. Rewritten(l, all, st, now)
  BY <1>6, <1>8, <1>10, <1>11 DEF Rewritten
<1> QED
  BY <1>12 DEF l

\* RPUSH of all the values of a list that is not there.
LEMMA RPushAllIs ==
  ASSUME NEW st \in Stores, NEW k \in Keys, ListOf(st, k) = << >>, NEW vals \in Seq(Values)
  PROVE  LET su == RPushAll(st, k, vals)
         IN  /\ su.str = st.str /\ su.hash = st.hash
             /\ \A j \in Keys : ListOf(su, j) = IF j = k THEN vals ELSE ListOf(st, j)
<1> DEFINE m == Len(vals)
           Is(su, i) == /\ su.str = st.str /\ su.hash = st.hash
                        /\ \A j \in Keys : ListOf(su, j) = IF j = k THEN SubSeq(vals, 1, i)
                                                           ELSE ListOf(st, j)
<1>1. PICK h : /\ Chain(h, st, m) /\ h[m] = RPushAll(st, k, vals)
               /\ \A i \in 1 .. m : h[i] = AfterRPush(h[i - 1], k, vals[i])
  BY RPushChain
<1>2. m \in Nat
  OBVIOUS
<1> DEFINE T == {i \in Nat : i <= m => Is(h[i], i)}
<1>3. 0 \in T
  <2>1. SubSeq(vals, 1, 0) = << >>
    OBVIOUS
  <2>2. h[0] = st
    BY <1>1 DEF Chain
  <2> QED
    BY <2>1, <2>2
<1>4. ASSUME NEW i \in Nat, i \in T PROVE i + 1 \in T
  <2>1. SUFFICES ASSUME i + 1 <= m PROVE Is(h[i + 1], i + 1)
    OBVIOUS
  <2>2. Is(h[i], i) /\ i + 1 \in 1 .. m /\ (i + 1) - 1 = i /\ i \in 0 .. m
    BY <1>2, <1>4, <2>1
  <2> HIDE DEF Is
  <2>3. h[i] \in Stores /\ h[i + 1] = AfterRPush(h[i], k, vals[i + 1])
    BY <1>1, <2>2 DEF Chain
  <2> DEFINE l == Append(ListOf(h[i], k), vals[i + 1])
  <2>4. h[i + 1] = [h[i] EXCEPT !.list[k] = l]
    BY <2>3 DEF AfterRPush
  <2>5. l = SubSeq(vals, 1, i + 1)
    <3>1. ListOf(h[i], k) = SubSeq(vals, 1, i)
      BY <2>2 DEF Is
    <3>2. Append(SubSeq(vals, 1, i), vals[i + 1]) = SubSeq(vals, 1, i + 1)
      BY <2>2
    <3> QED
      BY <3>1, <3>2
  <2>6. l # None
    <3>1. SubSeq(vals, 1, i + 1) \in Lists
      BY <2>2 DEF Lists
    <3> QED
      BY <2>5, <3>1, NoneAssumption
  <2> HIDE DEF l
  <2>7. h[i + 1].str = h[i].str /\ h[i + 1].hash = h[i].hash
        /\ \A j \in Keys : h[i + 1].list[j] = IF j = k THEN l ELSE h[i].list[j]
    BY <2>3, <2>4 DEF Stores
  <2>8. \A j \in Keys : ListOf(h[i + 1], j) = IF j = k THEN l ELSE ListOf(h[i], j)
    BY <2>6, <2>7 DEF ListOf
  <2> QED
    BY <2>2, <2>5, <2>7, <2>8 DEF Is
<1> HIDE DEF T
<1>5. m \in T
  BY <1>2, <1>3, <1>4, SetInduction
<1>6. Is(h[m], m) /\ SubSeq(vals, 1, m) = vals
  BY <1>2, <1>5 DEF T
<1> QED
  BY <1>1, <1>6

\* The command c is among the first i of a snapshot.
Done(c, all, i) == \E j \in 1 .. i : all[j] = c

\* The string of a snapshot, replayed at the time n.
Restored(e, n) == [value |-> e.value, expires_at |-> None, last_accessed |-> n]

\* back has what the first i commands of the snapshot of st make at the time n.
Partly(back, st, all, i, n) ==
  /\ \A k \in Keys : back.str[k] = IF Done(SetOf(st, k), all, i)
                                   THEN Restored(st.str[k], n) ELSE None
  /\ \A k \in Keys, f \in Fields :
       HGetReply(back, k, f) = IF Done(HSetOf(st, k, f), all, i)
                               THEN HGetReply(st, k, f) ELSE None
  /\ \A k \in Keys : ListOf(back, k) = IF Done(PushOf(st, k, "RPUSH"), all, i)
                                       THEN ListOf(st, k) ELSE << >>

\* One more command.
LEMMA DoneStep ==
  ASSUME NEW c, NEW all, NEW i \in Nat
  PROVE  Done(c, all, i + 1) <=> Done(c, all, i) \/ all[i + 1] = c
<1>1. 1 .. i + 1 = (1 .. i) \cup {i + 1}
  OBVIOUS
<1> QED
  BY <1>1 DEF Done

\* The commands of a snapshot differ.
LEMMA CommandsDiffer ==
  ASSUME NEW st, NEW k, NEW f, NEW j, NEW g
  PROVE  /\ SetOf(st, k) = SetOf(st, j) => k = j
         /\ HSetOf(st, k, f) = HSetOf(st, j, g) => k = j /\ f = g
         /\ PushOf(st, k, "RPUSH") = PushOf(st, j, "RPUSH") => k = j
         /\ SetOf(st, k) # HSetOf(st, j, g)
         /\ SetOf(st, k) # PushOf(st, j, "RPUSH")
         /\ HSetOf(st, k, f) # PushOf(st, j, "RPUSH")
<1>1. /\ SetOf(st, k).cmd = "SET" /\ HSetOf(st, k, f).cmd = "HSET"
      /\ PushOf(st, k, "RPUSH").cmd = "RPUSH"
      /\ HSetOf(st, j, g).cmd = "HSET" /\ PushOf(st, j, "RPUSH").cmd = "RPUSH"
  BY DEF SetOf, HSetOf, PushOf
<1>2. SetOf(st, k).key = k /\ SetOf(st, j).key = j
  BY DEF SetOf
<1>3. /\ HSetOf(st, k, f).key = k /\ HSetOf(st, j, g).key = j
      /\ HSetOf(st, k, f).field = f /\ HSetOf(st, j, g).field = g
  BY DEF HSetOf
<1>4. PushOf(st, k, "RPUSH").key = k /\ PushOf(st, j, "RPUSH").key = j
  BY DEF PushOf
<1> QED
  BY <1>1, <1>2, <1>3, <1>4

\* The replay of one more record of a snapshot.
LEMMA PartlyStep ==
  ASSUME NEW st \in Stores, NEW now, NEW all, Enumerates(all, Listed(st, now)),
         NEW i \in Nat, i + 1 <= Len(all), NEW n \in Nat,
         NEW back \in Stores, Partly(back, st, all, i, n),
         NEW r, r.command = all[i + 1], r.spelling = "upper"
  PROVE  Partly(Replay(back, r, n), st, all, i + 1, n)
<1> DEFINE c == r.command
           su == Replay(back, r, n)
<1>1. all[i + 1] \in Listed(st, now) /\ i + 1 \in 1 .. Len(all) /\ Len(all) \in Nat
  <2>1. all \in Seq(Listed(st, now))
    BY DEF Enumerates
  <2> QED
    BY <2>1
<1>2. \A d : Done(d, all, i + 1) <=> Done(d, all, i) \/ c = d
  BY DoneStep
<1>3. ~Done(c, all, i)
  <2>1. \A j \in 1 .. i : j \in 1 .. Len(all) /\ j # i + 1
    BY <1>1
  <2> QED
    BY <1>1, <2>1 DEF Done, Enumerates
<1>4. CASE \E k \in Keys : Live(st.str[k], now) /\ c = SetOf(st, k)
  <2>1. PICK k \in Keys : Live(st.str[k], now) /\ c = SetOf(st, k)
    BY <1>4
  <2>2. c.cmd = "SET" /\ c.key = k /\ c.val = st.str[k].value
    BY <2>1 DEF SetOf
  <2>3. su = AfterSet(back, k, st.str[k].value, None, n)
    BY <2>2 DEF Replay, Replayed
  <2>4. su = [back EXCEPT !.str[k] = Restored(st.str[k], n)]
    BY <2>3 DEF AfterSet, Restored
  <2>5. /\ su.hash = back.hash /\ su.list = back.list
        /\ \A j \in Keys : su.str[j] = IF j = k THEN Restored(st.str[k], n) ELSE back.str[j]
    BY <2>4 DEF Stores
  <2> HIDE DEF c, su
  <2>6. \A j \in Keys, f \in Fields :
          Done(HSetOf(st, j, f), all, i + 1) <=> Done(HSetOf(st, j, f), all, i)
    BY <1>2, <2>1, CommandsDiffer
  <2>7. \A j \in Keys :
          Done(PushOf(st, j, "RPUSH"), all, i + 1) <=> Done(PushOf(st, j, "RPUSH"), all, i)
    BY <1>2, <2>1, CommandsDiffer
  <2>8. \A j \in Keys : ListOf(su, j) = ListOf(back, j)
                        /\ \A f \in Fields : HGetReply(su, j, f) = HGetReply(back, j, f)
    BY <2>5 DEF ListOf, HGetReply
  <2>9. \A j \in Keys : su.str[j] = IF Done(SetOf(st, j), all, i + 1)
                                    THEN Restored(st.str[j], n) ELSE None
    <3> TAKE j \in Keys
    <3>1. Done(SetOf(st, j), all, i + 1) <=> Done(SetOf(st, j), all, i) \/ j = k
      <4>1. Done(SetOf(st, j), all, i + 1) <=> Done(SetOf(st, j), all, i) \/ c = SetOf(st, j)
        BY <1>2
      <4> QED
        BY <2>1, <4>1, CommandsDiffer
    <3> QED
      BY <2>5, <3>1 DEF Partly
  <2> QED
    BY <2>6, <2>7, <2>8, <2>9 DEF Partly, c, su
<1>5. CASE \E k \in Keys, f \in Fields : HGetReply(st, k, f) # None /\ c = HSetOf(st, k, f)
  <2>1. PICK k \in Keys, f \in Fields : HGetReply(st, k, f) # None /\ c = HSetOf(st, k, f)
    BY <1>5
  <2> DEFINE v == HGetReply(st, k, f)
  <2>2. c.cmd = "HSET" /\ c.key = k /\ c.field = f /\ c.val = v
    BY <2>1 DEF HSetOf
  <2>3. su = AfterHSet(back, k, f, v)
    <3>1. su = AfterCommand(back, c, n)
      BY <2>2 DEF Replay, Replayed
    <3> QED
      BY <2>2, <3>1 DEF AfterCommand
  <2> DEFINE h == [IF back.hash[k] = None THEN NoFields ELSE back.hash[k] EXCEPT ![f] = v]
  <2>4. su = [back EXCEPT !.hash[k] = h]
    BY <2>3 DEF AfterHSet
  <2>5. h \in Hashes
    <3>1. v \in Values
      BY <2>1 DEF HGetReply, Stores, Hashes
    <3>2. (IF back.hash[k] = None THEN NoFields ELSE back.hash[k]) \in Hashes
      BY DEF Stores, Hashes, NoFields
    <3> QED
      BY <3>1, <3>2 DEF Hashes
  <2>6. \A g \in Fields : h[g] = IF g = f THEN v ELSE HGetReply(back, k, g)
    BY DEF HGetReply, Stores, Hashes, NoFields
  <2> HIDE DEF h
  <2>7. /\ su.str = back.str /\ su.list = back.list
        /\ \A j \in Keys : su.hash[j] = IF j = k THEN h ELSE back.hash[j]
    BY <2>4 DEF Stores
  <2> HIDE DEF c, su
  <2>8. h # None
    BY <2>5, NoneAssumption
  <2>9. \A j \in Keys, g \in Fields :
          HGetReply(su, j, g) = IF j = k /\ g = f THEN v ELSE HGetReply(back, j, g)
    BY <2>6, <2>7, <2>8 DEF HGetReply
  <2>10. \A j \in Keys :
          /\ Done(SetOf(st, j), all, i + 1) <=> Done(SetOf(st, j), all, i)
          /\ Done(PushOf(st, j, "RPUSH"), all, i + 1) <=> Done(PushOf(st, j, "RPUSH"), all, i)
    BY <1>2, <2>1, CommandsDiffer
  <2>11. \A j \in Keys, g \in Fields :
          Done(HSetOf(st, j, g), all, i + 1) <=> Done(HSetOf(st, j, g), all, i) \/ (j = k /\ g = f)
    BY <1>2, <2>1, CommandsDiffer
  <2>12. \A j \in Keys : ListOf(su, j) = ListOf(back, j) /\ su.str[j] = back.str[j]
    BY <2>7 DEF ListOf
  <2> QED
    BY <2>9, <2>10, <2>11, <2>12 DEF Partly, c, su
<1>6. CASE \E k \in Keys : ListOf(st, k) # << >> /\ c = PushOf(st, k, "RPUSH")
  <2>1. PICK k \in Keys : ListOf(st, k) # << >> /\ c = PushOf(st, k, "RPUSH")
    BY <1>6
  <2>2. c.cmd = "RPUSH" /\ c.key = k /\ c.vals = ListOf(st, k)
    BY <2>1 DEF PushOf, ListOf
  <2>3. su = RPushAll(back, k, ListOf(st, k))
    <3>1. su = AfterCommand(back, c, n)
      BY <2>2 DEF Replay, Replayed
    <3> QED
      BY <2>2, <3>1 DEF AfterCommand
  <2>4. ListOf(back, k) = << >>
    BY <1>3, <2>1 DEF Partly
  <2>5. ListOf(st, k) \in Seq(Values)
    BY <2>1 DEF ListOf, Stores, Lists
  <2>6. /\ su.str = back.str /\ su.hash = back.hash
        /\ \A j \in Keys : ListOf(su, j) = IF j = k THEN ListOf(st, k) ELSE ListOf(back, j)
    BY <2>3, <2>4, <2>5, RPushAllIs
  <2> HIDE DEF c, su
  <2>7. \A j \in Keys :
          /\ Done(SetOf(st, j), all, i + 1) <=> Done(SetOf(st, j), all, i)
          /\ \A f \in Fields : Done(HSetOf(st, j, f), all, i + 1) <=> Done(HSetOf(st, j, f), all, i)
    BY <1>2, <2>1, CommandsDiffer
  <2>8. \A j \in Keys : Done(PushOf(st, j, "RPUSH"), all, i + 1)
                          <=> Done(PushOf(st, j, "RPUSH"), all, i) \/ j = k
    BY <1>2, <2>1, CommandsDiffer
  <2>9. \A j \in Keys : su.str[j] = back.str[j]
                        /\ \A f \in Fields : HGetReply(su, j, f) = HGetReply(back, j, f)
    BY <2>6 DEF HGetReply
  <2> QED
    BY <2>6, <2>7, <2>8, <2>9 DEF Partly, c, su
<1> QED
  BY <1>1, <1>4, <1>5, <1>6, ListedIs

\* What a whole snapshot gives back at the time n: the hashes and lists of the
\* store, and the strings that were live, without a deadline.
LEMMA SnapshotGivesBack ==
  ASSUME NEW st, Sound(st), NEW now, NEW n \in Nat
  PROVE  LET back == Recovered(SnapshotRecords(st, now), n)
         IN  /\ back.hash = st.hash /\ back.list = st.list
             /\ \A k \in Keys : back.str[k] = IF Live(st.str[k], now)
                                              THEN Restored(st.str[k], n) ELSE None
<1> DEFINE l == SnapshotRecords(st, now)
           back == Recovered(l, n)
<1>1. st \in Stores /\ NoEmpties(st)
  BY DEF Sound
<1>2. PICK all : Rewritten(l, all, st, now)
  BY <1>1, SnapshotIsRewritten
<1>3. l \in Seq(Records)
  BY <1>2 DEF Rewritten
<1> HIDE DEF l
<1>4. PICK h : Replaying(h, l, n)
  BY <1>3, RecoveredChain
<1>5. ASSUME NEW i \in 1 .. Len(l) PROVE Found(l, i) = l[i]
  <2>1. l[i].cut = "no" /\ (i > 1 => l[i - 1].cut = "no")
    BY <1>2, <1>3 DEF Rewritten
  <2> QED
    BY <2>1 DEF Found
<1> DEFINE m == Len(l)
           T == {i \in Nat : i <= m => Partly(h[i], st, all, i, n)}
<1>6. m \in Nat /\ m = Len(all) /\ Enumerates(all, Listed(st, now))
  BY <1>2, <1>3 DEF Rewritten
<1>7. 0 \in T
  <2>1. h[0] = EmptyStore /\ \A c : ~Done(c, all, 0)
    BY <1>4 DEF Replaying, Done
  <2>2. Partly(EmptyStore, st, all, 0, n)
    BY <2>1 DEF Partly, EmptyStore, HGetReply, ListOf
  <2> QED
    BY <2>1, <2>2
<1>8. ASSUME NEW i \in Nat, i \in T PROVE i + 1 \in T
  <2>1. SUFFICES ASSUME i + 1 <= m PROVE Partly(h[i + 1], st, all, i + 1, n)
    OBVIOUS
  <2>2. Partly(h[i], st, all, i, n) /\ i + 1 \in 1 .. m /\ (i + 1) - 1 = i /\ i \in 0 .. m
    BY <1>6, <1>8, <2>1
  <2>3. h[i] \in Stores /\ h[i + 1] = Replay(h[i], l[i + 1], n)
    BY <1>4, <1>5, <2>2 DEF Replaying, SoundStores
  <2>4. l[i + 1].command = all[i + 1] /\ l[i + 1].spelling = "upper"
    BY <1>2, <2>2 DEF Rewritten
  <2>5. i + 1 <= Len(all)
    BY <1>6, <2>1
  <2> QED
    BY <1>1, <1>6, <2>2, <2>3, <2>4, <2>5, PartlyStep
<1> HIDE DEF T
<1>9. m \in T
  BY <1>6, <1>7, <1>8, SetInduction
<1>10. Partly(back, st, all, m, n)
  BY <1>4, <1>6, <1>9 DEF T, Replaying
<1>11. \A c : Done(c, all, m) <=> c \in Listed(st, now)
  <2>1. all \in Seq(Listed(st, now))
    BY <1>6 DEF Enumerates
  <2> QED
    BY <1>6, <2>1 DEF Done, Enumerates
<1>12. back \in Stores /\ NoEmpties(back)
  BY <1>3, RecoveredIsSound DEF Sound
<1> HIDE DEF back, m
<1>13. ASSUME NEW k \in Keys
       PROVE  back.str[k] = IF Live(st.str[k], now) THEN Restored(st.str[k], n) ELSE None
  <2>1. SetOf(st, k) \in Listed(st, now) <=> Live(st.str[k], now)
    <3>1. Live(st.str[k], now) => SetOf(st, k) \in Listed(st, now)
      BY DEF Listed, SetsOf
    <3>2. ASSUME SetOf(st, k) \in Listed(st, now) PROVE Live(st.str[k], now)
      <4>1. \/ \E j \in Keys : Live(st.str[j], now) /\ SetOf(st, k) = SetOf(st, j)
            \/ \E j \in Keys, f \in Fields : SetOf(st, k) = HSetOf(st, j, f)
            \/ \E j \in Keys : SetOf(st, k) = PushOf(st, j, "RPUSH")
        BY <1>1, <3>2, ListedIs
      <4> QED
        BY <4>1, CommandsDiffer
    <3> QED
      BY <3>1, <3>2
  <2> QED
    BY <1>10, <1>11, <2>1 DEF Partly
<1>14. ASSUME NEW k \in Keys, NEW f \in Fields PROVE HGetReply(back, k, f) = HGetReply(st, k, f)
  <2>1. HGetReply(st, k, f) # None => HSetOf(st, k, f) \in Listed(st, now)
    <3>1. ASSUME HGetReply(st, k, f) # None PROVE HSetOf(st, k, f) \in HSetsOf(st)
      <4>1. <<k, f>> \in {g \in Keys \X Fields : HGetReply(st, g[1], g[2]) # None}
        BY <3>1
      <4>2. HSetOf(st, k, f) = HSetOf(st, <<k, f>>[1], <<k, f>>[2])
        OBVIOUS
      <4> QED
        BY <4>1, <4>2 DEF HSetsOf
    <3> QED
      BY <3>1 DEF Listed
  <2> QED
    BY <1>10, <1>11, <2>1 DEF Partly
<1>15. ASSUME NEW k \in Keys PROVE ListOf(back, k) = ListOf(st, k)
  <2>1. ListOf(st, k) # << >> => PushOf(st, k, "RPUSH") \in Listed(st, now)
    BY DEF Listed, PushesOf
  <2> QED
    BY <1>10, <1>11, <2>1 DEF Partly
<1>16. ASSUME NEW k \in Keys PROVE back.hash[k] = st.hash[k]
  <2>1. /\ back.hash[k] \in Hashes \cup {None} /\ back.hash[k] # NoFields
        /\ st.hash[k] \in Hashes \cup {None} /\ st.hash[k] # NoFields
    BY <1>1, <1>12 DEF Stores, NoEmpties
  <2>2. \A g \in Hashes : (\A f \in Fields : g[f] = None) => g = NoFields
    BY DEF Hashes, NoFields
  <2>3. \A g, e \in Hashes : (\A f \in Fields : g[f] = e[f]) => g = e
    BY DEF Hashes
  <2> QED
    BY <1>14, <2>1, <2>2, <2>3, NoneAssumption DEF HGetReply
<1>17. ASSUME NEW k \in Keys PROVE back.list[k] = st.list[k]
  <2>1. back.list[k] # << >> /\ st.list[k] # << >>
    BY <1>1, <1>12 DEF NoEmpties
  <2> QED
    BY <1>15, <2>1 DEF ListOf
<1>18. back.hash = st.hash /\ back.list = st.list
  BY <1>1, <1>12, <1>16, <1>17 DEF Stores
<1> QED
  BY <1>13, <1>18 DEF back, l

-----------------------------------------------------------------------------
(* Types                                                                   *)

\* The file rewrite has written.
Files == [records : Seq(Records), whole : BOOLEAN]

\* The variables have their types; a record waits in an append, a new file in
\* a rewrite, and the process opens its file before it writes.
TypeInv ==
  /\ Sound(store)
  /\ clock \in 0 .. ClockBound
  /\ pc \in {"down", "idle", "append", "rename", "retry"}
  /\ IF pc = "append" THEN pending \in Records /\ pending.cut = "no" ELSE pending = None
  /\ log \in Seq(Records)
  /\ IF pc \in {"rename", "retry"} THEN tmp \in Files ELSE tmp = None
  /\ gap \in BOOLEAN /\ failbit \in BOOLEAN /\ (failbit => gap)
  /\ pc = "down" => ~failbit

\* The clock is a natural number.
LEMMA ClockIsNat == \A n \in 0 .. ClockBound : n \in Nat
BY PersistenceAssumption

\* The record of a command may stand in the log.
LEMMA RecordOfType ==
  ASSUME NEW c \in Writes, NEW s \in Spellings, NEW name \in NamesLogged(c, s)
  PROVE  /\ RecordOf(c, name) \in Records /\ RecordOf(c, name).cut = "no"
         /\ RecordOf(c, name).command = c
<1>1. c \in Loggable /\ name \in {"upper", "lower"}
  BY PersistenceAssumption DEF Writes, Loggable, NamesLogged
<1> QED
  BY <1>1 DEF RecordOf, Records

\* So may one that was cut short.
LEMMA CutRecordsType ==
  ASSUME NEW r \in Records
  PROVE  CutRecords(r) \subseteq Records
<1> SUFFICES ASSUME NEW s \in CutRecords(r) PROVE s \in Records
  OBVIOUS
<1>1. CASE s \in {[r EXCEPT !.cut = c] : c \in Cuts \ {"digits"}}
  BY <1>1 DEF Records
<1>2. CASE s \notin {[r EXCEPT !.cut = c] : c \in Cuts \ {"digits"}}
  <2>1. r.command.cmd = "EXPIRE"
    BY <1>2 DEF CutRecords
  <2>2. PICK m \in Leading(r.command.ttl) :
          s = [r EXCEPT !.cut = "digits", !.command.ttl = m]
    BY <1>2, <2>1 DEF CutRecords
  <2>3. r.command \in Loggable
    BY DEF Records
  <2>4. r.command \in [cmd : {"EXPIRE"}, key : Keys, ttl : Seconds]
    <3>1. TTLs \subseteq Seconds
      BY PersistenceAssumption DEF Seconds
    <3> QED
      BY <2>1, <2>3, <3>1 DEF Loggable, AllWrites
  <2>5. m \in Seconds
    <3> DEFINE n == r.command.ttl
    <3>1. n \in Int /\ (n > 0 => \E ttl \in TTLs : n <= ttl)
      BY <2>4 DEF Seconds
    <3>2. ASSUME NEW p \in Int PROVE LeadingDigits(p) \subseteq 1 .. p
      BY DEF LeadingDigits
    <3>3. -n \in Int /\ LeadingDigits(n) \subseteq 1 .. n /\ LeadingDigits(-n) \subseteq 1 .. -n
      BY <3>1, <3>2
    <3>4. m \in 1 .. n \/ \E p \in 1 .. -n : m = -p
      BY <2>2, <3>3 DEF Leading
    <3> HIDE DEF n
    <3> QED
      BY <3>1, <3>4, PersistenceAssumption DEF Seconds
  <2>6. [r.command EXCEPT !.ttl = m] \in Loggable
    BY <2>4, <2>5 DEF Loggable
  <2>7. s = [r EXCEPT !.cut = "digits", !.command = [r.command EXCEPT !.ttl = m]]
    BY <2>2
  <2> QED
    BY <2>6, <2>7 DEF Records, Cuts
<1> QED
  BY <1>1, <1>2

\* A command keeps the types.
LEMMA ExecuteKeepsTypes ==
  ASSUME TypeInv, NEW c \in Writes, NEW s \in Spellings, Execute(c, s)
  PROVE  TypeInv'
<1>1. Sound(store')
  <2>1. WellFormed(c) /\ clock \in Nat
    BY WritesAreWellFormed, ClockIsNat DEF Writes, TypeInv
  <2> QED
    BY <2>1, CommandKeepsSound DEF Execute, TypeInv
<1>2. pc = "idle" /\ UNCHANGED <<clock, log, tmp, failbit, gap>> /\ tmp = None /\ pending = None
  BY DEF Execute, TypeInv
<1>3. CASE Logged(store, c, clock)
  <2>1. pc' = "append" /\ \E name \in NamesLogged(c, s) : pending' = RecordOf(c, name)
    BY <1>3 DEF Execute
  <2>2. pending' \in Records /\ pending'.cut = "no"
    BY <2>1, RecordOfType
  <2> QED
    BY <1>1, <1>2, <2>1, <2>2 DEF TypeInv
<1>4. CASE ~Logged(store, c, clock)
  <2>1. UNCHANGED <<pc, pending>>
    BY <1>4 DEF Execute
  <2> QED
    BY <1>1, <1>2, <2>1 DEF TypeInv
<1> QED
  BY <1>3, <1>4

\* An append keeps the types, whether it writes the record or not.
LEMMA AppendKeepsTypes ==
  ASSUME TypeInv, AppendRecord \/ AppendFails
  PROVE  TypeInv'
<1>1. /\ pc = "append" /\ pc' = "idle" /\ pending' = None /\ tmp = None
      /\ UNCHANGED <<store, clock, tmp>>
  BY DEF AppendRecord, AppendFails, Appended, TypeInv
<1>2. pending \in Records /\ CutRecords(pending) \subseteq Records
  BY <1>1, CutRecordsType DEF TypeInv
<1>3. CASE AppendRecord
  <2>1. log' \in Seq(Records) /\ UNCHANGED <<failbit, gap>>
    BY <1>2, <1>3 DEF AppendRecord, TypeInv
  <2> QED
    BY <1>1, <2>1 DEF TypeInv
<1>4. CASE AppendFails
  <2>1. log' \in Seq(Records) /\ failbit' = TRUE /\ gap' = TRUE
    BY <1>2, <1>4 DEF AppendFails, TypeInv
  <2> QED
    BY <1>1, <2>1 DEF TypeInv
<1> QED
  BY <1>3, <1>4

\* What is written of a snapshot when the disk fills up: its first records,
\* the last of them cut or not.
LEMMA PartOfSnapshot ==
  ASSUME NEW l \in Seq(Records), NEW n \in 1 .. Len(l), NEW short \in CutRecords(l[n]) \cup {None}
  PROVE  SubSeq(l, 1, n - 1) \o (IF short = None THEN << >> ELSE <<short>>) \in Seq(Records)
<1>1. SubSeq(l, 1, n - 1) \in Seq(Records)
  OBVIOUS
<1>2. short # None => short \in Records
  BY CutRecordsType
<1>3. (IF short = None THEN << >> ELSE <<short>>) \in Seq(Records)
  BY <1>2
<1> QED
  BY <1>1, <1>3

\* Writing the new file keeps the types.
LEMMA WriteTmpKeepsTypes ==
  ASSUME TypeInv, WriteTmp
  PROVE  TypeInv'
<1> DEFINE all == SnapshotRecords(store, clock)
<1>1. all \in Seq(Records)
  BY SnapshotIsRewritten DEF TypeInv, Sound, Rewritten
<1>2. /\ pc = "idle" /\ pc' = "rename" /\ UNCHANGED <<store, clock, pending, log, failbit, gap>>
  BY DEF WriteTmp
<1>3. tmp' \in Files
  <2>1. CASE tmp' = [records |-> all, whole |-> TRUE]
    BY <1>1, <2>1 DEF Files
  <2>2. CASE \E n \in 1 .. Len(all) : \E short \in CutRecords(all[n]) \cup {None} :
               tmp' = [records |-> SubSeq(all, 1, n - 1) \o
                                     IF short = None THEN << >> ELSE <<short>>,
                       whole |-> FALSE]
    <3> HIDE DEF all
    <3>1. PICK n \in 1 .. Len(all) : \E short \in CutRecords(all[n]) \cup {None} :
                tmp' = [records |-> SubSeq(all, 1, n - 1) \o
                                      IF short = None THEN << >> ELSE <<short>>,
                        whole |-> FALSE]
      BY <2>2
    <3>2. PICK short \in CutRecords(all[n]) \cup {None} :
                tmp' = [records |-> SubSeq(all, 1, n - 1) \o
                                      IF short = None THEN << >> ELSE <<short>>,
                        whole |-> FALSE]
      BY <3>1
    <3>3. SubSeq(all, 1, n - 1) \o (IF short = None THEN << >> ELSE <<short>>) \in Seq(Records)
      BY <1>1, PartOfSnapshot
    <3> QED
      BY <3>2, <3>3 DEF Files
  <2> QED
    BY <2>1, <2>2 DEF WriteTmp
<1> HIDE DEF all
<1> QED
  BY <1>2, <1>3 DEF TypeInv

\* So does putting it in the place of the log, or failing to.
LEMMA RenameKeepsTypes ==
  ASSUME TypeInv, Rename \/ RenameFails
  PROVE  TypeInv'
<1>1. /\ pc \in {"rename", "retry"} /\ tmp \in Files /\ pending = None
      /\ UNCHANGED <<store, clock, pending>>
  BY DEF Rename, RenameFails, TypeInv
<1>2. CASE Rename
  <2>1. log' = tmp.records /\ gap' = ~tmp.whole /\ tmp' = None /\ failbit' = FALSE /\ pc' = "idle"
    BY <1>2 DEF Rename
  <2>2. log' \in Seq(Records) /\ gap' \in BOOLEAN
    BY <1>1, <2>1 DEF Files
  <2> QED
    BY <1>1, <2>1, <2>2 DEF TypeInv
<1>3. CASE RenameFails
  <2>1. UNCHANGED gap
        /\ \/ log' = << >> /\ pc' = "retry" /\ UNCHANGED <<tmp, failbit>>
           \/ UNCHANGED log /\ pc' = "idle" /\ tmp' = None /\ failbit' = FALSE
    BY <1>3 DEF RenameFails
  <2>2. CASE log' = << >> /\ pc' = "retry" /\ UNCHANGED <<tmp, failbit>>
    <3>1. log' \in Seq(Records)
      BY <2>2
    <3> QED
      BY <1>1, <2>1, <2>2, <3>1 DEF TypeInv
  <2>3. CASE UNCHANGED log /\ pc' = "idle" /\ tmp' = None /\ failbit' = FALSE
    BY <1>1, <2>1, <2>3 DEF TypeInv
  <2> QED
    BY <2>1, <2>2, <2>3
<1> QED
  BY <1>2, <1>3

\* So do the janitor, the clock, and the end and the start of the process.
LEMMA OthersKeepTypes ==
  ASSUME TypeInv, (\E k \in Keys : Forget(k)) \/ Tick \/ Crash \/ Start
  PROVE  TypeInv'
<1>1. ASSUME NEW k \in Keys, Forget(k) PROVE TypeInv'
  <2>1. Sound(store') /\ UNCHANGED <<clock, pc, pending, log, tmp, failbit, gap>>
    BY <1>1, MethodsKeepSound, ClockIsNat DEF Forget, TypeInv
  <2> QED
    BY <2>1 DEF TypeInv
<1>2. CASE Tick
  <2>1. clock' \in 0 .. ClockBound /\ UNCHANGED <<store, pc, pending, log, tmp, failbit, gap>>
    BY <1>2, PersistenceAssumption DEF Tick, TypeInv
  <2> QED
    BY <2>1 DEF TypeInv
<1>3. CASE Crash
  <2>1. /\ store' = EmptyStore /\ pc' = "down" /\ pending' = None /\ tmp' = None
        /\ failbit' = FALSE /\ UNCHANGED <<clock, gap>>
    BY <1>3 DEF Crash
  <2>2. log' \in Seq(Records)
    <3>1. CASE UNCHANGED log
      BY <3>1 DEF TypeInv
    <3>2. CASE pc = "append" /\ log' \in {Append(log, r) : r \in CutRecords(pending)}
      BY <3>2, CutRecordsType DEF TypeInv
    <3> QED
      BY <1>3, <3>1, <3>2 DEF Crash
  <2> QED
    BY <2>1, <2>2, EmptyIsSound DEF TypeInv
<1>4. CASE Start
  <2>1. Sound(store')
    BY <1>4, RecoveredIsSound, ClockIsNat DEF Start, TypeInv
  <2>2. /\ pc = "down" /\ pc' = "idle" /\ gap' = FALSE
        /\ UNCHANGED <<clock, pending, log, tmp, failbit>>
    BY <1>4 DEF Start
  <2> QED
    BY <2>1, <2>2 DEF TypeInv
<1> QED
  BY <1>1, <1>2, <1>3, <1>4

\* Each step does, and a stutter.
LEMMA NextKeepsTypes == TypeInv /\ [Next]_vars => TypeInv'
<1> SUFFICES ASSUME TypeInv, [Next]_vars PROVE TypeInv'
  OBVIOUS
<1>1. CASE \E c \in Writes, s \in Spellings : Execute(c, s)
  BY <1>1, ExecuteKeepsTypes
<1>2. CASE AppendRecord \/ AppendFails
  BY <1>2, AppendKeepsTypes
<1>3. CASE WriteTmp
  BY <1>3, WriteTmpKeepsTypes
<1>4. CASE Rename \/ RenameFails
  BY <1>4, RenameKeepsTypes
<1>5. CASE (\E k \in Keys : Forget(k)) \/ Tick \/ Crash \/ Start
  BY <1>5, OthersKeepTypes
<1>6. CASE UNCHANGED vars
  BY <1>6 DEF vars, TypeInv
<1> QED
  BY <1>1, <1>2, <1>3, <1>4, <1>5, <1>6 DEF Next

\* The log starts empty, and the process down.
LEMMA InitHasTypes == Init => TypeInv
<1> SUFFICES ASSUME Init PROVE TypeInv
  OBVIOUS
<1>1. << >> \in Seq(Records) /\ 0 \in 0 .. ClockBound
  BY PersistenceAssumption
<1> QED
  BY <1>1, EmptyIsSound DEF Init, TypeInv

\* TypeInv says more than TypeOK.
LEMMA TypesAreOK == TypeInv => TypeOK
<1> SUFFICES ASSUME TypeInv PROVE TypeOK
  OBVIOUS
<1>1. tmp # None => tmp.whole \in BOOLEAN /\ tmp.records \in Seq(Records)
  BY DEF TypeInv, Files
<1>2. \A l \in Seq(Records) : \A i \in DOMAIN l : l[i] \in Records
  OBVIOUS
<1> QED
  BY <1>1, <1>2 DEF TypeInv, TypeOK, Sound

\* The invariant holds in every reachable state.
LEMMA Typed == Spec => []TypeInv
BY InitHasTypes, NextKeepsTypes, PTL DEF Spec

\* AofManager: whatever commands clients send and however writes fail, a
\* record waits to be written exactly while append runs, the file holds only
\* commands clients sent and those of a snapshot, and a stream that has
\* failed means that something is missing in the file.
THEOREM TypeCorrect == Spec => []TypeOK
BY Typed, TypesAreOK, PTL

-----------------------------------------------------------------------------
(* A crash in the middle of an append                                      *)

\* The command of a record and its spelling are all that the replay looks at.
LEMMA ReplayLooksAt ==
  ASSUME NEW st, NEW now, NEW r, NEW q, r.command = q.command, r.spelling = q.spelling
  PROVE  Replay(st, r, now) = Replay(st, q, now)
BY DEF Replay

\* A record that is skipped changes nothing.
LEMMA SkippedChangesNothing ==
  ASSUME NEW st, NEW now, NEW r \in Records
  PROVE  Replay(st, Skipped(r), now) = st
<1>1. Skipped(r).command = Wrong("skipped")
  BY DEF Skipped, Records
<1> QED
  BY <1>1 DEF Replay, Replayed, Wrong

\* The reader finds the record behind the others as it was written, when it
\* is whole and none behind it is cut.
LEMMA LastFound ==
  ASSUME NEW l \in Seq(Records), NEW r \in Records
  PROVE  LET k == Append(l, r)
             i == Len(l) + 1
             behind == i > 1 /\ l[Len(l)].cut # "no"
         IN  /\ behind \/ r.cut = "early" => Found(k, i) = Skipped(r)
             /\ ~behind /\ r.cut \in {"no", "digits", "tail"} => Found(k, i) = r
<1> DEFINE k == Append(l, r)
           i == Len(l) + 1
           behind == i > 1 /\ l[Len(l)].cut # "no"
<1>1. k[i] = r /\ (i > 1 => k[i - 1] = l[Len(l)])
  OBVIOUS
<1>2. behind <=> i > 1 /\ k[i - 1].cut # "no"
  BY <1>1
<1> HIDE DEF k, i, behind
<1>3. behind \/ r.cut = "early" => Found(k, i) = Skipped(r)
  BY <1>1, <1>2 DEF Found
<1>4. ~behind /\ r.cut \in {"no", "digits", "tail"} => Found(k, i) = r
  BY <1>1, <1>2 DEF Found
<1> QED
  BY <1>3, <1>4 DEF k, i, behind

\* A crash that leaves the bytes of a record, but not in its last token.
LEMMA CutRecordIsSkippedOrKept ==
  ASSUME NEW l \in Seq(Records), NEW p \in Records, p.cut = "no", NEW now \in Nat,
         NEW r \in CutRecords(p), r.cut \notin {"last", "digits"}
  PROVE  Recovered(Append(l, r), now) \in {Recovered(l, now), Recovered(Append(l, p), now)}
<1> DEFINE behind == Len(l) + 1 > 1 /\ l[Len(l)].cut # "no"
<1>1. /\ r \in Records /\ r.cut \in {"early", "tail"}
      /\ r.command = p.command /\ r.spelling = p.spelling
  BY CutRecordsType DEF CutRecords, Cuts, Records
<1>2. Recovered(Append(l, r), now) =
        Replay(Recovered(l, now), Found(Append(l, r), Len(l) + 1), now)
  BY <1>1, RecoveredAppend
<1>3. Recovered(Append(l, p), now) =
        Replay(Recovered(l, now), Found(Append(l, p), Len(l) + 1), now)
  BY RecoveredAppend
<1>4. CASE behind \/ r.cut = "early"
  <2>1. Found(Append(l, r), Len(l) + 1) = Skipped(r)
    BY <1>1, <1>4, LastFound
  <2> QED
    BY <1>1, <1>2, <2>1, SkippedChangesNothing
<1>5. CASE ~(behind \/ r.cut = "early")
  <2>1. Found(Append(l, r), Len(l) + 1) = r
    BY <1>1, <1>5, LastFound
  <2>2. Found(Append(l, p), Len(l) + 1) = p
    BY <1>5, LastFound
  <2> QED
    BY <1>1, <1>2, <1>3, <2>1, <2>2, ReplayLooksAt
<1> QED
  BY <1>4, <1>5

\* What CrashIsAtomic says of a step.
LEMMA CrashStep ==
  ASSUME TypeInv, Crash, pc = "append", log' # log => log'[Len(log')].cut \notin {"last", "digits"}
  PROVE  Recovered(log', clock) \in
           {Recovered(log, clock), Recovered(Append(log, pending), clock)}
<1>1. pending \in Records /\ pending.cut = "no" /\ log \in Seq(Records) /\ clock \in Nat
  BY ClockIsNat DEF TypeInv
<1>2. CASE log' = log
  BY <1>2
<1>3. CASE log' # log
  <2>1. PICK r \in CutRecords(pending) : log' = Append(log, r)
    BY <1>3 DEF Crash
  <2>2. log'[Len(log')] = r
    BY <1>1, <2>1, CutRecordsType
  <2>3. r.cut \notin {"last", "digits"}
    BY <1>3, <2>2
  <2> QED
    BY <1>1, <2>1, <2>3, CutRecordIsSkippedOrKept
<1> QED
  BY <1>2, <1>3

\* AofManager::append and load_into_store: a crash in the middle of an append
\* loses the command or keeps it, all its keys and values, unless it comes in
\* the bytes of its last argument.
THEOREM CrashAtomic == Spec => CrashIsAtomic
<1>1. TypeInv /\ [Next]_vars =>
        [Crash /\ pc = "append" /\ ~CutRecordBuried
           /\ (log' # log => log'[Len(log')].cut \notin {"last", "digits"}) =>
           Recovered(log', clock) \in
             {Recovered(log, clock), Recovered(Append(log, pending), clock)}]_vars
  BY CrashStep
<1> QED
  BY <1>1, Typed, PTL DEF Spec, CrashIsAtomic

-----------------------------------------------------------------------------
(* The rewrite                                                             *)

\* A string of a snapshot is read as it was.
LEMMA RestoredIsLive ==
  ASSUME NEW e \in Entries, NEW n \in Nat
  PROVE  Live(Restored(e, n), n) /\ Restored(e, n).value = e.value
<1>1. Restored(e, n) \in Entries
  BY DEF Restored, Entries
<1> QED
  BY <1>1, NoneAssumption DEF Live, Expired, Restored

\* A file that is written whole is the snapshot.
LEMMA WholeIsSnapshot ==
  ASSUME WriteTmp, tmp'.whole
  PROVE  tmp'.records = SnapshotRecords(store, clock)
<1> DEFINE all == SnapshotRecords(store, clock)
<1>1. \/ tmp' = [records |-> all, whole |-> TRUE]
      \/ \E n \in 1 .. Len(all) : \E short \in CutRecords(all[n]) \cup {None} :
           tmp' = [records |-> SubSeq(all, 1, n - 1) \o
                                 IF short = None THEN << >> ELSE <<short>>,
                   whole |-> FALSE]
  BY DEF WriteTmp
<1> HIDE DEF all
<1>2. \/ tmp' = [records |-> all, whole |-> TRUE]
      \/ \E x : tmp' = [records |-> x, whole |-> FALSE]
  BY <1>1
<1>3. tmp' = [records |-> all, whole |-> TRUE]
  BY <1>2
<1> QED
  BY <1>3 DEF all

\* What RewriteIsExact says of a step.
LEMMA RewriteStep ==
  ASSUME TypeInv, WriteTmp, tmp'.whole
  PROVE  LET back == Recovered(tmp'.records, clock)
         IN  Gives(back, store, clock) /\ Strings(back, clock) = Strings(store, clock)
<1> DEFINE back == Recovered(SnapshotRecords(store, clock), clock)
<1>1. Sound(store) /\ store \in Stores /\ clock \in Nat
  BY ClockIsNat DEF TypeInv, Sound
<1>2. tmp'.records = SnapshotRecords(store, clock)
  BY WholeIsSnapshot
<1>3. /\ back.hash = store.hash /\ back.list = store.list
      /\ \A k \in Keys : back.str[k] = IF Live(store.str[k], clock)
                                       THEN Restored(store.str[k], clock) ELSE None
  BY <1>1, SnapshotGivesBack
<1> HIDE DEF back
<1>4. ASSUME NEW k \in Keys PROVE GetReply(back, k, clock) = GetReply(store, k, clock)
  <2>1. CASE Live(store.str[k], clock)
    <3>1. store.str[k] \in Entries
      BY <1>1, <2>1 DEF Live, Stores
    <3> QED
      BY <1>1, <1>3, <2>1, <3>1, RestoredIsLive DEF GetReply
  <2>2. CASE ~Live(store.str[k], clock)
    BY <1>3, <2>2, NoneIsNotLive DEF GetReply
  <2> QED
    BY <2>1, <2>2
<1>5. Gives(back, store, clock) /\ Strings(back, clock) = Strings(store, clock)
  BY <1>3, <1>4 DEF Gives, Strings
<1> QED
  BY <1>2, <1>5 DEF back

\* AofManager::rewrite: the new log gives back exactly what clients could read
\* when it was written, whatever the store had.
THEOREM RewriteExact == Spec => RewriteIsExact
<1>1. TypeInv /\ [Next]_vars =>
        [WriteTmp /\ tmp'.whole =>
           LET back == Recovered(tmp'.records, clock) IN
           Gives(back, store, clock) /\ Strings(back, clock) = Strings(store, clock)]_vars
  BY RewriteStep
<1> QED
  BY <1>1, Typed, PTL DEF Spec, RewriteIsExact

-----------------------------------------------------------------------------
(* Nothing is lost                                                         *)

\* What the run "restart" assumes of the clients and of the disk: commands the
\* replay knows, in capitals, deadlines that do not wrap, and a log that is
\* not removed when rename fails.  Without any one of these the log can lose
\* what clients could read.
Restorable ==
  /\ Commands \subseteq Replayed \cup {"BGREWRITEAOF"}
  /\ Spellings \subseteq {"upper"}
  /\ RemoveOutcomes \subseteq {FALSE}
  /\ DeadlinesFit

\* A record of l that was cut short has another behind it.
Buried(l) == \E i \in 1 .. Len(l) - 1 : l[i].cut # "no"

\* From the log l a restart gives back what st has, now and whenever it comes.
Promise(l, st, now) ==
  ~Buried(l) => \A n \in now .. ClockBound : Covers(Recovered(l, n), n, st, now)

\* The log promises the store, when nothing is missing in it; in an append it
\* does so with the record that is being written; and the file that was
\* written whole does when it is about to take the place of the log.
LogInv ==
  /\ pc \in {"idle", "rename"} /\ ~gap => Promise(log, store, clock)
  /\ pc = "append" /\ ~gap => Promise(Append(log, pending), store, clock)
  /\ pc = "rename" /\ tmp.whole => Promise(tmp.records, store, clock)
  /\ pc # "retry"

\* A promise is kept when the clock goes on and when the janitor takes a string.
LEMMA PromiseLess ==
  ASSUME NEW l \in Seq(Records), NEW st \in Stores, NEW now \in 0 .. ClockBound, Promise(l, st, now)
  PROVE  /\ \A later \in 0 .. ClockBound : now <= later => Promise(l, st, later)
         /\ \A k \in Keys : Promise(l, AfterErase(st, k), now)
<1>1. \A n \in 0 .. ClockBound : n \in Nat /\ Recovered(l, n) \in Stores
  BY ClockIsNat, RecoveredIsSound DEF Sound
<1>2. ClockBound \in Nat
  BY PersistenceAssumption
<1>3. ASSUME NEW later \in 0 .. ClockBound, now <= later PROVE Promise(l, st, later)
  <2>1. SUFFICES ASSUME ~Buried(l), NEW n \in later .. ClockBound
                 PROVE  Covers(Recovered(l, n), n, st, later)
    BY DEF Promise
  <2>2. n \in now .. ClockBound /\ n \in 0 .. ClockBound
    BY <1>2, <1>3
  <2>3. Covers(Recovered(l, n), n, st, now)
    BY <2>1, <2>2 DEF Promise
  <2> QED
    BY <1>1, <1>3, <2>2, <2>3, CoversLess
<1>4. ASSUME NEW k \in Keys PROVE Promise(l, AfterErase(st, k), now)
  <2>1. SUFFICES ASSUME ~Buried(l), NEW n \in now .. ClockBound
                 PROVE  Covers(Recovered(l, n), n, AfterErase(st, k), now)
    BY DEF Promise
  <2>2. n \in 0 .. ClockBound
    BY <1>2
  <2>3. Covers(Recovered(l, n), n, st, now)
    BY <2>1 DEF Promise
  <2> QED
    BY <1>1, <2>2, <2>3, CoversLess
<1> QED
  BY <1>3, <1>4

\* A command that is not logged takes nothing of what the log promises: it
\* changes nothing, or takes a string that had expired.
LEMMA UnloggedIsHarmless ==
  ASSUME NEW st, Sound(st), NEW now \in Nat, NEW c, WellFormed(c), c.cmd \in Replayed,
         ~Logged(st, c, now)
  PROVE  AfterCommand(st, c, now) = st \/ \E k \in Keys : AfterCommand(st, c, now) = AfterErase(st, k)
<1> DEFINE su == AfterCommand(st, c, now)
<1>1. st \in Stores /\ NoEmpties(st)
  BY DEF Sound
<1>2. \/ c.cmd = "DEL" /\ \A i \in DOMAIN c.keys : ~DelReply(st, c.keys[i])
      \/ c.cmd = "EXPIRE" /\ ~ExpireReply(st, c.key, now)
      \/ c.cmd = "HDEL" /\ HGetReply(st, c.key, c.field) = None
  BY DEF Logged, Replayed, WriteCommands
<1>3. CASE c.cmd = "DEL" /\ \A i \in DOMAIN c.keys : ~DelReply(st, c.keys[i])
  <2>1. su = DelAll(st, c.keys) /\ c.keys \in Seq(Keys)
    BY <1>3 DEF AfterCommand, WellFormed
  <2> QED
    BY <1>1, <1>3, <2>1, DelAllOfNothing
<1>4. CASE c.cmd = "EXPIRE" /\ ~ExpireReply(st, c.key, now)
  <2>1. su = AfterExpire(st, c.key, c.ttl, now) /\ c.key \in Keys
    BY <1>4 DEF AfterCommand, WellFormed
  <2>2. su = AfterErase(st, c.key)
    BY <1>4, <2>1 DEF AfterExpire, ExpireReply
  <2> QED
    BY <2>1, <2>2
<1>5. CASE c.cmd = "HDEL" /\ HGetReply(st, c.key, c.field) = None
  <2>1. su = AfterHDel(st, c.key, c.field) /\ c.key \in Keys /\ c.field \in Fields
    BY <1>5 DEF AfterCommand, WellFormed
  <2>2. st.hash[c.key] # NoFields
    BY <1>1, <2>1 DEF NoEmpties
  <2> QED
    BY <1>1, <1>5, <2>1, <2>2, HDelOfNothing
<1> QED
  BY <1>2, <1>3, <1>4, <1>5

\* A command that is logged: the log promises what it leaves, with its record.
LEMMA LoggedIsPromised ==
  ASSUME DeadlinesFit, NEW l \in Seq(Records), NEW st \in Stores, NEW now \in 0 .. ClockBound,
         Promise(l, st, now), NEW r \in Records, r.cut = "no", r.spelling = "upper",
         r.command.cmd \in Replayed
  PROVE  Promise(Append(l, r), AfterCommand(st, r.command, now), now)
<1> DEFINE k == Append(l, r)
<1>1. SUFFICES ASSUME ~Buried(k), NEW n \in now .. ClockBound
               PROVE  Covers(Recovered(k, n), n, AfterCommand(st, r.command, now), now)
  BY DEF Promise
<1>2. n \in 0 .. ClockBound /\ n \in Nat /\ now \in Nat
  BY PersistenceAssumption
<1>3. Len(k) = Len(l) + 1 /\ Len(l) \in Nat /\ \A i \in 1 .. Len(l) : k[i] = l[i]
  OBVIOUS
<1> HIDE DEF k
<1>4. \A i \in 1 .. Len(l) : l[i].cut = "no"
  BY <1>1, <1>3 DEF Buried
<1>5. ~Buried(l)
  BY <1>3, <1>4 DEF Buried
<1>6. Covers(Recovered(l, n), n, st, now)
  BY <1>5 DEF Promise
<1>7. Len(l) + 1 > 1 => l[Len(l)].cut = "no"
  BY <1>3, <1>4
<1>8. Found(k, Len(l) + 1) = r
  BY <1>7, LastFound DEF k
<1>9. Recovered(k, n) = Replay(Recovered(l, n), r, n)
  BY <1>2, <1>8, RecoveredAppend DEF k
<1>10. Recovered(l, n) \in Stores /\ WellFormed(r.command)
  BY <1>2, RecoveredIsSound, LoggableIsWellFormed DEF Sound, Records
<1> QED
  BY <1>2, <1>6, <1>9, <1>10, CoversExecute

\* What clients send is replayed, and its record is in capitals.
LEMMA SentIsReplayed ==
  ASSUME Restorable, NEW c \in Writes, NEW s \in Spellings
  PROVE  /\ c.cmd \in Replayed /\ WellFormed(c)
         /\ \A name \in NamesLogged(c, s) : RecordOf(c, name).spelling = "upper"
<1>1. WellFormed(c)
  BY WritesAreWellFormed DEF Writes
<1>2. c.cmd \in WriteCommands \/ c.cmd = "error"
  BY <1>1 DEF WellFormed
<1>3. c.cmd \in Replayed
  BY <1>2 DEF Restorable, Writes, AllWrites, WriteCommands
<1> QED
  BY <1>1, <1>3 DEF Restorable, RecordOf, NamesLogged

\* A command and its record.
LEMMA ExecuteKeepsLog ==
  ASSUME Restorable, TypeInv, LogInv, NEW c \in Writes, NEW s \in Spellings, Execute(c, s)
  PROVE  LogInv'
<1>1. /\ pc = "idle" /\ UNCHANGED <<clock, log, tmp, failbit, gap>>
      /\ store' = AfterCommand(store, c, clock)
  BY DEF Execute
<1>2. Sound(store) /\ store \in Stores /\ clock \in Nat /\ clock \in 0 .. ClockBound /\ log \in Seq(Records)
  BY ClockIsNat DEF TypeInv, Sound
<1>3. c.cmd \in Replayed /\ WellFormed(c)
  BY SentIsReplayed
<1>4. gap \/ Promise(log, store, clock)
  BY <1>1 DEF LogInv
<1>5. CASE Logged(store, c, clock)
  <2>1. pc' = "append" /\ \E name \in NamesLogged(c, s) : pending' = RecordOf(c, name)
    BY <1>5 DEF Execute
  <2>2. /\ pending' \in Records /\ pending'.cut = "no" /\ pending'.spelling = "upper"
        /\ pending'.command = c
    BY <2>1, RecordOfType, SentIsReplayed
  <2>3. gap \/ Promise(Append(log, pending'), AfterCommand(store, pending'.command, clock), clock)
    BY <1>2, <1>3, <1>4, <2>2, LoggedIsPromised DEF Restorable
  <2>4. gap \/ Promise(Append(log, pending'), store', clock)
    BY <1>1, <2>2, <2>3
  <2> QED
    BY <1>1, <2>1, <2>4 DEF LogInv
<1>6. CASE ~Logged(store, c, clock)
  <2>1. UNCHANGED <<pc, pending>>
    BY <1>6 DEF Execute
  <2>2. store' = store \/ \E k \in Keys : store' = AfterErase(store, k)
    BY <1>1, <1>2, <1>3, <1>6, UnloggedIsHarmless
  <2>3. gap \/ Promise(log, store', clock)
    BY <1>2, <1>4, <2>2, PromiseLess
  <2> QED
    BY <1>1, <2>1, <2>3 DEF LogInv
<1> QED
  BY <1>5, <1>6

\* The whole snapshot promises the store.
LEMMA SnapshotPromises ==
  ASSUME NEW st, Sound(st), NEW now \in Nat
  PROVE  Promise(SnapshotRecords(st, now), st, now)
<1>1. SUFFICES ASSUME NEW n \in now .. ClockBound
               PROVE  Covers(Recovered(SnapshotRecords(st, now), n), n, st, now)
  BY DEF Promise
<1>2. n \in Nat
  OBVIOUS
<1> DEFINE back == Recovered(SnapshotRecords(st, now), n)
<1>3. /\ back.hash = st.hash /\ back.list = st.list
      /\ \A k \in Keys : back.str[k] = IF Live(st.str[k], now) THEN Restored(st.str[k], n) ELSE None
  BY <1>2, SnapshotGivesBack
<1> HIDE DEF back
<1>4. ASSUME NEW j \in Keys, Live(st.str[j], now)
      PROVE  Live(back.str[j], n) /\ back.str[j].value = st.str[j].value
  <2>1. st.str[j] \in Entries
    BY <1>4 DEF Live, Sound, Stores
  <2> QED
    BY <1>2, <1>3, <1>4, <2>1, RestoredIsLive
<1>5. Covers(back, n, st, now)
  BY <1>3, <1>4 DEF Covers
<1> QED
  BY <1>5 DEF back

\* The rewrite.
LEMMA RewriteKeepsLog ==
  ASSUME Restorable, TypeInv, LogInv, WriteTmp \/ Rename \/ RenameFails
  PROVE  LogInv'
<1>1. CASE WriteTmp
  <2>1. /\ pc = "idle" /\ pc' = "rename" /\ UNCHANGED <<store, clock, pending, log, failbit, gap>>
    BY <1>1 DEF WriteTmp
  <2>2. tmp'.whole => tmp'.records = SnapshotRecords(store, clock)
    BY <1>1, WholeIsSnapshot
  <2>3. Promise(SnapshotRecords(store, clock), store, clock)
    BY SnapshotPromises, ClockIsNat DEF TypeInv
  <2> QED
    BY <2>1, <2>2, <2>3 DEF LogInv
<1>2. CASE Rename
  <2>1. /\ pc = "rename" /\ log' = tmp.records /\ gap' = ~tmp.whole /\ pc' = "idle"
        /\ UNCHANGED <<store, clock>>
    BY <1>2 DEF Rename, LogInv
  <2>2. ~gap' => Promise(tmp.records, store, clock)
    BY <2>1 DEF LogInv
  <2> QED
    BY <2>1, <2>2 DEF LogInv
<1>3. CASE RenameFails
  <2>1. /\ pc = "rename" /\ pc' = "idle" /\ UNCHANGED <<store, clock, log, gap>>
    BY <1>3 DEF RenameFails, LogInv, Restorable
  <2> QED
    BY <2>1 DEF LogInv
<1> QED
  BY <1>1, <1>2, <1>3

\* The janitor, the clock, and a restart.
LEMMA OthersKeepLog ==
  ASSUME Restorable, TypeInv, LogInv, (\E k \in Keys : Forget(k)) \/ Tick \/ Crash \/ Start
  PROVE  LogInv'
<1>1. /\ store \in Stores /\ clock \in Nat /\ clock \in 0 .. ClockBound /\ log \in Seq(Records)
  BY ClockIsNat DEF TypeInv, Sound
<1>2. pc = "append" => Append(log, pending) \in Seq(Records)
  BY <1>1 DEF TypeInv
<1>3. pc = "rename" => tmp.records \in Seq(Records)
  BY DEF TypeInv, Files
<1>4. ASSUME NEW k \in Keys, Forget(k) PROVE LogInv'
  <2>1. store' = AfterErase(store, k) /\ UNCHANGED <<clock, pc, pending, log, tmp, failbit, gap>>
    BY <1>4 DEF Forget
  <2>2. \A l \in Seq(Records) : Promise(l, store, clock) => Promise(l, store', clock)
    BY <1>1, <2>1, PromiseLess
  <2> QED
    BY <1>1, <1>2, <1>3, <2>1, <2>2 DEF LogInv
<1>5. CASE Tick
  <2>1. clock' = clock + 1 /\ clock' \in 0 .. ClockBound /\ UNCHANGED <<store, pc, pending, log, tmp, failbit, gap>>
    BY <1>1, <1>5, PersistenceAssumption DEF Tick
  <2>2. \A l \in Seq(Records) : Promise(l, store, clock) => Promise(l, store, clock')
    BY <1>1, <2>1, PromiseLess
  <2> QED
    BY <1>1, <1>2, <1>3, <2>1, <2>2 DEF LogInv
<1>6. CASE Crash
  BY <1>6 DEF Crash, LogInv
<1>7. CASE Start
  <2>1. store' = Recovered(log, clock) /\ pc' = "idle" /\ UNCHANGED <<clock, log>>
    BY <1>7 DEF Start
  <2>2. Promise(log, Recovered(log, clock), clock)
    <3>1. \A n \in clock .. ClockBound : n \in 0 .. ClockBound
      BY <1>1
    <3> QED
      BY <1>1, <3>1, RestartsAgree DEF Promise, Restorable
  <2> QED
    BY <2>1, <2>2 DEF LogInv
<1> QED
  BY <1>4, <1>5, <1>6, <1>7

\* Each step keeps the promise.
LEMMA NextKeepsLog ==
  ASSUME Restorable, TypeInv, LogInv, [Next]_vars
  PROVE  LogInv'
<1>1. CASE \E c \in Writes, s \in Spellings : Execute(c, s)
  BY <1>1, ExecuteKeepsLog
<1>2. CASE AppendRecord
  <2>1. /\ pc = "append" /\ pc' = "idle" /\ log' = Append(log, pending) /\ UNCHANGED <<store, clock, gap>>
    BY <1>2 DEF AppendRecord, Appended
  <2> QED
    BY <2>1 DEF LogInv
<1>3. CASE AppendFails
  <2>1. pc' = "idle" /\ gap' = TRUE
    BY <1>3 DEF AppendFails, Appended
  <2> QED
    BY <2>1 DEF LogInv
<1>4. CASE WriteTmp \/ Rename \/ RenameFails
  BY <1>4, RewriteKeepsLog
<1>5. CASE (\E k \in Keys : Forget(k)) \/ Tick \/ Crash \/ Start
  BY <1>5, OthersKeepLog
<1>6. CASE UNCHANGED vars
  BY <1>6 DEF vars, LogInv
<1> QED
  BY <1>1, <1>2, <1>3, <1>4, <1>5, <1>6 DEF Next

\* A kept promise is what NothingIsLost says.
LEMMA PromiseGives == TypeInv /\ LogInv => NothingIsLost
<1> SUFFICES ASSUME TypeInv, LogInv, pc \in {"idle", "rename"}, ~CutRecordBuried, ~gap
             PROVE  Gives(Recovered(log, clock), store, clock)
  BY DEF NothingIsLost
<1>1. ~Buried(log) /\ clock \in clock .. ClockBound
  BY ClockIsNat, PersistenceAssumption DEF CutRecordBuried, Buried, TypeInv
<1>2. Covers(Recovered(log, clock), clock, store, clock)
  BY <1>1 DEF LogInv, Promise
<1> QED
  BY <1>2 DEF Covers, Gives, GetReply

\* AofManager and CommandParser, README.md:84-85: whatever clients send of the
\* commands the replay knows, whenever the process dies and however writes
\* fail, a server that stopped and started now would give back every hash and
\* list as it is and every live string with its value, unless a write has
\* failed or a record that was cut short has another behind it.
THEOREM NothingIsLostIfRestorable ==
  ASSUME Restorable
  PROVE  Spec => []NothingIsLost
<1>1. Init => LogInv
  BY DEF Init, LogInv
<1>2. TypeInv /\ LogInv /\ [Next]_vars => LogInv'
  BY NextKeepsLog
<1> QED
  BY <1>1, <1>2, Typed, PromiseGives, PTL DEF Spec
=============================================================================
