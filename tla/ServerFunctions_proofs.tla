----------------------- MODULE ServerFunctions_proofs -----------------------
(***************************************************************************)
(* Proofs that the functions of the server keep what they promise, for any *)
(* keys, values, stores, requests, replies and texts.                      *)
(***************************************************************************)
EXTENDS ServerFunctions, StoreOps_proofs, FiniteSetTheorems, SequenceTheorems

-----------------------------------------------------------------------------
(* An input and what is made of it                                         *)

CommandResult(i) ==
  LET c == Decode(i.name, i.args) IN
  [command |-> c,
   after   |-> AfterCommand(i.store, c, Now),
   reply   |-> Reply(i.store, c, Now),
   logged  |-> Logged(i.store, c, Now),
   writes  |-> WriteOps(i.store, c, Now),
   reads   |-> ReadOps(c)]

LogResult(i) ==
  Load(SubSeq(RecordBytes(i.record), 1, i.size)
         \o FlattenSeq([n \in DOMAIN i.behind |-> RecordBytes(i.behind[n])]))

\* The output is what the function of the input's family makes of it.
Computed ==
  /\ input \in Inputs
  /\ output # None =>
       /\ input.family = "lrange"  => output = LRange(input.list, input.start, input.stop)
       /\ input.family = "command" => output = CommandResult(input)
       /\ input.family = "array"   => output = parse_request(Arrived(input))
       /\ input.family = "text"    => output = ArrayScan(input.text)
       /\ input.family = "quoted"  => output = parse_request(Quoted(input.words, input.gap) \o End)
       /\ input.family = "replies" => output = Serialize(input.first) \o Serialize(input.second)
       /\ input.family = "log"     => output = LogResult(input)

\* Every behaviour computes its output once, from the input it began with.
LEMMA AlwaysComputed == Spec => []Computed
<1>1. Init => Computed
  BY DEF Init, Computed
<1>2. Computed /\ [Next]_vars => Computed'
  <2>1. SUFFICES ASSUME Computed, [Next]_vars PROVE Computed'
    OBVIOUS
  <2>2. CASE UNCHANGED vars
    BY <2>1, <2>2 DEF Computed, vars
  <2>3. CASE Next
    <3>1. input' = input /\ input \in Inputs
      BY <2>1, <2>3 DEF Next, Computed
    <3>2. CASE ComputeRange
      BY <3>1, <3>2 DEF ComputeRange, Computed
    <3>3. CASE ComputeCommand
      BY <3>1, <3>3 DEF ComputeCommand, Computed, CommandResult
    <3>4. CASE ComputeArray
      BY <3>1, <3>4 DEF ComputeArray, Computed, Arrived
    <3>5. CASE ComputeText
      BY <3>1, <3>5 DEF ComputeText, Computed
    <3>6. CASE ComputeQuoted
      BY <3>1, <3>6 DEF ComputeQuoted, Computed
    <3>7. CASE ComputeReplies
      BY <3>1, <3>7 DEF ComputeReplies, Computed
    <3>8. CASE ComputeLog
      BY <3>1, <3>8 DEF ComputeLog, Computed, LogResult
    <3> QED
      BY <2>3, <3>2, <3>3, <3>4, <3>5, <3>6, <3>7, <3>8 DEF Next
  <2> QED
    BY <2>1, <2>2, <2>3
<1> QED
  BY <1>1, <1>2, PTL DEF Spec

\* The family of an input tells which of the sets it is from.
LEMMA InputOfFamily ==
  ASSUME NEW i \in Inputs
  PROVE  /\ i.family = "lrange"  => i \in RangeInputs
         /\ i.family = "command" => i \in CommandInputs
         /\ i.family = "array"   => i \in ArrayInputs
         /\ i.family = "text"    => i \in TextInputs
         /\ i.family = "quoted"  => i \in QuotedInputs
         /\ i.family = "replies" => i \in ReplyInputs
         /\ i.family = "log"     => i \in LogInputs
<1>1. /\ i \in RangeInputs => i.family = "lrange"
      /\ i \in CommandInputs => i.family = "command"
      /\ i \in ArrayInputs => i.family = "array"
      /\ i \in TextInputs => i.family = "text"
      /\ i \in QuotedInputs => i.family = "quoted"
      /\ i \in ReplyInputs => i.family = "replies"
      /\ i \in LogInputs => i.family = "log"
  <2>1. i \in RangeInputs => i.family = "lrange"
    BY RangeInputsAssumption
  <2>2. i \in CommandInputs => i.family = "command"
    BY CommandInputsAssumption
  <2>3. i \in ArrayInputs => i.family = "array"
    BY ArrayInputsAssumption
  <2>4. i \in TextInputs => i.family = "text"
    BY TextInputsAssumption
  <2>5. i \in QuotedInputs => i.family = "quoted"
    BY QuotedInputsAssumption
  <2>6. i \in ReplyInputs => i.family = "replies"
    BY ReplyInputsAssumption
  <2>7. i \in LogInputs => i.family = "log"
    BY LogInputsAssumption
  <2> QED
    BY <2>1, <2>2, <2>3, <2>4, <2>5, <2>6, <2>7
<1> QED
  BY <1>1 DEF Inputs

-----------------------------------------------------------------------------
(* LRANGE                                                                  *)

\* The reply to LRANGE is the part of the list that its indices name, for
\* every list and all indices: the clamping of KeyValueStore.cpp:313-335.
THEOREM RangeIsExact == Spec => []LRangeIsSlice
<1>1. Computed => LRangeIsSlice
  <2>1. SUFFICES ASSUME Computed, input.family = "lrange", output # None PROVE LRangeIsSlice
    BY DEF LRangeIsSlice
  <2> DEFINE l      == input.list
             size   == Len(l)
             start  == PositionOf(input.start, size)
             stop   == PositionOf(input.stop, size)
             Within == {i \in 1 .. size : start <= i - 1 /\ i - 1 <= stop}
             first  == CHOOSE i \in Within : \A j \in Within : i <= j
             from   == IF start < 0 THEN 0 ELSE start
             n      == Len(output)
  <2>2. input \in RangeInputs /\ output = LRange(l, input.start, input.stop)
    BY <2>1, InputOfFamily DEF Computed
  <2>3. l \in Seq(Values) /\ input.start \in Int /\ input.stop \in Int
    BY <2>2, RangeInputsAssumption DEF Lists
  <2>4. size \in Nat /\ start \in Int /\ stop \in Int /\ from \in Nat
    BY <2>3 DEF PositionOf
  <2>5. start = Position(l, input.start) /\ stop = Position(l, input.stop)
    BY DEF Position, PositionOf
  <2>6. /\ output \in Seq(Values)
        /\ \A i \in 1 .. n : from + i \in 1 .. size /\ output[i] = l[from + i]
        /\ \A p \in 0 .. size - 1 : start <= p /\ p <= stop <=> from <= p /\ p < from + n
    <3> HIDE DEF start, stop
    <3>1. from = IF Position(l, input.start) < 0 THEN 0 ELSE Position(l, input.start)
      BY <2>5
    <3> HIDE DEF from
    <3>2. /\ output \in Seq(Values)
          /\ \A i \in 1 .. Len(output) : from + i \in 1 .. Len(l) /\ output[i] = l[from + i]
          /\ \A p \in 0 .. Len(l) - 1 :
               Position(l, input.start) <= p /\ p <= Position(l, input.stop)
                 <=> from <= p /\ p < from + Len(output)
      <4>1. /\ l \in Seq(Values) /\ input.start \in Int /\ input.stop \in Int
            /\ output = LRange(l, input.start, input.stop)
        BY <2>2, <2>3
      <4> HIDE DEF l
      <4> QED
        BY ONLY <3>1, <4>1, RangeIsSlice
    <3> QED
      BY <2>5, <3>2
  <2>7. n \in Nat
    BY <2>6
  <2> HIDE DEF start, stop, from, n, size
  <2>8. n = 0 \/ from + n <= size
    BY <2>4, <2>6, <2>7
  <2>9. Within = from + 1 .. from + n
    <3>1. ASSUME NEW i \in 1 .. size
          PROVE  start <= i - 1 /\ i - 1 <= stop <=> from + 1 <= i /\ i <= from + n
      <4>1. i - 1 \in 0 .. size - 1
        BY <2>4
      <4>2. start <= i - 1 /\ i - 1 <= stop <=> from <= i - 1 /\ i - 1 < from + n
        BY <2>6, <4>1
      <4> QED
        BY <2>4, <2>7, <4>2
    <3>2. from + 1 .. from + n \subseteq 1 .. size
      BY <2>4, <2>7, <2>8
    <3> QED
      BY <2>4, <2>7, <3>1, <3>2
  <2>10. Cardinality(Within) = n
    <3> HIDE DEF Within
    <3> DEFINE a == from + 1
               b == from + n
    <3>1. a \in Int /\ b \in Int /\ (IF a > b THEN 0 ELSE b - a + 1) = n
      BY <2>4, <2>7
    <3> HIDE DEF a, b
    <3>2. Cardinality(a .. b) = IF a > b THEN 0 ELSE b - a + 1
      BY <3>1, FS_Interval
    <3> QED
      BY <2>9, <3>1, <3>2 DEF a, b
  <2>11. ASSUME NEW i \in 1 .. n PROVE output[i] = l[first + i - 1]
    <3>1. from + 1 \in Within /\ \A j \in Within : from + 1 <= j
      BY <2>4, <2>7, <2>9
    <3>2. \A i1, i2 \in Within : (\A j \in Within : i1 <= j) /\ (\A j \in Within : i2 <= j) => i1 = i2
      BY <2>4, <2>7, <2>9
    <3> HIDE DEF Within
    <3>3. first = from + 1
      BY <3>1, <3>2
    <3> HIDE DEF first
    <3>4. first + i - 1 = from + i
      BY <2>4, <2>7, <3>3
    <3> QED
      BY <2>6, <3>4
  <2> QED
    BY <2>10, <2>11 DEF LRangeIsSlice, start, stop, n, size
<1> QED
  BY <1>1, AlwaysComputed, PTL

-----------------------------------------------------------------------------
(* What Decode makes of tokens                                             *)

\* The commands on one key that have no other argument.
OnOneKey == {"GET", "EXISTS", "TTL", "HLEN", "HGETALL", "LLEN", "LPOP", "RPOP"}

\* The arguments of a command are of the types its methods take.
Decoded(c) ==
  \/ c.cmd \in {"error", "DBSIZE", "FLUSHDB"}
  \/ c.cmd = "SET" /\ c.key \in Keys /\ c.val \in Values /\ c.ttl \in Numbers \cup {None}
  \/ c.cmd = "MSET" /\ c.pairs \in Seq(Keys \X Values) /\ Len(c.pairs) > 0
  \/ c.cmd \in {"DEL", "MGET"} /\ c.keys \in Seq(Keys) /\ Len(c.keys) > 0
  \/ c.cmd = "EXPIRE" /\ c.key \in Keys /\ c.ttl \in Numbers
  \/ c.cmd = "INCRBY" /\ c.key \in Keys /\ c.delta \in Numbers
  \/ c.cmd = "HSET" /\ c.key \in Keys /\ c.field \in Fields /\ c.val \in Values
  \/ c.cmd \in {"HGET", "HDEL", "HEXISTS"} /\ c.key \in Keys /\ c.field \in Fields
  \/ c.cmd \in {"LPUSH", "RPUSH"} /\ c.key \in Keys /\ c.vals \in Seq(Values) /\ Len(c.vals) > 0
  \/ c.cmd = "LRANGE" /\ c.key \in Keys
  \/ c.cmd \in OnOneKey /\ c.key \in Keys

\* What the tokens are when the command accepts their number.
LEMMA TokensAre ==
  ASSUME NEW i \in CommandInputs, ArityOK(i.name, Len(i.args))
  PROVE  /\ Len(i.args) \in Nat /\ DOMAIN i.args = 1 .. Len(i.args)
         /\ \A n \in 1 .. Len(i.args) : i.args[n] \in TokenType(i.name, n)
<1>1. /\ i.args \in Seq(Keys \cup Fields \cup Values)
      /\ \A n \in DOMAIN i.args : i.args[n] \in TokenType(i.name, n)
  BY CommandInputsAssumption
<1>2. Len(i.args) \in Nat /\ DOMAIN i.args = 1 .. Len(i.args)
  BY <1>1
<1> QED
  BY <1>1, <1>2

\* The names that are accepted with some number of tokens.
LEMMA NamesAre ==
  ASSUME NEW name, NEW n \in Nat, ArityOK(name, n)
  PROVE  name \in OnOneKey \cup {"INCR", "DECR", "HGET", "HDEL", "HEXISTS", "EXPIRE", "INCRBY",
                   "SETEX", "HSET", "LRANGE", "MGET", "DEL", "SET", "LPUSH", "RPUSH", "MSET",
                   "DBSIZE", "FLUSHDB"}
BY DEF ArityOK, OnOneKey

\* Whatever the tokens are, what they are decoded to is well-typed.
LEMMA DecodedIs ==
  ASSUME NEW i \in CommandInputs
  PROVE  Decoded(Decode(i.name, i.args))
<1> DEFINE name == i.name
           a == i.args
           c == Decode(name, a)
           bad == \E n \in Numerals(name, a) : Stoll(n) = None
<1>1. CASE ~ArityOK(name, Len(a))
  BY <1>1 DEF Decode, Wrong, Decoded
<1>2. CASE ArityOK(name, Len(a)) /\ bad
  BY <1>2 DEF Decode, Wrong, Decoded
<1>3. CASE ArityOK(name, Len(a)) /\ ~bad
  <2> DEFINE n == Len(a)
  <2>1. /\ n \in Nat /\ DOMAIN a = 1 .. n
        /\ \A j \in 1 .. n : a[j] \in TokenType(name, j)
    BY <1>3, TokensAre
  <2>2. ASSUME NEW v \in Values, v \in Numerals(name, a) PROVE Stoll(v) \in Numbers
    BY <1>3, <2>2, StollRange
  <2> HIDE DEF bad
  <2> SUFFICES Decoded(c)
    OBVIOUS
  <2> HIDE DEF a, name
  <2>3. CASE name = "SET"
    <3>1. n >= 2
      BY <1>3, <2>3 DEF ArityOK
    <3>2. a[1] \in Keys /\ a[2] \in Values /\ (n >= 4 => a[4] \in Values)
      BY <2>1, <2>3, <3>1 DEF TokenType
    <3>3. WithEx(a) => Stoll(a[4]) \in Numbers
      BY <2>2, <2>3, <3>2 DEF Numerals, WithEx
    <3>4. c = [cmd |-> "SET", key |-> a[1], val |-> a[2],
               ttl |-> IF WithEx(a) THEN Stoll(a[4]) ELSE None]
      BY <1>3, <2>3 DEF Decode, bad
    <3> QED
      BY <3>2, <3>3, <3>4 DEF Decoded
  <2>4. CASE name = "SETEX"
    <3>1. n = 3
      BY <1>3, <2>4 DEF ArityOK
    <3>2. a[1] \in Keys /\ a[2] \in Values /\ a[3] \in Values
      BY <2>1, <2>4, <3>1 DEF TokenType
    <3>3. Stoll(a[2]) \in Numbers
      BY <2>2, <2>4, <3>2 DEF Numerals
    <3>4. c = [cmd |-> "SET", key |-> a[1], val |-> a[3], ttl |-> Stoll(a[2])]
      BY <1>3, <2>4 DEF Decode, bad
    <3> QED
      BY <3>2, <3>3, <3>4 DEF Decoded
  <2>5. CASE name = "MSET"
    <3>1. n >= 2 /\ n % 2 = 0
      BY <1>3, <2>5 DEF ArityOK
    <3> DEFINE m == n \div 2
               ps == [j \in 1 .. m |-> <<a[2 * j - 1], a[2 * j]>>]
    <3>2. m \in Nat /\ m > 0 /\ 2 * m = n
      <4> HIDE DEF n
      <4> QED
        BY <2>1, <3>1
    <3>3. ASSUME NEW j \in 1 .. m PROVE a[2 * j - 1] \in Keys /\ a[2 * j] \in Values
      <4> HIDE DEF m
      <4>1. 2 * j - 1 \in 1 .. n /\ 2 * j \in 1 .. n
        BY <2>1, <3>2
      <4>2. (2 * j - 1) % 2 = 1 /\ (2 * j) % 2 # 1
        BY <3>2
      <4>3. a[2 * j - 1] \in TokenType(name, 2 * j - 1) /\ a[2 * j] \in TokenType(name, 2 * j)
        BY <2>1, <4>1
      <4> QED
        BY <2>5, <4>2, <4>3 DEF TokenType
    <3>4. ps \in Seq(Keys \X Values) /\ Len(ps) = m
      <4> HIDE DEF m
      <4>1. ps \in [1 .. m -> Keys \X Values]
        BY <3>3
      <4> HIDE DEF ps
      <4> QED
        BY <3>2, <4>1
    <3>5. c = [cmd |-> "MSET", pairs |-> ps]
      BY <1>3, <2>5 DEF Decode, bad
    <3> HIDE DEF m, ps, c
    <3> QED
      BY <3>2, <3>4, <3>5 DEF Decoded
  <2>6. CASE name \in {"DEL", "MGET"}
    <3>1. n >= 1
      BY <1>3, <2>6 DEF ArityOK
    <3>2. \A j \in 1 .. n : a[j] \in Keys
      BY <2>1, <2>6 DEF TokenType
    <3>3. a \in Seq(Keys)
      <4>1. a \in Seq(Keys \cup Fields \cup Values)
        BY CommandInputsAssumption DEF a
      <4> QED
        BY <2>1, <3>2, <4>1
    <3>4. c = [cmd |-> name, keys |-> a]
      BY <1>3, <2>6 DEF Decode, bad
    <3> QED
      BY <2>6, <3>1, <3>3, <3>4 DEF Decoded
  <2>7. CASE name \in {"EXPIRE", "INCRBY"}
    <3>1. n = 2
      BY <1>3, <2>7 DEF ArityOK
    <3>2. a[1] \in Keys /\ a[2] \in Values
      BY <2>1, <2>7, <3>1 DEF TokenType
    <3>3. Stoll(a[2]) \in Numbers
      BY <2>2, <2>7, <3>2 DEF Numerals
    <3>4. /\ name = "EXPIRE" => c = [cmd |-> "EXPIRE", key |-> a[1], ttl |-> Stoll(a[2])]
          /\ name = "INCRBY" => c = [cmd |-> "INCRBY", key |-> a[1], delta |-> Stoll(a[2])]
      BY <1>3 DEF Decode, bad
    <3> QED
      BY <2>7, <3>2, <3>3, <3>4 DEF Decoded
  <2>8. CASE name \in {"INCR", "DECR"}
    <3>1. n = 1
      BY <1>3, <2>8 DEF ArityOK
    <3>2. a[1] \in Keys
      BY <2>1, <2>8, <3>1 DEF TokenType
    <3>3. \E d \in {1, -1} : c = [cmd |-> "INCRBY", key |-> a[1], delta |-> d]
      BY <1>3, <2>8 DEF Decode, bad
    <3>4. 1 \in Numbers /\ -1 \in Numbers
      BY RangeAssumption DEF Numbers
    <3> QED
      BY <3>2, <3>3, <3>4 DEF Decoded
  <2>9. CASE name = "HSET"
    <3>1. n = 3
      BY <1>3, <2>9 DEF ArityOK
    <3>2. a[1] \in Keys /\ a[2] \in Fields /\ a[3] \in Values
      BY <2>1, <2>9, <3>1 DEF TokenType
    <3>3. c = [cmd |-> "HSET", key |-> a[1], field |-> a[2], val |-> a[3]]
      BY <1>3, <2>9 DEF Decode, bad
    <3> QED
      BY <3>2, <3>3 DEF Decoded
  <2>10. CASE name \in {"HGET", "HDEL", "HEXISTS"}
    <3>1. n = 2
      BY <1>3, <2>10 DEF ArityOK
    <3>2. a[1] \in Keys /\ a[2] \in Fields
      BY <2>1, <2>10, <3>1 DEF TokenType
    <3>3. c = [cmd |-> name, key |-> a[1], field |-> a[2]]
      BY <1>3, <2>10 DEF Decode, bad
    <3> QED
      BY <2>10, <3>2, <3>3 DEF Decoded
  <2>11. CASE name \in {"LPUSH", "RPUSH"}
    <3>1. n >= 2
      BY <1>3, <2>11 DEF ArityOK
    <3>2. a[1] \in Keys /\ \A j \in 2 .. n : a[j] \in Values
      BY <2>1, <2>11, <3>1 DEF TokenType
    <3>3. Tail(a) \in Seq(Values) /\ Len(Tail(a)) = n - 1
      <4>1. a \in Seq(Keys \cup Fields \cup Values) /\ a # << >>
        BY <2>1, <3>1, CommandInputsAssumption DEF a
      <4>2. /\ Tail(a) \in Seq(Keys \cup Fields \cup Values) /\ Len(Tail(a)) = n - 1
            /\ \A j \in 1 .. n - 1 : Tail(a)[j] = a[j + 1]
        BY <4>1
      <4>3. \A j \in 1 .. n - 1 : Tail(a)[j] \in Values
        BY <2>1, <3>2, <4>2
      <4> DEFINE t == Tail(a)
      <4>4. t \in Seq(Keys \cup Fields \cup Values) /\ \A j \in 1 .. Len(t) : t[j] \in Values
        BY <4>2, <4>3
      <4> HIDE DEF t
      <4>5. t \in Seq(Values)
        BY <4>4
      <4> QED
        BY <4>2, <4>5 DEF t
    <3>4. c = [cmd |-> name, key |-> a[1], vals |-> Tail(a)]
      BY <1>3, <2>11 DEF Decode, bad
    <3> QED
      BY <2>1, <2>11, <3>1, <3>2, <3>3, <3>4 DEF Decoded
  <2>12. CASE name = "LRANGE"
    <3>1. n = 3
      BY <1>3, <2>12 DEF ArityOK
    <3>2. a[1] \in Keys
      BY <2>1, <2>12, <3>1 DEF TokenType
    <3>3. c = [cmd |-> name, key |-> a[1], start |-> Stoll(a[2]), stop |-> Stoll(a[3])]
      BY <1>3, <2>12 DEF Decode, bad
    <3> QED
      BY <2>12, <3>2, <3>3 DEF Decoded
  <2>13. CASE name \in {"DBSIZE", "FLUSHDB"}
    <3>1. c = [cmd |-> name]
      BY <1>3, <2>13 DEF Decode, bad
    <3> QED
      BY <2>13, <3>1 DEF Decoded
  <2>14. CASE name \in OnOneKey
    <3>1. n = 1
      BY <1>3, <2>14 DEF ArityOK, OnOneKey
    <3>2. a[1] \in Keys
      BY <2>1, <2>14, <3>1 DEF TokenType, OnOneKey
    <3>3. c = [cmd |-> name, key |-> a[1]]
      BY <1>3, <2>14 DEF Decode, bad, OnOneKey
    <3> QED
      BY <2>14, <3>2, <3>3 DEF Decoded
  <2>15. name \in OnOneKey \cup {"INCR", "DECR", "HGET", "HDEL", "HEXISTS", "EXPIRE", "INCRBY",
                   "SETEX", "HSET", "LRANGE", "MGET", "DEL", "SET", "LPUSH", "RPUSH", "MSET",
                   "DBSIZE", "FLUSHDB"}
    BY <1>3, <2>1, NamesAre
  <2> HIDE DEF c
  <2> QED
    BY <2>3, <2>4, <2>5, <2>6, <2>7, <2>8, <2>9, <2>10, <2>11, <2>12, <2>13, <2>14, <2>15
<1> QED
  BY <1>1, <1>2, <1>3

-----------------------------------------------------------------------------
(* What clients can see of a store                                         *)

\* What TTL says of a key, unless it is for an entry that has expired.
TtlSeen(st, k) ==
  IF Expired(st.str[k], Now) THEN TtlReply(AfterErase(st, k), k, Now) ELSE TtlReply(st, k, Now)

\* Stores that answer alike look alike.
LEMMA AnswersAreVisible ==
  ASSUME NEW st, NEW su,
         \A k \in Keys : /\ GetReply(su, k, Now) = GetReply(st, k, Now)
                         /\ TtlSeen(su, k) = TtlSeen(st, k)
                         /\ HGetAllReply(su, k) = HGetAllReply(st, k)
                         /\ ListOf(su, k) = ListOf(st, k)
                         /\ ExistsReply(su, k, Now) = ExistsReply(st, k, Now)
  PROVE  Visible(su) = Visible(st)
<1>1. ASSUME NEW s
      PROVE  Visible(s) = [strings |-> [k \in Keys |-> GetReply(s, k, Now)],
                           ttls    |-> [k \in Keys |-> TtlSeen(s, k)],
                           hashes  |-> [k \in Keys |-> HGetAllReply(s, k)],
                           lists   |-> [k \in Keys |-> ListOf(s, k)],
                           exist   |-> [k \in Keys |-> ExistsReply(s, k, Now)]]
  <2> DEFINE g == [k \in Keys |-> TtlReply(s, k, Now)]
             t == [k \in Keys |-> TtlSeen(s, k)]
  <2>1. [k \in Keys |-> IF Expired(s.str[k], Now) THEN TtlReply(AfterErase(s, k), k, Now) ELSE g[k]] = t
    BY DEF TtlSeen
  <2>2. Visible(s) = [Readings(s) EXCEPT !.ttls =
          [k \in Keys |-> IF Expired(s.str[k], Now) THEN TtlReply(AfterErase(s, k), k, Now) ELSE g[k]]]
    BY DEF Visible, Readings
  <2> HIDE DEF t
  <2>3. Visible(s) = [Readings(s) EXCEPT !.ttls = t]
    BY <2>1, <2>2
  <2>4. Visible(s) = [strings |-> [k \in Keys |-> GetReply(s, k, Now)],
                      ttls    |-> t,
                      hashes  |-> [k \in Keys |-> HGetAllReply(s, k)],
                      lists   |-> [k \in Keys |-> ListOf(s, k)],
                      exist   |-> [k \in Keys |-> ExistsReply(s, k, Now)]]
    BY <2>3 DEF Readings
  <2> QED
    BY <2>4 DEF t
<1>2. [k \in Keys |-> GetReply(su, k, Now)] = [k \in Keys |-> GetReply(st, k, Now)]
  OBVIOUS
<1>3. [k \in Keys |-> TtlSeen(su, k)] = [k \in Keys |-> TtlSeen(st, k)]
  OBVIOUS
<1>4. [k \in Keys |-> HGetAllReply(su, k)] = [k \in Keys |-> HGetAllReply(st, k)]
  OBVIOUS
<1>5. [k \in Keys |-> ListOf(su, k)] = [k \in Keys |-> ListOf(st, k)]
  OBVIOUS
<1>6. [k \in Keys |-> ExistsReply(su, k, Now)] = [k \in Keys |-> ExistsReply(st, k, Now)]
  BY Zenon
<1> QED
  BY <1>1, <1>2, <1>3, <1>4, <1>5, <1>6

\* A change of access times, and of entries that are not live, is invisible.
LEMMA StringsInvisible ==
  ASSUME NEW st \in Stores, NEW su \in Stores, su.hash = st.hash, su.list = st.list,
         \A k \in Keys :
           \/ su.str[k] = st.str[k]
           \/ ~Live(st.str[k], Now) /\ ~Live(su.str[k], Now)
           \/ /\ Live(st.str[k], Now) /\ Live(su.str[k], Now)
              /\ su.str[k].value = st.str[k].value
              /\ su.str[k].expires_at = st.str[k].expires_at
  PROVE  Visible(su) = Visible(st)
<1>1. SUFFICES ASSUME NEW k \in Keys
               PROVE  /\ GetReply(su, k, Now) = GetReply(st, k, Now)
                      /\ TtlSeen(su, k) = TtlSeen(st, k)
                      /\ HGetAllReply(su, k) = HGetAllReply(st, k)
                      /\ ListOf(su, k) = ListOf(st, k)
                      /\ ExistsReply(su, k, Now) = ExistsReply(st, k, Now)
  BY AnswersAreVisible
<1> DEFINE e == st.str[k]
           d == su.str[k]
           bare == IF st.hash[k] # None \/ st.list[k] # None THEN -1 ELSE -2
<1>2. ASSUME NEW s \in Stores, s.hash = st.hash, s.list = st.list
      PROVE  TtlSeen(s, k) = IF Live(s.str[k], Now)
                             THEN IF s.str[k].expires_at = None THEN -1
                                  ELSE (s.str[k].expires_at - Now) \div TicksPerSecond
                             ELSE bare
  <2>4. ASSUME NEW r, r.str[k] = None, r.hash = st.hash, r.list = st.list
        PROVE  TtlReply(r, k, Now) = bare
    <3>1. CASE st.hash[k] # None \/ st.list[k] # None
      <4>1. r.str[k] = None /\ (r.hash[k] # None \/ r.list[k] # None) /\ bare = -1
        BY <2>4, <3>1
      <4> HIDE DEF bare
      <4> QED
        BY <4>1 DEF TtlReply, Expired
    <3>2. CASE st.hash[k] = None /\ st.list[k] = None
      BY <2>4, <3>2 DEF TtlReply
    <3> QED
      BY <3>1, <3>2
  <2>1. CASE Expired(s.str[k], Now)
    <3>1. AfterErase(s, k).str[k] = None /\ AfterErase(s, k).hash = st.hash /\ AfterErase(s, k).list = st.list
      BY <1>2 DEF AfterErase, Stores
    <3>2. TtlReply(AfterErase(s, k), k, Now) = bare
      <4> HIDE DEF AfterErase
      <4> QED
        BY <2>4, <3>1
    <3> QED
      BY <2>1, <3>2 DEF TtlSeen, Live
  <2>2. CASE s.str[k] = None
    <3>1. TtlReply(s, k, Now) = bare
      BY <1>2, <2>2, <2>4
    <3> QED
      BY <2>2, <3>1 DEF TtlSeen, Live, Expired
  <2>3. CASE Live(s.str[k], Now)
    <3>1. s.str[k] # None /\ ~Expired(s.str[k], Now)
      BY <2>3 DEF Live
    <3>2. TtlReply(s, k, Now) = IF s.str[k].expires_at = None THEN -1
                                ELSE (s.str[k].expires_at - Now) \div TicksPerSecond
      BY <3>1 DEF TtlReply
    <3> QED
      BY <2>3, <3>1, <3>2 DEF TtlSeen
  <2> QED
    BY <2>1, <2>2, <2>3 DEF Live
<1>3. TtlSeen(su, k) = IF Live(d, Now) THEN IF d.expires_at = None THEN -1
                                            ELSE (d.expires_at - Now) \div TicksPerSecond
                       ELSE bare
  BY <1>2
<1>4. TtlSeen(st, k) = IF Live(e, Now) THEN IF e.expires_at = None THEN -1
                                            ELSE (e.expires_at - Now) \div TicksPerSecond
                       ELSE bare
  BY <1>2
<1>5. /\ Live(d, Now) <=> Live(e, Now)
      /\ Live(e, Now) => d.value = e.value /\ d.expires_at = e.expires_at
  BY Zenon
<1> HIDE DEF e, d, bare
<1>6. TtlSeen(su, k) = TtlSeen(st, k)
  BY <1>3, <1>4, <1>5
<1>7. GetReply(su, k, Now) = GetReply(st, k, Now)
  BY <1>5 DEF GetReply, e, d
<1>8. HGetAllReply(su, k) = HGetAllReply(st, k)
  BY DEF HGetAllReply, HGetReply
<1>9. ListOf(su, k) = ListOf(st, k)
  BY DEF ListOf
<1>10. ExistsReply(su, k, Now) = ExistsReply(st, k, Now)
  <2>1. Live(su.str[k], Now) <=> Live(st.str[k], Now)
    BY <1>5 DEF e, d
  <2>2. ExistsReply(su, k, Now) <=> ExistsReply(st, k, Now)
    BY <2>1 DEF ExistsReply
  <2> QED
    BY <2>2, Zenon DEF ExistsReply
<1> QED
  BY <1>6, <1>7, <1>8, <1>9, <1>10

\* Taking an entry that is not live is invisible.
LEMMA EraseInvisible ==
  ASSUME NEW st \in Stores, NEW k \in Keys, ~Live(st.str[k], Now)
  PROVE  Visible(AfterErase(st, k)) = Visible(st)
<1>1. /\ AfterErase(st, k) \in Stores
      /\ AfterErase(st, k).hash = st.hash /\ AfterErase(st, k).list = st.list
      /\ \A j \in Keys : AfterErase(st, k).str[j] = IF j = k THEN None ELSE st.str[j]
  BY EraseType DEF AfterErase, Stores
<1>2. ~Live(None, Now)
  BY DEF Live
<1>3. ASSUME NEW j \in Keys
      PROVE  \/ AfterErase(st, k).str[j] = st.str[j]
             \/ ~Live(st.str[j], Now) /\ ~Live(AfterErase(st, k).str[j], Now)
  BY <1>1, <1>2
<1> HIDE DEF AfterErase
<1> QED
  BY <1>1, <1>3, StringsInvisible

\* So is all that get does.
LEMMA GetInvisible ==
  ASSUME NEW st \in Stores, NEW k \in Keys, Now \in Nat
  PROVE  AfterGet(st, k, Now) \in Stores /\ Visible(AfterGet(st, k, Now)) = Visible(st)
<1>1. CASE Expired(st.str[k], Now)
  <2>1. AfterGet(st, k, Now) = AfterErase(st, k) /\ ~Live(st.str[k], Now)
    BY <1>1 DEF AfterGet, Live
  <2> QED
    BY <2>1, EraseType, EraseInvisible
<1>2. CASE ~Expired(st.str[k], Now) /\ st.str[k] = None
  BY <1>2 DEF AfterGet, AfterTouch
<1>3. CASE ~Expired(st.str[k], Now) /\ st.str[k] # None
  <2> DEFINE su == AfterTouch(st, k, Now)
             d  == [st.str[k] EXCEPT !.last_accessed = Now]
  <2>1. AfterGet(st, k, Now) = su
    BY <1>3 DEF AfterGet
  <2>2. st.str[k] \in Entries
    BY <1>3 DEF Stores
  <2>3. d.value = st.str[k].value /\ d.expires_at = st.str[k].expires_at /\ d # None
    BY <2>2, NoneAssumption DEF Entries
  <2>4. Live(st.str[k], Now) /\ Live(d, Now)
    BY <1>3, <2>3 DEF Live, Expired
  <2>5. su \in Stores
    BY TouchType
  <2>6. su.hash = st.hash /\ su.list = st.list /\ \A j \in Keys : su.str[j] = IF j = k THEN d ELSE st.str[j]
    BY <1>3 DEF AfterTouch, Stores
  <2> HIDE DEF su, d
  <2>7. Visible(su) = Visible(st)
    <3>1. ASSUME NEW j \in Keys
          PROVE  \/ su.str[j] = st.str[j]
                 \/ /\ Live(st.str[j], Now) /\ Live(su.str[j], Now)
                    /\ su.str[j].value = st.str[j].value
                    /\ su.str[j].expires_at = st.str[j].expires_at
      BY <2>3, <2>4, <2>6
    <3> QED
      BY <2>5, <2>6, <3>1, StringsInvisible
  <2> QED
    BY <2>1, <2>5, <2>7
<1> QED
  BY <1>1, <1>2, <1>3

\* And all that MGET does.
LEMMA GetAllInvisible ==
  ASSUME NEW st \in Stores, NEW ks \in Seq(Keys), Now \in Nat
  PROVE  Visible(GetAll(st, ks, Now)) = Visible(st)
<1> DEFINE m == Len(ks)
<1>1. PICK h : /\ Chain(h, st, m) /\ h[m] = GetAll(st, ks, Now)
               /\ \A i \in 1 .. m : h[i] = AfterGet(h[i - 1], ks[i], Now)
  BY GetChain
<1>2. m \in Nat /\ \A i \in 1 .. m : ks[i] \in Keys
  OBVIOUS
<1> HIDE DEF m
<1> DEFINE T == {i \in Nat : i <= m => Visible(h[i]) = Visible(st)}
<1>3. 0 \in T
  BY <1>1 DEF Chain
<1>4. ASSUME NEW i \in Nat, i \in T PROVE i + 1 \in T
  <2>1. SUFFICES ASSUME i + 1 <= m PROVE Visible(h[i + 1]) = Visible(st)
    OBVIOUS
  <2>2. /\ Visible(h[i]) = Visible(st)
        /\ i \in 0 .. m /\ i + 1 \in 1 .. m /\ (i + 1) - 1 = i
    BY <1>2, <1>4, <2>1
  <2>3. h[i + 1] = AfterGet(h[i], ks[i + 1], Now) /\ h[i] \in Stores /\ ks[i + 1] \in Keys
    BY <1>1, <1>2, <2>2 DEF Chain
  <2> QED
    BY <2>2, <2>3, GetInvisible
<1> HIDE DEF T
<1>5. m \in T
  BY <1>2, <1>3, <1>4, SetInduction
<1> QED
  BY <1>1, <1>2, <1>5 DEF T

-----------------------------------------------------------------------------
(* What is logged                                                          *)

\* A store as the methods leave it.
Kept(st) == st \in Stores /\ NoEmpties(st) /\ Now \in Nat

\* A command that changes something and is logged as a write.
Told(st, c) ==
  /\ Logged(st, c, Now) /\ Reply(st, c, Now)[1] # "error"
  /\ WriteOps(st, c, Now) > 0 /\ ReadOps(c) = 0

\* The commands that only ask, and get.
LEMMA AskingIsInvisible ==
  ASSUME NEW st, Kept(st), NEW c, Decoded(c),
         c.cmd \in {"error", "DBSIZE", "HGET", "HEXISTS", "LRANGE"} \cup (OnOneKey \ {"LPOP", "RPOP"}) \cup {"MGET"}
  PROVE  Visible(AfterCommand(st, c, Now)) = Visible(st)
<1> DEFINE su == AfterCommand(st, c, Now)
<1>1. st \in Stores /\ Now \in Nat
  BY DEF Kept
<1>2. CASE c.cmd = "GET"
  <2>1. c.key \in Keys
    BY <1>2 DEF Decoded
  <2>2. su = AfterGet(st, c.key, Now)
    BY <1>2 DEF AfterCommand
  <2> QED
    BY <1>1, <2>1, <2>2, GetInvisible
<1>3. CASE c.cmd = "MGET"
  <2>1. c.keys \in Seq(Keys)
    BY <1>3 DEF Decoded, OnOneKey
  <2>2. su = GetAll(st, c.keys, Now)
    BY <1>3 DEF AfterCommand
  <2> QED
    BY <1>1, <2>1, <2>2, GetAllInvisible
<1>4. CASE c.cmd = "TTL"
  <2>1. c.key \in Keys
    BY <1>4 DEF Decoded
  <2>2. su = IF Expired(st.str[c.key], Now) THEN AfterErase(st, c.key) ELSE st
    BY <1>4 DEF AfterCommand
  <2>3. CASE Expired(st.str[c.key], Now)
    BY <1>1, <2>1, <2>2, <2>3, EraseInvisible DEF Live
  <2>4. CASE ~Expired(st.str[c.key], Now)
    BY <2>2, <2>4
  <2> QED
    BY <2>3, <2>4
<1>5. CASE c.cmd \in {"error", "DBSIZE", "HGET", "HEXISTS", "LRANGE", "EXISTS", "HLEN", "HGETALL", "LLEN"}
  <2>1. su = st
    BY <1>5 DEF AfterCommand
  <2> QED
    BY <2>1
<1> QED
  BY <1>2, <1>3, <1>4, <1>5 DEF OnOneKey

\* A command that is not logged has changed nothing.
LEMMA UnloggedIsInvisible ==
  ASSUME NEW st, Kept(st), NEW c, Decoded(c), c.cmd \in WriteCommands, ~Logged(st, c, Now)
  PROVE  Visible(AfterCommand(st, c, Now)) = Visible(st)
<1> DEFINE su == AfterCommand(st, c, Now)
<1>1. st \in Stores /\ Now \in Nat /\ \A k \in Keys : st.hash[k] # NoFields
  BY DEF Kept, NoEmpties
<1>2. CASE c.cmd = "DEL"
  <2>1. c.keys \in Seq(Keys) /\ \A n \in DOMAIN c.keys : ~DelReply(st, c.keys[n])
    BY <1>2 DEF Decoded, OnOneKey, Logged
  <2>2. su = DelAll(st, c.keys)
    BY <1>2 DEF AfterCommand
  <2>3. su = st
    BY <1>1, <2>1, <2>2, DelAllOfNothing
  <2> QED
    BY <2>3
<1>3. CASE c.cmd = "EXPIRE"
  <2>1. c.key \in Keys /\ ~ExpireReply(st, c.key, Now)
    BY <1>3 DEF Decoded, OnOneKey, Logged
  <2>2. ~Live(st.str[c.key], Now)
    BY <2>1 DEF ExpireReply
  <2>3. su = AfterErase(st, c.key)
    BY <1>3, <2>2 DEF AfterCommand, AfterExpire
  <2> QED
    BY <1>1, <2>1, <2>2, <2>3, EraseInvisible
<1>4. CASE c.cmd = "INCRBY"
  <2>1. ~IncrReply(st, c.key, c.delta, Now).ok
    BY <1>4 DEF Logged
  <2>2. su = AfterIncr(st, c.key, c.delta, Now)
    BY <1>4 DEF AfterCommand
  <2>3. su = st
    BY <2>1, <2>2 DEF AfterIncr
  <2> QED
    BY <2>3
<1>5. CASE c.cmd = "HDEL"
  <2>1. c.key \in Keys /\ c.field \in Fields /\ HGetReply(st, c.key, c.field) = None
    BY <1>5 DEF Decoded, OnOneKey, Logged
  <2>2. su = AfterHDel(st, c.key, c.field)
    BY <1>5 DEF AfterCommand
  <2>3. su = st
    BY <1>1, <2>1, <2>2, HDelOfNothing
  <2> QED
    BY <2>3
<1>6. CASE c.cmd = "LPOP"
  <2>1. c.key \in Keys /\ LPopReply(st, c.key) = None
    BY <1>6 DEF Decoded, OnOneKey, Logged
  <2>2. ListOf(st, c.key) = << >>
    BY <1>1, <2>1, PopIsAValue
  <2>3. su = st
    BY <1>6, <2>2 DEF AfterCommand, AfterLPop
  <2> QED
    BY <2>3
<1>7. CASE c.cmd = "RPOP"
  <2>1. c.key \in Keys /\ RPopReply(st, c.key) = None
    BY <1>7 DEF Decoded, OnOneKey, Logged
  <2>2. ListOf(st, c.key) = << >>
    BY <1>1, <2>1, PopIsAValue
  <2>3. su = st
    BY <1>7, <2>2 DEF AfterCommand, AfterRPop
  <2> QED
    BY <2>3
<1> QED
  BY <1>2, <1>3, <1>4, <1>5, <1>6, <1>7 DEF Logged, WriteCommands

\* A command that is logged answers no error and counts as a write.
LEMMA LoggedIsTold ==
  ASSUME NEW st, NEW c, Decoded(c), Logged(st, c, Now)
  PROVE  Told(st, c)
<1>1. c.cmd \in WriteCommands
  BY DEF Logged
<1>2. ReadOps(c) = 0
  BY <1>1 DEF ReadOps, WriteCommands
<1>3. WriteOps(st, c, Now) > 0
  <2>1. CASE c.cmd = "MSET"
    BY <2>1 DEF Decoded, OnOneKey, WriteOps
  <2>2. CASE c.cmd \in {"LPUSH", "RPUSH"}
    BY <2>2 DEF Decoded, OnOneKey, WriteOps
  <2>3. CASE c.cmd = "INCRBY"
    <3>1. IncrReply(st, c.key, c.delta, Now).ok
      BY <2>3 DEF Logged
    <3>2. WriteOps(st, c, Now) = 1
      BY <2>3, <3>1 DEF WriteOps
    <3> QED
      BY <3>2
  <2>4. CASE c.cmd \in WriteCommands \ {"MSET", "LPUSH", "RPUSH", "INCRBY"}
    BY <2>4 DEF WriteOps, WriteCommands
  <2> QED
    BY <1>1, <2>1, <2>2, <2>3, <2>4
<1>4. Reply(st, c, Now)[1] # "error"
  <2>1. CASE c.cmd \in {"SET", "MSET", "FLUSHDB"}
    BY <2>1 DEF Reply, Status
  <2>2. CASE c.cmd = "DEL"
    BY <2>2 DEF Reply, Count
  <2>3. CASE c.cmd = "EXPIRE"
    BY <2>3 DEF Reply, Flag
  <2>4. CASE c.cmd = "INCRBY"
    <3>1. IncrReply(st, c.key, c.delta, Now).ok
      BY <2>4 DEF Logged
    <3> QED
      BY <2>4, <3>1 DEF Reply, Count
  <2>5. CASE c.cmd \in {"HSET", "HDEL"}
    BY <2>5 DEF Reply, Flag
  <2>6. CASE c.cmd \in {"LPUSH", "RPUSH"}
    BY <2>6 DEF Reply, Count
  <2>7. CASE c.cmd = "LPOP"
    BY <2>7 DEF Reply, Bulk
  <2>8. CASE c.cmd = "RPOP"
    BY <2>8 DEF Reply, Bulk
  <2> QED
    BY <1>1, <2>1, <2>2, <2>3, <2>4, <2>5, <2>6, <2>7, <2>8 DEF WriteCommands
<1> QED
  BY <1>2, <1>3, <1>4 DEF Told

\* A command finds a store as the methods leave it.
LEMMA StoreIsKept ==
  ASSUME NEW i \in CommandInputs
  PROVE  Kept(i.store)
BY CommandInputsAssumption DEF Kept, NoEmpties

\* Whatever a command changes is logged and counted as a write and as no
\* read, and a command that answers an error has changed nothing, for every
\* store and all tokens: CommandParser::execute.
THEOREM ChangesLogged == Spec => []ChangesAreLogged
<1>1. Computed => ChangesAreLogged
  <2>1. SUFFICES ASSUME Computed, Executed, Visible(output.after) # Visible(input.store)
                 PROVE  /\ output.logged /\ output.reply[1] # "error"
                        /\ output.writes > 0 /\ output.reads = 0
    BY DEF ChangesAreLogged
  <2> DEFINE c == Decode(input.name, input.args)
             st == input.store
  <2>2. input \in CommandInputs /\ output = CommandResult(input)
    BY <2>1, InputOfFamily DEF Computed, Executed
  <2>3. Decoded(c) /\ Kept(st)
    BY <2>2, DecodedIs, StoreIsKept
  <2>4. /\ output.after = AfterCommand(st, c, Now)
        /\ output.reply = Reply(st, c, Now)
        /\ output.logged = Logged(st, c, Now)
        /\ output.writes = WriteOps(st, c, Now)
        /\ output.reads = ReadOps(c)
    BY <2>2 DEF CommandResult
  <2> HIDE DEF c, st
  <2>5. Visible(AfterCommand(st, c, Now)) # Visible(st)
    BY <2>1, <2>4 DEF st
  <2>6. c.cmd \in WriteCommands
    BY <2>3, <2>5, AskingIsInvisible DEF Decoded, WriteCommands, OnOneKey
  <2>7. Logged(st, c, Now)
    BY <2>3, <2>5, <2>6, UnloggedIsInvisible
  <2>8. Told(st, c)
    BY <2>3, <2>7, LoggedIsTold
  <2>9. output.logged
    BY <2>4, <2>7
  <2> QED
    BY <2>4, <2>8, <2>9 DEF Told
<1> QED
  BY <1>1, AlwaysComputed, PTL

-----------------------------------------------------------------------------
(* What a reply says                                                       *)

\* HLEN counts the fields that are there.
LEMMA HLenIs ==
  ASSUME IsFiniteSet(Fields), NEW st, NEW k
  PROVE  LET There == {f \in Fields : HGetReply(st, k, f) # None} IN
         IsFiniteSet(There) /\ HLenReply(st, k) = Cardinality(There)
<1> DEFINE There == {f \in Fields : HGetReply(st, k, f) # None}
           All   == HGetAllReply(st, k)
           pair  == [f \in There |-> <<f, HGetReply(st, k, f)>>]
<1>1. IsFiniteSet(There)
  BY FS_Subset
<1>2. All = {<<f, HGetReply(st, k, f)>> : f \in There}
  BY DEF HGetAllReply
<1> HIDE DEF There, All
<1>3. pair \in Bijection(There, All)
  <2>1. pair \in [There -> All]
    BY <1>2
  <2>2. \A a, b \in There : pair[a] = pair[b] => a = b
    OBVIOUS
  <2>3. \A p \in All : \E a \in There : pair[a] = p
    BY <1>2
  <2> HIDE DEF pair
  <2> QED
    BY <2>1, <2>2, <2>3 DEF Bijection, Injection, Surjection, IsInjective
<1>4. Cardinality(All) = Cardinality(There)
  <2>1. ExistsBijection(There, All)
    BY <1>3 DEF ExistsBijection
  <2> QED
    BY <1>1, <2>1, FS_Bijection
<1> QED
  BY <1>1, <1>4 DEF HLenReply, There, All

\* A hash that is there has a field, so HLEN is not zero.
LEMMA HLenPositive ==
  ASSUME IsFiniteSet(Fields), NEW st \in Stores, NEW k \in Keys, st.hash[k] # NoFields
  PROVE  HLenReply(st, k) > 0 <=> st.hash[k] # None
<1> DEFINE There == {f \in Fields : HGetReply(st, k, f) # None}
<1>1. IsFiniteSet(There) /\ HLenReply(st, k) = Cardinality(There)
  BY HLenIs
<1>2. There = {} <=> st.hash[k] = None
  <2>1. CASE st.hash[k] = None
    BY <2>1 DEF HGetReply
  <2>2. CASE st.hash[k] # None
    <3>1. st.hash[k] \in Hashes
      BY <2>2 DEF Stores
    <3>2. PICK f \in Fields : st.hash[k][f] # None
      BY <3>1 DEF Hashes, NoFields
    <3> QED
      BY <2>2, <3>2 DEF HGetReply
  <2> QED
    BY <2>1, <2>2
<1> HIDE DEF There
<1>3. Cardinality(There) \in Nat /\ (Cardinality(There) = 0 <=> There = {})
  BY <1>1, FS_CardinalityType, FS_EmptySet
<1> QED
  BY <1>1, <1>2, <1>3

\* A deadline that fits the clock is the one that was asked for.
LEMMA DeadlineIs ==
  ASSUME Now \in Nat, NEW ttl \in Int, ttl > 0, InTime(ttl)
  PROVE  /\ After(Now, ttl) = Now + ttl * TicksPerSecond
         /\ After(Now, ttl) > Now
         /\ (After(Now, ttl) - Now) \div TicksPerSecond = ttl
<1> DEFINE t == ttl * TicksPerSecond
<1>1. ttl # None
  BY NoneAssumption
<1>2. TicksPerSecond \in Nat \ {0} /\ TimeMax \in Nat
  BY RangeAssumption
<1>3. t \in Int /\ t > 0 /\ t \div TicksPerSecond = ttl
  BY <1>2
<1>4. Now + t <= TimeMax
  BY <1>1 DEF InTime
<1> HIDE DEF t
<1>5. WrapTime(Now + t) = Now + t
  <2> DEFINE n == Now + t + TimeMax + 1
             w == 2 * TimeMax + 2
  <2>1. n \in Nat /\ w \in Nat /\ n < w /\ w > 0
    BY <1>2, <1>3, <1>4
  <2>2. WrapTime(Now + t) = (n % w) - TimeMax - 1
    BY DEF WrapTime
  <2> HIDE DEF n, w
  <2>3. n % w = n
    BY <2>1
  <2> QED
    BY <1>2, <1>3, <2>2, <2>3 DEF n
<1>6. After(Now, ttl) = Now + t
  BY <1>5 DEF After, t
<1>7. (Now + t) - Now = t
  BY <1>3
<1> QED
  BY <1>3, <1>6, <1>7 DEF t

\* What get finds after set.
LEMMA SetIsFound ==
  ASSUME NEW st \in Stores, NEW k \in Keys, NEW v \in Values, Now \in Nat,
         NEW ttl \in Int \cup {None}, InTime(ttl)
  PROVE  /\ GetReply(AfterSet(st, k, v, ttl, Now), k, Now) = v
         /\ \A j \in Keys : j # k => AfterSet(st, k, v, ttl, Now).str[j] = st.str[j]
<1> DEFINE e == [value         |-> v,
                 expires_at    |-> IF ttl # None /\ ttl > 0 THEN After(Now, ttl) ELSE None,
                 last_accessed |-> Now]
           su == AfterSet(st, k, v, ttl, Now)
<1>1. su.str = [st.str EXCEPT ![k] = e] /\ st.str \in [Keys -> Entries \cup {None}]
  BY DEF AfterSet, Stores
<1>2. su.str[k] = e /\ \A j \in Keys : j # k => su.str[j] = st.str[j]
  BY <1>1
<1>3. e \in Entries /\ e.value = v
  BY AfterType DEF Entries
<1>4. e # None
  BY <1>3, NoneAssumption
<1>5. e.expires_at = None \/ (e.expires_at \in Int /\ e.expires_at > Now)
  <2>1. CASE ttl # None /\ ttl > 0
    <3>1. e.expires_at = After(Now, ttl)
      BY <2>1
    <3>2. After(Now, ttl) > Now /\ After(Now, ttl) \in Int
      BY <2>1, DeadlineIs, AfterType
    <3> QED
      BY <3>1, <3>2
  <2>2. CASE ~(ttl # None /\ ttl > 0)
    BY <2>2
  <2> QED
    BY <2>1, <2>2
<1> HIDE DEF e, su
<1>6. Live(e, Now)
  BY <1>4, <1>5 DEF Live, Expired
<1>7. GetReply(su, k, Now) = v
  BY <1>2, <1>3, <1>6 DEF GetReply
<1> QED
  BY <1>2, <1>7 DEF su

\* After EXPIRE the key lives as long as was asked for.
LEMMA ExpireIsTold ==
  ASSUME NEW st \in Stores, NEW k \in Keys, NEW ttl \in Int, Now \in Nat,
         Live(st.str[k], Now), ttl > 0, InTime(ttl)
  PROVE  TtlReply(AfterExpire(st, k, ttl, Now), k, Now) = ttl
<1> DEFINE e  == st.str[k]
           d  == [e EXCEPT !.expires_at = After(Now, ttl)]
           su == AfterExpire(st, k, ttl, Now)
<1>1. e \in Entries
  BY DEF Stores, Live
<1>2. su.str[k] = d
  BY DEF AfterExpire, Stores
<1>3. /\ After(Now, ttl) > Now /\ After(Now, ttl) \in Int
      /\ (After(Now, ttl) - Now) \div TicksPerSecond = ttl
  BY DeadlineIs, AfterType
<1>4. d \in Entries /\ d.expires_at = After(Now, ttl)
  BY <1>1, <1>3 DEF Entries
<1>5. d # None /\ d.expires_at # None
  BY <1>3, <1>4, NoneAssumption
<1> HIDE DEF d, su
<1>6. ~Expired(d, Now)
  BY <1>3, <1>4 DEF Expired
<1>7. TtlReply(su, k, Now) = (d.expires_at - Now) \div TicksPerSecond
  <2> DEFINE left == (d.expires_at - Now) \div TicksPerSecond
  <2> HIDE DEF left
  <2>1. TtlReply(su, k, Now) = left
    BY <1>2, <1>5, <1>6 DEF TtlReply, left
  <2> QED
    BY <2>1 DEF left
<1> QED
  BY <1>3, <1>4, <1>7 DEF su

\* What INCRBY answers is what get finds.
LEMMA IncrIsTold ==
  ASSUME NEW st \in Stores, NEW k \in Keys, NEW delta \in Numbers, Now \in Nat,
         IncrReply(st, k, delta, Now).ok
  PROVE  Stoll(GetReply(AfterIncr(st, k, delta, Now), k, Now)) = IncrReply(st, k, delta, Now).val
<1> DEFINE e  == st.str[k]
           n  == IncrReply(st, k, delta, Now).val
           d  == [value         |-> n,
                  expires_at    |-> IF Live(e, Now) THEN e.expires_at ELSE None,
                  last_accessed |-> Now]
           su == AfterIncr(st, k, delta, Now)
<1>1. n \in Numbers /\ Stoll(n) = n
  BY IncrRange, StollAssumption DEF Stoll
<1>2. su.str[k] = d
  BY DEF AfterIncr, Stores
<1>3. Live(e, Now) => e \in Entries /\ ~Expired(e, Now)
  BY DEF Live, Stores
<1>4. d \in Entries /\ d.value = n
  BY <1>1, <1>3 DEF Entries, Values
<1>5. d # None
  BY <1>4, NoneAssumption
<1>6. ~Expired(d, Now)
  <2>1. CASE Live(e, Now)
    <3>1. d.expires_at = e.expires_at /\ e # None
      BY <2>1 DEF Live
    <3> QED
      BY <1>3, <2>1, <3>1 DEF Expired
  <2>2. CASE ~Live(e, Now)
    BY <2>2 DEF Expired
  <2> QED
    BY <2>1, <2>2
<1> HIDE DEF d, su, n
<1>7. GetReply(su, k, Now) = n
  BY <1>2, <1>4, <1>5, <1>6 DEF GetReply, Live
<1> QED
  BY <1>1, <1>7 DEF su, n

\* HSET and HDEL tell by how much HLEN changes.
LEMMA FieldsAreTold ==
  ASSUME IsFiniteSet(Fields), NEW st \in Stores, NEW k \in Keys, NEW f \in Fields, NEW v \in Values,
         NoEmpties(st)
  PROVE  /\ HLenReply(AfterHSet(st, k, f, v), k)
              = HLenReply(st, k) + (IF HGetReply(st, k, f) = None THEN 1 ELSE 0)
         /\ HLenReply(AfterHDel(st, k, f), k)
              = HLenReply(st, k) - (IF HGetReply(st, k, f) # None THEN 1 ELSE 0)
<1> DEFINE There(s) == {g \in Fields : HGetReply(s, k, g) # None}
           su == AfterHSet(st, k, f, v)
           sv == AfterHDel(st, k, f)
           h  == IF st.hash[k] = None THEN NoFields ELSE st.hash[k]
<1>1. /\ IsFiniteSet(There(st)) /\ HLenReply(st, k) = Cardinality(There(st))
      /\ HLenReply(su, k) = Cardinality(There(su))
      /\ HLenReply(sv, k) = Cardinality(There(sv))
  BY HLenIs
<1>2. v # None /\ None # NoFields
  BY NoneIsNoValue, NoneIsNotEmpty
<1>3. h \in Hashes /\ \A g \in Fields : h[g] = HGetReply(st, k, g)
  BY DEF Stores, Hashes, NoFields, HGetReply
<1>4. There(su) = There(st) \cup {f}
  <2>1. su.hash[k] = [h EXCEPT ![f] = v]
    BY DEF AfterHSet, Stores
  <2>2. [h EXCEPT ![f] = v] \in Hashes
    BY <1>3 DEF Hashes
  <2>3. su.hash[k] # None
    BY <2>1, <2>2, NoneAssumption
  <2>4. \A g \in Fields : HGetReply(su, k, g) = IF g = f THEN v ELSE HGetReply(st, k, g)
    BY <1>3, <2>1, <2>3 DEF HGetReply, Hashes
  <2> HIDE DEF su
  <2> QED
    BY <1>2, <2>4
<1>5. There(sv) = There(st) \ {f}
  <2>1. CASE st.hash[k] = None
    BY <2>1 DEF AfterHDel, HGetReply
  <2>2. CASE st.hash[k] # None
    <3> DEFINE h1 == [st.hash[k] EXCEPT ![f] = None]
    <3>1. h1 \in Hashes /\ \A g \in Fields : h1[g] = IF g = f THEN None ELSE HGetReply(st, k, g)
      BY <2>2 DEF Stores, Hashes, HGetReply
    <3>2. sv.hash[k] = IF h1 = NoFields THEN None ELSE h1
      BY <2>2 DEF AfterHDel, Stores
    <3>3. h1 # None
      BY <3>1, NoneAssumption
    <3> HIDE DEF h1, sv
    <3>4. \A g \in Fields : HGetReply(sv, k, g) = h1[g]
      BY <3>2, <3>3 DEF HGetReply, NoFields
    <3> QED
      BY <3>1, <3>4
  <2> QED
    BY <2>1, <2>2
<1> DEFINE A == There(st)
<1>6. f \in A <=> HGetReply(st, k, f) # None
  OBVIOUS
<1>7. /\ Cardinality(A \cup {f}) = IF f \in A THEN Cardinality(A) ELSE Cardinality(A) + 1
      /\ Cardinality(A \ {f}) = IF f \in A THEN Cardinality(A) - 1 ELSE Cardinality(A)
      /\ Cardinality(A) \in Nat
  <2>1. IsFiniteSet(A)
    BY <1>1
  <2> HIDE DEF A
  <2> QED
    BY <2>1, FS_AddElement, FS_RemoveElement, FS_CardinalityType
<1> DEFINE a == Cardinality(A)
<1>8. HLenReply(st, k) = a /\ HLenReply(su, k) = Cardinality(A \cup {f}) /\ HLenReply(sv, k) = Cardinality(A \ {f})
  BY <1>1, <1>4, <1>5
<1> HIDE DEF A, su, sv
<1>9. CASE HGetReply(st, k, f) = None
  BY <1>6, <1>7, <1>8, <1>9 DEF su, sv
<1>10. CASE HGetReply(st, k, f) # None
  BY <1>6, <1>7, <1>8, <1>10 DEF su, sv
<1> QED
  BY <1>9, <1>10

\* A key whose list a pop has emptied is there only as a string or a hash.
LEMMA PopLeavesNothing ==
  ASSUME IsFiniteSet(Fields), NEW st \in Stores, NoEmpties(st), NEW k \in Keys, ListOf(st, k) = << >>
  PROVE  ExistsReply(st, k, Now) <=> GetReply(st, k, Now) # None \/ HLenReply(st, k) > 0
<1>1. st.hash[k] # NoFields /\ st.list[k] # << >>
  BY DEF NoEmpties
<1>2. st.list[k] = None
  BY <1>1 DEF ListOf
<1>3. HLenReply(st, k) > 0 <=> st.hash[k] # None
  BY <1>1, HLenPositive
<1>4. GetReply(st, k, Now) # None <=> Live(st.str[k], Now)
  <2>1. CASE Live(st.str[k], Now)
    <3>1. st.str[k] \in Entries
      BY <2>1 DEF Live, Stores
    <3>2. st.str[k].value # None
      BY <3>1, NoneIsNoValue DEF Entries
    <3> QED
      BY <2>1, <3>2 DEF GetReply
  <2>2. CASE ~Live(st.str[k], Now)
    BY <2>2 DEF GetReply
  <2> QED
    BY <2>1, <2>2
<1> QED
  BY <1>2, <1>3, <1>4 DEF ExistsReply

\* What get finds after MSET is the last value that was given for the key.
LEMMA PairsAreFound ==
  ASSUME NEW st \in Stores, NEW ps \in Seq(Keys \X Values), Now \in Nat, NEW k \in Keys
  PROVE  LET Of == {i \in DOMAIN ps : ps[i][1] = k} IN
         GetReply(SetAll(st, ps, Now), k, Now) = IF Of = {} THEN GetReply(st, k, Now) ELSE ps[Max(Of)][2]
<1> DEFINE m      == Len(ps)
           Of     == {i \in DOMAIN ps : ps[i][1] = k}
           Is(n, s) == /\ (\A i \in 1 .. n : ps[i][1] # k) => GetReply(s, k, Now) = GetReply(st, k, Now)
                       /\ \A i \in 1 .. n : ps[i][1] = k /\ (\A j \in i + 1 .. n : ps[j][1] # k)
                            => GetReply(s, k, Now) = ps[i][2]
<1>1. /\ m \in Nat /\ DOMAIN ps = 1 .. m
      /\ \A i \in 1 .. m : ps[i][1] \in Keys /\ ps[i][2] \in Values
  OBVIOUS
<1>2. PICK h : /\ Chain(h, st, m) /\ h[m] = SetAll(st, ps, Now)
               /\ \A i \in 1 .. m : h[i] = AfterSet(h[i - 1], ps[i][1], ps[i][2], None, Now)
  BY SetChain
<1> HIDE DEF m
<1> DEFINE T == {n \in Nat : n <= m => Is(n, h[n])}
<1>3. 0 \in T
  BY <1>2 DEF Chain
<1>4. ASSUME NEW n \in Nat, n \in T PROVE n + 1 \in T
  <2>1. SUFFICES ASSUME n + 1 <= m PROVE Is(n + 1, h[n + 1])
    OBVIOUS
  <2> DEFINE s  == h[n]
             t  == h[n + 1]
             k1 == ps[n + 1][1]
             v1 == ps[n + 1][2]
  <2>2. n \in 0 .. m /\ n + 1 \in 1 .. m /\ (n + 1) - 1 = n /\ Is(n, s)
    BY <1>1, <1>4, <2>1
  <2>3. t = AfterSet(s, k1, v1, None, Now) /\ s \in Stores /\ k1 \in Keys /\ v1 \in Values
    BY <1>1, <1>2, <2>2 DEF Chain
  <2>4. /\ GetReply(t, k1, Now) = v1
        /\ \A j \in Keys : j # k1 => t.str[j] = s.str[j]
    BY <2>3, SetIsFound DEF InTime
  <2>5. k # k1 => GetReply(t, k, Now) = GetReply(s, k, Now)
    BY <2>4 DEF GetReply
  <2>6. 1 .. n \subseteq 1 .. n + 1 /\ n + 1 \in 1 .. n + 1 /\ \A i \in 1 .. n + 1 : i = n + 1 \/ i \in 1 .. n
    OBVIOUS
  <2> HIDE DEF s, t
  <2>7. (\A i \in 1 .. n + 1 : ps[i][1] # k) => GetReply(t, k, Now) = GetReply(st, k, Now)
    BY <2>2, <2>5, <2>6
  <2>8. ASSUME NEW i \in 1 .. n + 1, ps[i][1] = k, \A j \in i + 1 .. n + 1 : ps[j][1] # k
        PROVE  GetReply(t, k, Now) = ps[i][2]
    <3>1. CASE i = n + 1
      BY <2>4, <2>8, <3>1
    <3>2. CASE i \in 1 .. n
      <4>1. n + 1 \in i + 1 .. n + 1 /\ i + 1 .. n \subseteq i + 1 .. n + 1
        BY <3>2
      <4>2. k # k1 /\ \A j \in i + 1 .. n : ps[j][1] # k
        BY <2>8, <4>1
      <4> QED
        BY <2>2, <2>5, <2>8, <3>2, <4>2
    <3> QED
      BY <2>6, <3>1, <3>2
  <2> QED
    BY <2>7, <2>8 DEF t
<1> HIDE DEF T
<1>5. m \in T
  BY <1>1, <1>3, <1>4, SetInduction
<1>6. Is(m, h[m])
  BY <1>1, <1>5 DEF T
<1>7. CASE Of = {}
  <2>1. \A i \in 1 .. m : ps[i][1] # k
    BY <1>1, <1>7
  <2> QED
    BY <1>2, <1>6, <1>7, <2>1
<1>8. CASE Of # {}
  <2> DEFINE Back == {m - i : i \in Of}
  <2>1. Back \in SUBSET Nat /\ Back # {}
    BY <1>1, <1>8
  <2>2. PICK b \in Back : \A x \in Back : b <= x
    BY <2>1, LeastNumber
  <2>3. PICK i \in Of : b = m - i
    OBVIOUS
  <2>4. i \in 1 .. m /\ ps[i][1] = k /\ Of \in SUBSET Nat
    BY <1>1, <2>3
  <2>5. \A j \in Of : i >= j
    <3>1. SUFFICES ASSUME NEW j \in Of PROVE i >= j
      OBVIOUS
    <3>2. m - j \in Back /\ j \in 1 .. m
      BY <1>1
    <3>3. b <= m - j /\ b = m - i
      BY <2>2, <2>3, <3>2
    <3> HIDE DEF Of, Back
    <3> QED
      BY <1>1, <2>4, <3>2, <3>3
  <2>6. Max(Of) = i
    <3> HIDE DEF Of
    <3> QED
      BY <2>3, <2>4, <2>5, MaxIs
  <2>7. ASSUME NEW j \in i + 1 .. m PROVE ps[j][1] # k
    <3>1. j \in 1 .. m /\ ~(i >= j)
      BY <1>1, <2>4
    <3> QED
      BY <1>1, <2>5, <3>1
  <2> HIDE DEF Of, Back
  <2>8. GetReply(SetAll(st, ps, Now), k, Now) = ps[Max(Of)][2]
    BY <1>2, <1>6, <2>4, <2>6, <2>7
  <2> QED
    BY <1>8, <2>8 DEF Of
<1> QED
  BY <1>7, <1>8

\* DEL leaves none of its keys, and answers no less than it took.
LEMMA KeysAreGone ==
  ASSUME NEW st \in Stores, NEW ks \in Seq(Keys)
  PROVE  LET after == DelAll(st, ks) IN
         /\ \A i \in DOMAIN ks : ~ExistsReply(after, ks[i], Now)
         /\ Cardinality({k \in ToSet(ks) : DelReply(st, k)})
              >= Cardinality({k \in Keys : ExistsReply(st, k, Now) /\ ~ExistsReply(after, k, Now)})
<1> DEFINE after   == DelAll(st, ks)
           Counted == {k \in ToSet(ks) : DelReply(st, k)}
           Gone    == {k \in Keys : ExistsReply(st, k, Now) /\ ~ExistsReply(after, k, Now)}
           n     == Len(ks)
<1>1. n \in Nat /\ DOMAIN ks = 1 .. n /\ ToSet(ks) = {ks[i] : i \in 1 .. n}
  BY DEF ToSet
<1>2. /\ \A i \in 1 .. n : ~DelReply(after, ks[i])
      /\ \A k \in Keys : (\A i \in 1 .. n : ks[i] # k) =>
           after.str[k] = st.str[k] /\ after.hash[k] = st.hash[k] /\ after.list[k] = st.list[k]
  BY DelAllIs
<1>3. ASSUME NEW s, NEW k, ExistsReply(s, k, Now) PROVE DelReply(s, k)
  BY <1>3 DEF ExistsReply, DelReply, Live
<1>4. \A i \in DOMAIN ks : ~ExistsReply(after, ks[i], Now)
  BY <1>1, <1>2, <1>3
<1>5. Gone \subseteq Counted
  <2>1. SUFFICES ASSUME NEW k \in Keys, ExistsReply(st, k, Now), ~ExistsReply(after, k, Now)
                 PROVE  k \in ToSet(ks) /\ DelReply(st, k)
    OBVIOUS
  <2>2. ASSUME \A i \in 1 .. n : ks[i] # k PROVE FALSE
    <3>1. after.str[k] = st.str[k] /\ after.hash[k] = st.hash[k] /\ after.list[k] = st.list[k]
      BY <1>2, <2>2
    <3> QED
      BY <2>1, <3>1 DEF ExistsReply
  <2> QED
    BY <1>1, <1>3, <2>1, <2>2
<1>6. IsFiniteSet(ToSet(ks))
  <2> HIDE DEF n
  <2> DEFINE at == [i \in 1 .. n |-> ks[i]]
  <2>1. at \in Surjection(1 .. n, ToSet(ks))
    BY <1>1 DEF Surjection
  <2>2. IsFiniteSet(1 .. n)
    BY <1>1, FS_Interval
  <2> HIDE DEF at
  <2> QED
    BY <2>1, <2>2, FS_Surjection
<1>7. IsFiniteSet(Counted)
  BY <1>6, FS_Subset
<1> HIDE DEF Counted, Gone, after
<1>8. Cardinality(Gone) <= Cardinality(Counted) /\ Cardinality(Gone) \in Nat /\ Cardinality(Counted) \in Nat
  BY <1>5, <1>7, FS_Subset, FS_CardinalityType
<1>9. Cardinality(Counted) >= Cardinality(Gone)
  BY <1>8
<1> QED
  BY <1>4, <1>9 DEF Counted, Gone, after

\* A client that believes the replies is right about the store.
LEMMA RepliesKeep ==
  ASSUME IsFiniteSet(Fields), NEW st, Kept(st), NEW c, Decoded(c)
  PROVE  Keeps(st, c, Reply(st, c, Now), AfterCommand(st, c, Now))
<1> DEFINE after == AfterCommand(st, c, Now)
           r     == Reply(st, c, Now)
<1>1. st \in Stores /\ NoEmpties(st) /\ Now \in Nat
  BY DEF Kept
<1>2. Numbers \subseteq Int
  BY RangeAssumption DEF Numbers
<1>3. CASE c.cmd = "SET"
  <2>1. c.key \in Keys /\ c.val \in Values /\ c.ttl \in Int \cup {None}
    BY <1>2, <1>3 DEF Decoded, OnOneKey
  <2>2. after = AfterSet(st, c.key, c.val, c.ttl, Now)
    BY <1>3 DEF AfterCommand
  <2> HIDE DEF after, r
  <2>3. ASSUME InTime(c.ttl) PROVE GetReply(after, c.key, Now) = c.val
    <3>1. GetReply(AfterSet(st, c.key, c.val, c.ttl, Now), c.key, Now) = c.val
      BY <1>1, <2>1, <2>3, SetIsFound
    <3> QED
      BY <2>2, <3>1
  <2>4. Keeps(st, c, r, after)
    BY <1>3, <2>3 DEF Keeps
  <2> QED
    BY <2>4 DEF r, after
<1>4. CASE c.cmd = "MSET"
  <2>1. c.pairs \in Seq(Keys \X Values)
    BY <1>4 DEF Decoded, OnOneKey
  <2>2. after = SetAll(st, c.pairs, Now)
    BY <1>4 DEF AfterCommand
  <2>3. ASSUME NEW k \in Keys
        PROVE  LET Of == {i \in DOMAIN c.pairs : c.pairs[i][1] = k} IN
               GetReply(after, k, Now) = IF Of = {} THEN GetReply(st, k, Now) ELSE c.pairs[Max(Of)][2]
    <3> DEFINE ps == c.pairs
    <3> HIDE DEF ps, after
    <3>1. ps \in Seq(Keys \X Values) /\ after = SetAll(st, ps, Now)
      BY <2>1, <2>2 DEF ps
    <3>2. LET Of == {i \in DOMAIN ps : ps[i][1] = k} IN
          GetReply(after, k, Now) = IF Of = {} THEN GetReply(st, k, Now) ELSE ps[Max(Of)][2]
      BY <1>1, <3>1, PairsAreFound
    <3> QED
      BY <3>2 DEF ps
  <2> HIDE DEF after, r
  <2>4. Keeps(st, c, r, after)
    BY <1>4, <2>3 DEF Keeps
  <2> QED
    BY <2>4 DEF r, after
<1>5. CASE c.cmd = "DEL"
  <2>1. c.keys \in Seq(Keys)
    BY <1>5 DEF Decoded, OnOneKey
  <2>2. after = DelAll(st, c.keys)
    BY <1>5 DEF AfterCommand
  <2>3. r[2] = Cardinality({k \in ToSet(c.keys) : DelReply(st, k)})
    BY <1>5 DEF Reply, Count
  <2> HIDE DEF after, r
  <2>4. /\ \A i \in DOMAIN c.keys : ~ExistsReply(after, c.keys[i], Now)
        /\ Cardinality({k \in ToSet(c.keys) : DelReply(st, k)})
             >= Cardinality({k \in Keys : ExistsReply(st, k, Now) /\ ~ExistsReply(after, k, Now)})
    BY <1>1, <2>1, <2>2, KeysAreGone
  <2>5. r[2] >= Cardinality({k \in Keys : ExistsReply(st, k, Now) /\ ~ExistsReply(after, k, Now)})
    BY <2>3, <2>4
  <2>6. Keeps(st, c, r, after)
    BY <1>5, <2>4, <2>5 DEF Keeps
  <2> QED
    BY <2>6 DEF r, after
<1>6. CASE c.cmd = "EXPIRE"
  <2>1. c.key \in Keys /\ c.ttl \in Int
    BY <1>2, <1>6 DEF Decoded, OnOneKey
  <2>2. after = AfterExpire(st, c.key, c.ttl, Now) /\ r = Flag(ExpireReply(st, c.key, Now))
    BY <1>6 DEF AfterCommand, Reply
  <2>3. r[2] = 1 => Live(st.str[c.key], Now)
    BY <2>2 DEF Flag, ExpireReply
  <2>4. r[2] = 1 /\ c.ttl > 0 /\ InTime(c.ttl) => TtlReply(after, c.key, Now) = c.ttl
    BY <1>1, <2>1, <2>2, <2>3, ExpireIsTold
  <2> HIDE DEF after, r
  <2>5. Keeps(st, c, r, after)
    BY <1>6, <2>4 DEF Keeps
  <2> QED
    BY <2>5 DEF r, after
<1>7. CASE c.cmd = "INCRBY"
  <2> DEFINE i == IncrReply(st, c.key, c.delta, Now)
  <2>1. c.key \in Keys /\ c.delta \in Numbers
    BY <1>7 DEF Decoded, OnOneKey
  <2>2. after = AfterIncr(st, c.key, c.delta, Now) /\ r = IF i.ok THEN Count(i.val) ELSE Failure("integer")
    BY <1>7 DEF AfterCommand, Reply
  <2>3. r[1] = "int" => i.ok /\ r[2] = i.val
    BY <2>2 DEF Count, Failure
  <2>4. i.ok => Stoll(GetReply(after, c.key, Now)) = i.val
    BY <1>1, <2>1, <2>2, IncrIsTold
  <2> HIDE DEF after, r, i
  <2>5. Keeps(st, c, r, after)
    BY <1>7, <2>3, <2>4 DEF Keeps
  <2> QED
    BY <2>5 DEF r, after
<1>8. CASE c.cmd = "HSET"
  <2>1. c.key \in Keys /\ c.field \in Fields /\ c.val \in Values
    BY <1>8 DEF Decoded, OnOneKey
  <2>2. after = AfterHSet(st, c.key, c.field, c.val) /\ r = Flag(HGetReply(st, c.key, c.field) = None)
    BY <1>8 DEF AfterCommand, Reply
  <2>3. r[2] = IF HGetReply(st, c.key, c.field) = None THEN 1 ELSE 0
    BY <2>2 DEF Flag
  <2>4. HLenReply(after, c.key) = HLenReply(st, c.key) + (IF HGetReply(st, c.key, c.field) = None THEN 1 ELSE 0)
    BY <1>1, <2>1, <2>2, FieldsAreTold
  <2> HIDE DEF after, r
  <2>5. Keeps(st, c, r, after)
    BY <1>8, <2>3, <2>4 DEF Keeps
  <2> QED
    BY <2>5 DEF r, after
<1>9. CASE c.cmd = "HDEL"
  <2>1. c.key \in Keys /\ c.field \in Fields
    BY <1>9 DEF Decoded, OnOneKey
  <2>2. after = AfterHDel(st, c.key, c.field) /\ r = Flag(HGetReply(st, c.key, c.field) # None)
    BY <1>9 DEF AfterCommand, Reply
  <2>3. r[2] = IF HGetReply(st, c.key, c.field) # None THEN 1 ELSE 0
    BY <2>2 DEF Flag
  <2>4. PICK v : v \in Values
    BY RangeAssumption DEF Values, Numbers
  <2>5. HLenReply(after, c.key) = HLenReply(st, c.key) - (IF HGetReply(st, c.key, c.field) # None THEN 1 ELSE 0)
    BY <1>1, <2>1, <2>2, <2>4, FieldsAreTold
  <2> HIDE DEF after, r
  <2>6. Keeps(st, c, r, after)
    BY <1>9, <2>3, <2>5 DEF Keeps
  <2> QED
    BY <2>6 DEF r, after
<1>10. CASE c.cmd \in {"LPUSH", "RPUSH"}
  <2>1. c.key \in Keys /\ c.vals \in Seq(Values)
    BY <1>10 DEF Decoded, OnOneKey
  <2>2. /\ c.cmd = "LPUSH" => after = LPushAll(st, c.key, c.vals)
        /\ c.cmd = "RPUSH" => after = RPushAll(st, c.key, c.vals)
    BY DEF AfterCommand
  <2>3. r[2] = Len(ListOf(st, c.key)) + Len(c.vals)
    BY <1>10 DEF Reply, Count
  <2>4. /\ Len(ListOf(LPushAll(st, c.key, c.vals), c.key)) = Len(ListOf(st, c.key)) + Len(c.vals)
        /\ Len(ListOf(RPushAll(st, c.key, c.vals), c.key)) = Len(ListOf(st, c.key)) + Len(c.vals)
    BY <1>1, <2>1, PushAllLength
  <2> HIDE DEF after, r
  <2>5. Len(ListOf(after, c.key)) = r[2]
    BY <1>10, <2>2, <2>3, <2>4
  <2>6. Keeps(st, c, r, after)
    BY <1>10, <2>5 DEF Keeps
  <2> QED
    BY <2>6 DEF r, after
<1>11. CASE c.cmd \in {"LPOP", "RPOP"}
  <2>1. c.key \in Keys
    BY <1>11 DEF Decoded, OnOneKey
  <2>2. /\ c.cmd = "LPOP" => after = AfterLPop(st, c.key) /\ r = Bulk(LPopReply(st, c.key))
        /\ c.cmd = "RPOP" => after = AfterRPop(st, c.key) /\ r = Bulk(RPopReply(st, c.key))
    BY DEF AfterCommand, Reply
  <2> HIDE DEF after, r
  <2>3. r[1] = "null" <=> ListOf(st, c.key) = << >>
    <3>1. \A v : Bulk(v)[1] = "null" <=> v = None
      BY DEF Bulk
    <3>2. /\ LPopReply(st, c.key) = None <=> ListOf(st, c.key) = << >>
          /\ RPopReply(st, c.key) = None <=> ListOf(st, c.key) = << >>
      BY <1>1, <2>1, PopIsAValue
    <3> QED
      BY <1>11, <2>2, <3>1, <3>2
  <2>4. after \in Stores /\ NoEmpties(after)
    BY <1>1, <1>11, <2>1, <2>2, PopType
  <2>5. ListOf(after, c.key) = << >> =>
          (ExistsReply(after, c.key, Now) <=> GetReply(after, c.key, Now) # None \/ HLenReply(after, c.key) > 0)
    BY <2>1, <2>4, PopLeavesNothing
  <2>6. Keeps(st, c, r, after)
    BY <1>11, <2>3, <2>5 DEF Keeps
  <2> QED
    BY <2>6 DEF r, after
<1>12. CASE c.cmd = "FLUSHDB"
  <2>1. after = EmptyStore
    BY <1>12 DEF AfterCommand
  <2>2. /\ {k \in Keys : Live(after.str[k], Now)} = {}
        /\ {k \in Keys : after.hash[k] # None} = {}
        /\ {k \in Keys : after.list[k] # None} = {}
    BY <2>1 DEF EmptyStore, Live
  <2> HIDE DEF after
  <2>3. DbSize(after, Now) = 0
    BY <2>2, FS_EmptySet DEF DbSize
  <2>4. Keeps(st, c, r, after)
    BY <1>12, <2>3 DEF Keeps
  <2> QED
    BY <2>4 DEF after
<1>13. CASE c.cmd \notin WriteCommands
  <2>1. Visible(after) = Visible(st)
    BY <1>13, AskingIsInvisible DEF Decoded, WriteCommands, OnOneKey
  <2> HIDE DEF after, r
  <2>2. Keeps(st, c, r, after)
    BY <1>13, <2>1 DEF Keeps, WriteCommands
  <2> QED
    BY <2>2 DEF r, after
<1> QED
  BY <1>3, <1>4, <1>5, <1>6, <1>7, <1>8, <1>9, <1>10, <1>11, <1>12, <1>13 DEF WriteCommands

\* What a reply says is what later commands find, for every store, all tokens
\* and any number of keys: SET, MSET, DEL, EXPIRE, the counters, hashes,
\* lists and FLUSHDB of CommandParser::execute.
THEOREM RepliesTrue == ASSUME IsFiniteSet(Fields) PROVE Spec => []RepliesAreTrue
<1>1. Computed => RepliesAreTrue
  <2>1. SUFFICES ASSUME Computed, Executed
                 PROVE  Keeps(input.store, output.command, output.reply, output.after)
    BY DEF RepliesAreTrue
  <2> DEFINE c  == Decode(input.name, input.args)
             st == input.store
  <2>2. input \in CommandInputs /\ output = CommandResult(input)
    BY <2>1, InputOfFamily DEF Computed, Executed
  <2>3. Decoded(c) /\ Kept(st)
    BY <2>2, DecodedIs, StoreIsKept
  <2>4. output.command = c /\ output.after = AfterCommand(st, c, Now) /\ output.reply = Reply(st, c, Now)
    BY <2>2 DEF CommandResult
  <2> HIDE DEF c, st
  <2>5. Keeps(st, c, Reply(st, c, Now), AfterCommand(st, c, Now))
    BY <2>3, RepliesKeep
  <2> QED
    BY <2>4, <2>5 DEF st
<1> QED
  BY <1>1, AlwaysComputed, PTL

-----------------------------------------------------------------------------
(* Characters and lines                                                    *)

\* A mark is no number, no other mark, and there is Nothing that is a symbol.
LEMMA MarksAre ==
  /\ {Star, Dollar, Plus, Minus, Colon, CR, LF, Blank, Quote, Tick} \subseteq Symbols
  /\ \A n \in NumberSymbols :
       n \notin {Star, Dollar, Plus, Minus, Colon, CR, LF, Blank, Quote, Tick} /\ n \in Symbols /\ n \in Int
  /\ Star \notin {Dollar, Plus, Minus, Colon, CR, LF, Blank, Quote, Tick}
  /\ Dollar \notin {Plus, Minus, Colon, CR, LF, Blank, Quote, Tick}
  /\ Plus \notin {Minus, Colon, CR, LF, Blank, Quote, Tick}
  /\ Minus \notin {Colon, CR, LF, Blank, Quote, Tick}
  /\ Colon \notin {CR, LF, Blank, Quote, Tick}
  /\ CR \notin {LF, Blank, Quote, Tick}
  /\ LF \notin {Blank, Quote, Tick}
  /\ Blank \notin {Quote, Tick}
  /\ Quote # Tick
  /\ Nothing \notin Symbols /\ Nothing \notin Text
<1>1. /\ Marks[1] = Star /\ Marks[2] = Dollar /\ Marks[3] = Plus /\ Marks[4] = Minus
      /\ Marks[5] = Colon /\ Marks[6] = CR /\ Marks[7] = LF /\ Marks[8] = Blank
      /\ Marks[9] = Quote /\ Marks[10] = Tick
      /\ DOMAIN Marks = 1 .. 10
  BY DEF Marks
<1> HIDE DEF Marks
<1>2. \A i \in 1 .. 10 : Marks[i] \in Range(Marks)
  BY <1>1 DEF Range
<1>3. /\ 1 \in 1 .. 10 /\ 2 \in 1 .. 10 /\ 3 \in 1 .. 10 /\ 4 \in 1 .. 10 /\ 5 \in 1 .. 10
      /\ 6 \in 1 .. 10 /\ 7 \in 1 .. 10 /\ 8 \in 1 .. 10 /\ 9 \in 1 .. 10 /\ 10 \in 1 .. 10
  OBVIOUS
<1>4. {Star, Dollar, Plus, Minus, Colon, CR, LF, Blank, Quote, Tick} \subseteq Range(Marks)
  BY <1>1, <1>2, <1>3
<1>5. \A i, j \in 1 .. 10 : i # j => Marks[i] # Marks[j]
  BY SymbolsAssumption
<1>6. /\ Star \notin {Dollar, Plus, Minus, Colon, CR, LF, Blank, Quote, Tick}
      /\ Dollar \notin {Plus, Minus, Colon, CR, LF, Blank, Quote, Tick}
      /\ Plus \notin {Minus, Colon, CR, LF, Blank, Quote, Tick}
      /\ Minus \notin {Colon, CR, LF, Blank, Quote, Tick}
      /\ Colon \notin {CR, LF, Blank, Quote, Tick}
      /\ CR \notin {LF, Blank, Quote, Tick}
      /\ LF \notin {Blank, Quote, Tick}
      /\ Blank \notin {Quote, Tick}
      /\ Quote # Tick
  BY <1>1, <1>3, <1>5
<1>7. /\ Range(Marks) \cap NumberSymbols = {}
      /\ Range(Marks) \subseteq Symbols /\ NumberSymbols \subseteq Symbols
      /\ NumberSymbols \subseteq Int
  BY SymbolsAssumption, RespAssumption DEF Symbols
<1>8. Nothing \notin Symbols /\ Nothing \notin Text
  BY RespAssumption
<1> QED
  BY <1>4, <1>6, <1>7, <1>8

\* What NextCrLf finds is the first CRLF.
LEMMA NextCrLfIs ==
  ASSUME NEW s, Len(s) \in Nat, NEW p \in Nat, HasCrLf(s, p)
  PROVE  LET q == NextCrLf(s, p) IN
         /\ q \in p .. Len(s) - 2 /\ At(s, q) = CR /\ At(s, q + 1) = LF
         /\ \A r \in p .. Len(s) - 2 : At(s, r) = CR /\ At(s, r + 1) = LF => q <= r
<1> DEFINE C == CrLfs(s, p)
<1>1. C \subseteq Nat /\ C # {}
  BY DEF CrLfs, HasCrLf
<1>2. \E q \in C : \A r \in C : q <= r
  <2> HIDE DEF C
  <2> QED
    BY <1>1, LeastNumber
<1>3. NextCrLf(s, p) \in C /\ \A r \in C : NextCrLf(s, p) <= r
  BY <1>2 DEF NextCrLf
<1> QED
  BY <1>3 DEF CrLfs

\* And it is found where it is.
LEMMA CrLfFound ==
  ASSUME NEW s, Len(s) \in Nat, NEW p \in Nat, NEW q \in p .. Len(s) - 2,
         At(s, q) = CR, At(s, q + 1) = LF,
         \A r \in p .. q - 1 : ~(At(s, r) = CR /\ At(s, r + 1) = LF)
  PROVE  HasCrLf(s, p) /\ NextCrLf(s, p) = q
<1>1. q \in CrLfs(s, p)
  BY DEF CrLfs
<1>2. HasCrLf(s, p)
  BY <1>1 DEF HasCrLf
<1> DEFINE n == NextCrLf(s, p)
<1>3. /\ n \in p .. Len(s) - 2 /\ At(s, n) = CR /\ At(s, n + 1) = LF
      /\ n <= q
  BY <1>2, NextCrLfIs
<1> HIDE DEF n
<1>4. n \notin p .. q - 1
  BY <1>3
<1>5. n = q
  BY <1>3, <1>4
<1> QED
  BY <1>2, <1>5 DEF n

\* A number in a line is one of the numbers.
LEMMA NumberInIs ==
  ASSUME NEW s, NumberIn(s) # Nothing
  PROVE  NumberIn(s) \in NumberSymbols
BY DEF NumberIn

LEMMA NumberLineIs ==
  ASSUME NEW s, NEW p, NumberLine(s, p) # Nothing
  PROVE  HasCrLf(s, p) /\ NumberLine(s, p) \in NumberSymbols /\ NumberLine(s, p) \in Int
<1>1. HasCrLf(s, p) /\ NumberLine(s, p) = NumberIn(SubSeq(s, p + 1, NextCrLf(s, p)))
  BY DEF NumberLine
<1> QED
  BY <1>1, NumberInIs, MarksAre

-----------------------------------------------------------------------------
(* The elements of an array                                                *)

\* What the reader of an array keeps between two elements.
Scans == [ok : BOOLEAN, at : Int, tokens : Seq(Text)]

\* The part of a sequence from one place to another.
LEMMA PartIs ==
  ASSUME NEW S, NEW s \in Seq(S), NEW a \in Nat \ {0}, NEW b \in Int, b <= Len(s)
  PROVE  /\ SubSeq(s, a, b) \in Seq(S)
         /\ Len(SubSeq(s, a, b)) = IF a <= b + 1 THEN b + 1 - a ELSE 0
         /\ \A i \in 1 .. Len(SubSeq(s, a, b)) : SubSeq(s, a, b)[i] = s[a + i - 1]
<1> DEFINE n == IF a <= b + 1 THEN b + 1 - a ELSE 0
           t == SubSeq(s, a, b)
<1>1. Len(s) \in Nat /\ \A i \in 1 .. Len(s) : s[i] \in S
  OBVIOUS
<1>2. n \in Nat /\ \A i \in 1 .. n : a + i - 1 \in 1 .. Len(s)
  BY <1>1
<1>3. t = [i \in 1 .. n |-> s[a + i - 1]]
  BY <1>1
<1>4. t \in Seq(S) /\ Len(t) = n
  <2> HIDE DEF n, t
  <2> DEFINE u == [i \in 1 .. n |-> s[a + i - 1]]
  <2>1. u \in [1 .. n -> S]
    BY <1>1, <1>2
  <2> HIDE DEF u
  <2>2. u \in Seq(S) /\ Len(u) = n
    BY <1>2, <2>1
  <2> QED
    BY <1>3, <2>2 DEF u
<1> HIDE DEF n
<1>5. \A i \in 1 .. Len(t) : t[i] = s[a + i - 1]
  BY <1>3, <1>4
<1> QED
  BY <1>4, <1>5 DEF n

LEMMA PartIsText ==
  ASSUME NEW s \in Text, NEW a \in Nat \ {0}, NEW b \in Int, b <= Len(s)
  PROVE  /\ SubSeq(s, a, b) \in Text
         /\ Len(SubSeq(s, a, b)) = IF a <= b + 1 THEN b + 1 - a ELSE 0
         /\ \A i \in 1 .. Len(SubSeq(s, a, b)) : SubSeq(s, a, b)[i] = s[a + i - 1]
BY PartIs DEF Text

\* One element leaves the reader in the text, whatever length it has, with
\* at most one token more.
LEMMA ElementIs ==
  ASSUME NEW s \in Text, NEW scan \in Scans
  PROVE  /\ Element(s, scan) \in Scans
         /\ Len(Element(s, scan).tokens) <= Len(scan.tokens) + 1
         /\ /\ scan.at \in 0 .. Len(s)
            /\ \A n \in NumberSymbols : Len(s) + n <= SizeMax /\ Len(s) - n <= SizeMax
            => Element(s, scan).at \in 0 .. Len(s)
<1> DEFINE at    == scan.at
           len   == IF At(s, at) = Dollar THEN NumberLine(s, at + 1) ELSE Nothing
           start == NextCrLf(s, at + 1) + 2
           end   == start + len
           token == SubSeq(s, start + 1, IF len < 0 \/ end > Len(s) THEN Len(s) ELSE end)
           after == IF At(s, end) = CR /\ At(s, end + 1) = LF THEN end + 2 ELSE end
           stop  == ~scan.ok \/ len = Nothing \/ Beyond(start, len, Len(s))
<1>1. Element(s, scan) = IF stop THEN [scan EXCEPT !.ok = FALSE]
                         ELSE [ok |-> TRUE, at |-> after, tokens |-> Append(scan.tokens, token)]
  BY DEF Element
<1>2. Len(s) \in Nat /\ at \in Int /\ scan.tokens \in Seq(Text)
  BY DEF Text, Scans
<1>3. CASE stop
  <2>1. Element(s, scan) = [scan EXCEPT !.ok = FALSE]
    BY <1>1, <1>3
  <2>2. [scan EXCEPT !.ok = FALSE] \in Scans
    BY DEF Scans
  <2> QED
    BY <1>2, <2>1, <2>2 DEF Scans
<1>4. CASE ~stop
  <2>1. At(s, at) = Dollar /\ len # Nothing /\ ~Beyond(start, len, Len(s))
    BY <1>4
  <2>2. at \in Nat
    BY <1>2, <2>1, MarksAre DEF At
  <2>3. HasCrLf(s, at + 1) /\ len \in NumberSymbols /\ len \in Int
    BY <2>1, NumberLineIs
  <2>4. start \in Nat /\ start >= 3 /\ start <= Len(s)
    <3> DEFINE q == NextCrLf(s, at + 1)
    <3>1. q \in at + 1 .. Len(s) - 2
      BY <1>2, <2>2, <2>3, NextCrLfIs
    <3> HIDE DEF q
    <3> QED
      BY <1>2, <2>2, <3>1 DEF q
  <2> HIDE DEF start, len, stop, at
  <2>5. end \in Int /\ after \in Int
    BY <2>3, <2>4
  <2>6. token \in Text
    <3> DEFINE a == start + 1
               b == IF len < 0 \/ end > Len(s) THEN Len(s) ELSE end
    <3>1. a \in Nat \ {0} /\ b \in Int /\ b <= Len(s)
      BY <1>2, <2>3, <2>4, <2>5
    <3> HIDE DEF a, b
    <3>2. SubSeq(s, a, b) \in Text
      BY <3>1, PartIsText
    <3> QED
      BY <3>2 DEF a, b
  <2>7. ASSUME \A n \in NumberSymbols : Len(s) + n <= SizeMax /\ Len(s) - n <= SizeMax
        PROVE  after \in 0 .. Len(s)
    <3>1. Len(s) + len <= SizeMax /\ Len(s) - len <= SizeMax /\ SizeMax \in Nat
      BY <2>3, <2>7, RespAssumption
    <3>2. end % (SizeMax + 1) <= Len(s)
      BY <1>2, <2>1, <2>3, <2>4, <3>1 DEF Beyond
    <3>3. end >= 0
      <4>1. SUFFICES ASSUME end < 0 PROVE FALSE
        BY <2>5
      <4> DEFINE w == SizeMax + 1
      <4>2. end + w >= 0 /\ end + w < w /\ end + w > Len(s) /\ w \in Nat /\ w > 0
        BY <1>2, <2>3, <2>4, <3>1, <4>1
      <4> HIDE DEF end, w
      <4>3. end % w = end + w
        BY <2>5, <4>2
      <4> QED
        BY <1>2, <3>2, <4>2, <4>3, <2>5 DEF w
    <3>4. end <= Len(s)
      <4> DEFINE w == SizeMax + 1
      <4>1. end < w /\ w \in Nat
        BY <1>2, <2>3, <2>4, <3>1
      <4> HIDE DEF end, w
      <4>2. end % w = end
        BY <2>5, <3>3, <4>1
      <4> QED
        BY <3>2, <4>2 DEF w
    <3> HIDE DEF end
    <3>5. At(s, end + 1) = LF => end + 1 <= Len(s) - 1
      BY <1>2, <2>5, MarksAre DEF At
    <3> QED
      BY <1>2, <2>5, <3>3, <3>4, <3>5
  <2>8. Element(s, scan) = [ok |-> TRUE, at |-> after, tokens |-> Append(scan.tokens, token)]
    BY <1>1, <1>4
  <2> HIDE DEF after, token
  <2>9. Append(scan.tokens, token) \in Seq(Text) /\ Len(Append(scan.tokens, token)) = Len(scan.tokens) + 1
    BY <1>2, <2>6
  <2> QED
    BY <1>2, <2>5, <2>7, <2>8, <2>9 DEF Scans
<1> QED
  BY <1>3, <1>4

\* The reader of an array goes through its elements one by one.
LEMMA ElementChain ==
  ASSUME NEW s \in Text, NumberLine(s, 1) # Nothing
  PROVE  LET count == NumberLine(s, 1)
             m     == IF count < 0 THEN 0 ELSE count
         IN /\ count \in Int /\ m \in Nat
            /\ \E h : /\ h \in [0 .. m -> Scans]
                      /\ h[0] = [ok |-> TRUE, at |-> NextCrLf(s, 1) + 2, tokens |-> << >>]
                      /\ \A i \in 1 .. m : h[i] = Element(s, h[i - 1])
                      /\ h[m] = ArrayScan(s)
<1> DEFINE count == NumberLine(s, 1)
           m == IF count < 0 THEN 0 ELSE count
           st == [ok |-> TRUE, at |-> NextCrLf(s, 1) + 2, tokens |-> << >>]
           F == [i \in 1 .. m |-> [x \in Scans |-> Element(s, x)]]
           is == [i \in 1 .. count |-> i]
           Eqn(g) == g = [x \in SUBSET DOMAIN is |->
                            IF x = {} THEN st ELSE Element(s, g[x \ {Max(x)}])]
           it == CHOOSE g : Eqn(g)
<1>1. ArrayScan(s) = it[DOMAIN is]
  BY DEF ArrayScan, FoldLeft, MapThenFoldSet
<1>2. count \in Int /\ HasCrLf(s, 1)
  BY NumberLineIs
<1> HIDE DEF count
<1>3. m \in Nat /\ DOMAIN is = 1 .. m
  BY <1>2
<1>4. st \in Scans
  <2>1. NextCrLf(s, 1) \in 1 .. Len(s) - 2 /\ Len(s) \in Nat
    BY <1>2, NextCrLfIs DEF Text
  <2> DEFINE q == NextCrLf(s, 1)
  <2>2. q + 2 \in Int
    BY <2>1
  <2> HIDE DEF q
  <2> QED
    BY <2>2 DEF Scans, q
<1>5. F \in [1 .. m -> [Scans -> Scans]]
  BY ElementIs
<1>6. PICK g : Folding(g, Scans, st, m, F)
  <2> HIDE DEF F, m, st
  <2> QED
    BY <1>3, <1>4, <1>5, FoldExists
<1> HIDE DEF st, is
<1>7. Eqn(g)
  <2>1. \A x \in (SUBSET (1 .. m)) \ {{}} : g[x] = Element(s, g[x \ {Max(x)}])
    <3>1. ASSUME NEW x \in (SUBSET (1 .. m)) \ {{}} PROVE g[x] = Element(s, g[x \ {Max(x)}])
      <4>1. Max(x) \in 1 .. m /\ g[x] = F[Max(x)][g[x \ {Max(x)}]]
        BY <1>6 DEF Folding
      <4>2. x \ {Max(x)} \in SUBSET (1 .. m)
        OBVIOUS
      <4>3. g[x \ {Max(x)}] \in Scans
        BY <1>6, <4>2 DEF Folding
      <4> HIDE DEF m
      <4> QED
        BY <4>1, <4>3
    <3> QED
      BY <3>1
  <2>2. g \in [SUBSET DOMAIN is -> Scans] /\ g[{}] = st
    BY <1>3, <1>6 DEF Folding
  <2> HIDE DEF m
  <2> QED
    BY <1>3, <2>1, <2>2
<1>8. Eqn(it)
  <2> HIDE DEF Eqn
  <2> QED
    BY <1>7
<1> HIDE DEF it
<1>9. it[{}] = st
  BY <1>3, <1>8
<1> HIDE DEF m
<1>10. ASSUME NEW x \in (SUBSET (1 .. m)) \ {{}}, it[x \ {Max(x)}] \in Scans
       PROVE  it[x] = F[Max(x)][it[x \ {Max(x)}]]
  <2>1. Max(x) \in 1 .. m
    BY <1>6 DEF Folding
  <2>2. it[x] = Element(s, it[x \ {Max(x)}])
    BY <1>3, <1>8, <1>10
  <2> QED
    BY <1>10, <2>1, <2>2
<1> HIDE DEF F
<1>11. PICK h : Steps(h, Scans, st, m, F) /\ h[m] = it[1 .. m]
  <2>1. Iterates(it, Scans, st, m, F)
    BY <1>9, <1>10 DEF Iterates
  <2>2. m \in Nat /\ st \in Scans /\ F \in [1 .. m -> [Scans -> Scans]]
    BY <1>3, <1>4, <1>5
  <2> QED
    BY ONLY <2>1, <2>2, FoldSteps
<1>12. ASSUME NEW i \in 1 .. m PROVE h[i] = Element(s, h[i - 1])
  <2>1. h[i - 1] \in Scans
    BY <1>3, <1>11 DEF Steps
  <2> QED
    BY <1>11, <2>1 DEF F, Steps
<1> QED
  BY <1>1, <1>2, <1>3, <1>11, <1>12 DEF m, count, st, Steps

\* Whatever numbers a request has, the reader of an array never leaves the
\* text and takes no more tokens than were announced: RespParser.cpp:27-78.
THEOREM ScanStaysInside == Spec => []ReadsInside
<1>1. Computed => ReadsInside
  <2> DEFINE s     == input.text
             count == NumberLine(s, 1)
             m     == IF count < 0 THEN 0 ELSE count
             most  == IF count = Nothing \/ count < 0 THEN 0 ELSE count
  <2>1. SUFFICES ASSUME Computed, input.family = "text", output # None
                 PROVE  output.at \in 0 .. Len(s) /\ Len(output.tokens) <= most
    BY DEF ReadsInside
  <2>2. input \in TextInputs /\ output = ArrayScan(s)
    BY <2>1, InputOfFamily DEF Computed
  <2>3. /\ s \in Text /\ Len(s) \in Nat /\ Len(s) >= 1
        /\ \A n \in NumberSymbols : Len(s) + n <= SizeMax /\ Len(s) - n <= SizeMax
    BY <2>2, TextInputsAssumption DEF Text
  <2> HIDE DEF s
  <2>4. CASE count = Nothing
    <3>1. output = [ok |-> FALSE, at |-> 1, tokens |-> << >>]
      BY <2>2, <2>4 DEF ArrayScan
    <3> QED
      BY <2>3, <2>4, <3>1
  <2>5. CASE count # Nothing
    <3>1. count \in Int /\ m \in Nat /\ HasCrLf(s, 1)
      BY <2>5, NumberLineIs
    <3>2. PICK h : /\ h \in [0 .. m -> Scans]
                   /\ h[0] = [ok |-> TRUE, at |-> NextCrLf(s, 1) + 2, tokens |-> << >>]
                   /\ \A i \in 1 .. m : h[i] = Element(s, h[i - 1])
                   /\ h[m] = ArrayScan(s)
      BY <2>3, <2>5, ElementChain
    <3>3. most = m
      BY <2>5
    <3> HIDE DEF m, count, most
    <3> DEFINE T == {i \in Nat : i <= m => h[i].at \in 0 .. Len(s) /\ Len(h[i].tokens) <= i}
    <3>4. 0 \in T
      <4> DEFINE q == NextCrLf(s, 1)
      <4>1. q \in 1 .. Len(s) - 2
        BY <2>3, <3>1, NextCrLfIs
      <4>2. h[0].at = q + 2 /\ Len(h[0].tokens) = 0
        BY <3>2
      <4> HIDE DEF q
      <4> QED
        BY <2>3, <4>1, <4>2
    <3>5. ASSUME NEW i \in Nat, i \in T PROVE i + 1 \in T
      <4>1. SUFFICES ASSUME i + 1 <= m
                     PROVE  h[i + 1].at \in 0 .. Len(s) /\ Len(h[i + 1].tokens) <= i + 1
        OBVIOUS
      <4>2. i \in 0 .. m /\ i + 1 \in 1 .. m /\ (i + 1) - 1 = i
        BY <3>1, <4>1
      <4>3. h[i] \in Scans /\ h[i + 1] = Element(s, h[i]) /\ h[i].at \in 0 .. Len(s) /\ Len(h[i].tokens) <= i
        BY <3>2, <3>5, <4>2
      <4>4. /\ Element(s, h[i]).at \in 0 .. Len(s) /\ Element(s, h[i]) \in Scans
            /\ Len(Element(s, h[i]).tokens) <= Len(h[i].tokens) + 1
        BY <2>3, <4>3, ElementIs
      <4>5. Len(h[i].tokens) \in Nat /\ Len(h[i + 1].tokens) \in Nat
        BY <4>3, <4>4 DEF Scans
      <4> QED
        BY <4>3, <4>4, <4>5
    <3> HIDE DEF T
    <3>6. m \in T
      BY <3>1, <3>4, <3>5, SetInduction
    <3> QED
      BY <2>2, <3>1, <3>2, <3>3, <3>6 DEF T
  <2> QED
    BY <2>4, <2>5
<1> QED
  BY <1>1, AlwaysComputed, PTL

-----------------------------------------------------------------------------
(* Text that holds other text                                              *)

\* The text b stands in s behind the first p characters.
Holds(s, p, b) == p + Len(b) <= Len(s) /\ \A j \in 1 .. Len(b) : s[p + j] = b[j]

LEMMA ConcatHolds ==
  ASSUME NEW S, NEW a \in Seq(S), NEW b \in Seq(S)
  PROVE  /\ a \o b \in Seq(S) /\ Len(a \o b) = Len(a) + Len(b)
         /\ Holds(a \o b, 0, a) /\ Holds(a \o b, Len(a), b)
<1>1. /\ a \o b \in Seq(S) /\ Len(a \o b) = Len(a) + Len(b) /\ Len(a) \in Nat /\ Len(b) \in Nat
      /\ \A i \in 1 .. Len(a) : (a \o b)[i] = a[i]
      /\ \A i \in 1 .. Len(b) : (a \o b)[Len(a) + i] = b[i]
  OBVIOUS
<1> DEFINE c == a \o b
<1> HIDE DEF c
<1>2. Holds(c, 0, a)
  BY <1>1 DEF Holds, c
<1>3. Holds(c, Len(a), b)
  BY <1>1 DEF Holds, c
<1> QED
  BY <1>1, <1>2, <1>3 DEF c

LEMMA HoldsWithin ==
  ASSUME NEW s, NEW p \in Nat, NEW b, NEW q \in Nat, NEW c,
         Len(s) \in Nat, Len(b) \in Nat, Len(c) \in Nat, Holds(s, p, b), Holds(b, q, c)
  PROVE  Holds(s, p + q, c)
<1>1. /\ p + Len(b) <= Len(s) /\ \A j \in 1 .. Len(b) : s[p + j] = b[j]
      /\ q + Len(c) <= Len(b) /\ \A j \in 1 .. Len(c) : b[q + j] = c[j]
  BY DEF Holds
<1>2. ASSUME NEW j \in 1 .. Len(c) PROVE s[(p + q) + j] = c[j]
  <2>1. q + j \in 1 .. Len(b) /\ p + (q + j) = (p + q) + j
    BY <1>1
  <2>2. s[p + (q + j)] = b[q + j] /\ b[q + j] = c[j]
    BY <1>1, <2>1
  <2> QED
    BY <2>1, <2>2
<1> QED
  BY <1>1, <1>2 DEF Holds

\* What RecursionExists says is there.
Recursive(S, b, m, F) == \E g \in [0 .. m -> S] : g[0] = b /\ \A i \in 1 .. m : g[i] = F[i][g[i - 1]]

LEMMA RecursiveIs ==
  ASSUME NEW S, NEW b \in S, NEW m \in Nat, NEW F \in [1 .. m -> [S -> S]]
  PROVE  Recursive(S, b, m, F)
BY RecursionExists DEF Recursive

\* Parts can be put together one by one.
PutTogether(S, n, parts) ==
  \E g \in [0 .. n -> Seq(S)] : g[0] = << >> /\ \A i \in 1 .. n : g[i] = g[i - 1] \o parts[i]

LEMMA ConcatsExist ==
  ASSUME NEW S, NEW n \in Nat, NEW parts \in [1 .. n -> Seq(S)]
  PROVE  PutTogether(S, n, parts)
<1> DEFINE F  == [i \in 1 .. n |-> [x \in Seq(S) |-> x \o parts[i]]]
           SS == Seq(S)
           b  == << >>
<1>1. F \in [1 .. n -> [SS -> SS]] /\ b \in SS
  <2>1. ASSUME NEW i \in 1 .. n PROVE [x \in Seq(S) |-> x \o parts[i]] \in [Seq(S) -> Seq(S)]
    <3>1. parts[i] \in Seq(S)
      OBVIOUS
    <3> QED
      BY <3>1
  <2> QED
    BY <2>1
<1> HIDE DEF F, SS, b
<1>2. Recursive(SS, b, n, F)
  BY <1>1, RecursiveIs
<1>3. PICK g \in [0 .. n -> SS] : g[0] = b /\ \A i \in 1 .. n : g[i] = F[i][g[i - 1]]
  BY <1>2 DEF Recursive
<1>4. ASSUME NEW i \in 1 .. n PROVE g[i] = g[i - 1] \o parts[i]
  <2>1. i - 1 \in 0 .. n
    OBVIOUS
  <2>2. g[i - 1] \in Seq(S) /\ g[i] = F[i][g[i - 1]]
    BY <1>3, <2>1 DEF SS
  <2> QED
    BY <2>2 DEF F
<1>5. g \in [0 .. n -> Seq(S)] /\ g[0] = << >>
  BY <1>3 DEF SS, b
<1> QED
  BY <1>4, <1>5 DEF PutTogether

\* The parts of a flattened sequence stand one behind the other.
LEMMA FlattenIs ==
  ASSUME NEW S, NEW seqs \in Seq(Seq(S))
  PROVE  /\ FlattenSeq(seqs) \in Seq(S)
         /\ \E off \in [0 .. Len(seqs) -> Nat] :
              /\ off[0] = 0
              /\ \A i \in 1 .. Len(seqs) : off[i] = off[i - 1] + Len(seqs[i])
              /\ Len(FlattenSeq(seqs)) = off[Len(seqs)]
              /\ \A i \in 1 .. Len(seqs) : Holds(FlattenSeq(seqs), off[i - 1], seqs[i])
<1> DEFINE n == Len(seqs)
           Eqn(g) == g = [i \in 1 .. n |-> IF i = 1 THEN seqs[i] ELSE g[i - 1] \o seqs[i]]
           fl == CHOOSE g : Eqn(g)
<1>1. n \in Nat /\ DOMAIN seqs = 1 .. n /\ \A i \in 1 .. n : seqs[i] \in Seq(S)
  OBVIOUS
<1>3. PICK g \in [0 .. n -> Seq(S)] : g[0] = << >> /\ \A i \in 1 .. n : g[i] = g[i - 1] \o seqs[i]
  <2>1. seqs \in [1 .. n -> Seq(S)] /\ n \in Nat
    BY <1>1
  <2> HIDE DEF n, Eqn, fl
  <2>2. PutTogether(S, n, seqs)
    BY <2>1, ConcatsExist
  <2> QED
    BY <2>2 DEF PutTogether
<1>4. ASSUME NEW i \in 1 .. n
      PROVE  g[i] = g[i - 1] \o seqs[i] /\ g[i - 1] \in Seq(S) /\ g[i] \in Seq(S)
  <2>1. i - 1 \in 0 .. n /\ i \in 0 .. n
    BY <1>1
  <2> HIDE DEF n
  <2> QED
    BY <1>3, <2>1
<1> DEFINE off == [i \in 0 .. n |-> Len(g[i])]
<1>5. /\ off \in [0 .. n -> Nat] /\ off[0] = 0
      /\ \A i \in 1 .. n : off[i] = off[i - 1] + Len(seqs[i])
  <2>1. \A i \in 0 .. n : Len(g[i]) \in Nat
    BY <1>3
  <2>2. ASSUME NEW i \in 1 .. n PROVE off[i] = off[i - 1] + Len(seqs[i])
    <3>1. Len(g[i]) = Len(g[i - 1]) + Len(seqs[i])
      <4>1. g[i - 1] \in Seq(S) /\ seqs[i] \in Seq(S)
        BY <1>1, <1>4
      <4>2. Len(g[i - 1] \o seqs[i]) = Len(g[i - 1]) + Len(seqs[i])
        BY <4>1, ConcatHolds
      <4> QED
        BY <1>4, <4>2
    <3>2. i - 1 \in 0 .. n /\ i \in 0 .. n
      BY <1>1
    <3> QED
      BY <3>1, <3>2
  <2>3. 0 \in 0 .. n
    BY <1>1
  <2> QED
    BY <1>3, <2>1, <2>2, <2>3
<1>6. \A i \in 0 .. n : off[i] = Len(g[i])
  OBVIOUS
<1> HIDE DEF n, off
<1> DEFINE T == {k \in Nat : k <= n => \A i \in 1 .. k : Holds(g[k], off[i - 1], seqs[i])}
<1>7. 0 \in T
  OBVIOUS
<1>8. ASSUME NEW k \in Nat, k \in T PROVE k + 1 \in T
  <2>1. SUFFICES ASSUME k + 1 <= n, NEW i \in 1 .. k + 1 PROVE Holds(g[k + 1], off[i - 1], seqs[i])
    OBVIOUS
  <2>2. k \in 0 .. n /\ k + 1 \in 1 .. n /\ (k + 1) - 1 = k
    BY <1>1, <2>1
  <2>3. g[k + 1] = g[k] \o seqs[k + 1] /\ g[k] \in Seq(S) /\ g[k + 1] \in Seq(S) /\ seqs[k + 1] \in Seq(S)
    BY <1>1, <1>4, <2>2
  <2>4. Holds(g[k + 1], 0, g[k]) /\ Holds(g[k + 1], Len(g[k]), seqs[k + 1])
    BY <2>3, ConcatHolds
  <2>5. CASE i = k + 1
    BY <1>6, <2>2, <2>4, <2>5
  <2>6. CASE i \in 1 .. k
    <3>1. Holds(g[k], off[i - 1], seqs[i])
      BY <1>1, <1>8, <2>2, <2>6
    <3>2. i - 1 \in 0 .. n /\ i \in 1 .. n
      BY <1>1, <2>2, <2>6
    <3>3. off[i - 1] \in Nat /\ 0 + off[i - 1] = off[i - 1] /\ Len(seqs[i]) \in Nat
      <4>1. off[i - 1] \in Nat
        BY <1>5, <3>2
      <4>2. seqs[i] \in Seq(S)
        BY <1>1, <3>2
      <4>3. Len(seqs[i]) \in Nat
        BY ONLY <4>2
      <4>4. 0 + off[i - 1] = off[i - 1]
        BY ONLY <4>1
      <4> QED
        BY <4>1, <4>3, <4>4
    <3>4. Len(g[k]) \in Nat /\ Len(g[k + 1]) \in Nat
      <4>1. g[k] \in Seq(S) /\ g[k + 1] \in Seq(S)
        BY <2>3
      <4> QED
        BY <4>1
    <3>5. Holds(g[k + 1], 0 + off[i - 1], seqs[i])
      BY <2>4, <3>1, <3>3, <3>4, HoldsWithin
    <3> QED
      BY <3>3, <3>5
  <2>7. i = k + 1 \/ i \in 1 .. k
    BY <2>1
  <2> QED
    BY <2>5, <2>6, <2>7
<1> HIDE DEF T
<1>9. n \in T
  BY <1>1, <1>7, <1>8, SetInduction
<1>15. ASSUME 1 \in 1 .. n PROVE g[1] = seqs[1]
  <2>1. g[1] = g[1 - 1] \o seqs[1] /\ 1 - 1 = 0 /\ seqs[1] \in Seq(S)
    BY <1>1, <1>4, <1>15
  <2>2. << >> \o seqs[1] = seqs[1]
    BY <2>1
  <2> QED
    BY <1>3, <2>1, <2>2
<1>10. FlattenSeq(seqs) = g[n]
  <2>1. CASE n = 0
    <3>1. seqs = << >>
      BY <2>1 DEF n
    <3>2. FlattenSeq(seqs) = seqs
      BY <2>1 DEF FlattenSeq, n
    <3> QED
      BY <1>3, <2>1, <3>1, <3>2
  <2>2. CASE n # 0
    <3>1. FlattenSeq(seqs) = fl[n]
      BY <2>2 DEF FlattenSeq, n
    <3> DEFINE gg == [i \in 1 .. n |-> g[i]]
    <3>2. Eqn(gg)
      <4>1. ASSUME NEW i \in 1 .. n PROVE g[i] = IF i = 1 THEN seqs[i] ELSE gg[i - 1] \o seqs[i]
        <5>1. CASE i = 1
          BY <1>15, <5>1
        <5>2. CASE i # 1
          <6>1. i - 1 \in 1 .. n
            BY <1>1, <5>2
          <6> QED
            BY <1>4, <5>2, <6>1
        <5> QED
          BY <5>1, <5>2
      <4> QED
        BY <4>1
    <3>3. Eqn(fl)
      <4> HIDE DEF Eqn
      <4> QED
        BY <3>2
    <3> HIDE DEF fl, gg
    <3> DEFINE U == {k \in Nat : k + 1 <= n => fl[k + 1] = g[k + 1]}
    <3>4. 0 \in U
      <4>1. SUFFICES ASSUME 1 <= n PROVE fl[1] = g[1]
        OBVIOUS
      <4>2. fl[1] = seqs[1]
        BY <1>1, <3>3, <4>1
      <4> QED
        BY <1>1, <1>15, <4>1, <4>2
    <3>5. ASSUME NEW k \in Nat, k \in U PROVE k + 1 \in U
      <4>1. SUFFICES ASSUME (k + 1) + 1 <= n PROVE fl[(k + 1) + 1] = g[(k + 1) + 1]
        OBVIOUS
      <4> DEFINE i == (k + 1) + 1
      <4>2. i \in 1 .. n /\ i # 1 /\ i - 1 = k + 1 /\ k + 1 <= n
        BY <1>1, <4>1
      <4> HIDE DEF i
      <4>3. fl[i] = fl[i - 1] \o seqs[i]
        BY <3>3, <4>2
      <4>4. g[i] = g[i - 1] \o seqs[i]
        BY <1>4, <4>2
      <4>5. fl[k + 1] = g[k + 1]
        BY <3>5, <4>2
      <4> QED
        BY <4>2, <4>3, <4>4, <4>5 DEF i
    <3> HIDE DEF U
    <3>6. n - 1 \in U /\ (n - 1) + 1 = n
      <4>1. n - 1 \in Nat /\ (n - 1) + 1 = n
        BY <1>1, <2>2
      <4> QED
        BY <3>4, <3>5, <4>1, SetInduction
    <3>7. fl[n] = g[n]
      BY <1>1, <3>6 DEF U
    <3> QED
      BY <3>1, <3>7
  <2> QED
    BY <2>1, <2>2
<1>11. n \in 0 .. n
  BY <1>1
<1>12. g[n] \in Seq(S)
  BY <1>3, <1>11
<1>13. Len(g[n]) = off[n]
  BY <1>6, <1>11
<1>14. \A i \in 1 .. n : Holds(g[n], off[i - 1], seqs[i])
  BY <1>1, <1>9 DEF T
<1> QED
  BY <1>5, <1>10, <1>12, <1>13, <1>14 DEF n

\* The bytes of a bulk string.
LEMMA BulkIs ==
  ASSUME NEW S, NEW v \in Seq(S)
  PROVE  LET b == serialize_bulk_string(v)  n == Len(v) IN
         /\ b \in Seq(S \cup {Dollar, CR, LF, n}) /\ Len(b) = n + 6 /\ n \in Nat
         /\ b[1] = Dollar /\ b[2] = n /\ b[3] = CR /\ b[4] = LF
         /\ \A j \in 1 .. n : b[4 + j] = v[j]
         /\ b[n + 5] = CR /\ b[n + 6] = LF
<1> DEFINE n    == Len(v)
           U    == S \cup {Dollar, CR, LF, n}
           head == <<Dollar, n>> \o End
           most == head \o v
           b    == most \o End
<1>1. serialize_bulk_string(v) = b
  BY DEF serialize_bulk_string
<1>2. n \in Nat /\ v \in Seq(U)
  <2>1. \A i \in 1 .. Len(v) : v[i] \in U
    OBVIOUS
  <2>2. v \in [1 .. Len(v) -> U] /\ Len(v) \in Nat
    BY <2>1
  <2> HIDE DEF U
  <2> QED
    BY <2>2
<1>3. End \in Seq(U) /\ Len(End) = 2 /\ End[1] = CR /\ End[2] = LF /\ <<Dollar, n>> \in Seq(U)
  BY DEF End
<1> HIDE DEF U, n
<1>4. head \in Seq(U) /\ Len(head) = 4 /\ head[1] = Dollar /\ head[2] = n /\ head[3] = CR /\ head[4] = LF
  <2> DEFINE two == <<Dollar, n>>
  <2>1. two \in Seq(U) /\ Len(two) = 2 /\ two[1] = Dollar /\ two[2] = n
    BY <1>3
  <2> HIDE DEF two
  <2>2. /\ two \o End \in Seq(U) /\ Len(two \o End) = Len(two) + Len(End)
        /\ Holds(two \o End, 0, two) /\ Holds(two \o End, Len(two), End)
    BY <1>3, <2>1, ConcatHolds
  <2> DEFINE h == two \o End
  <2>3. head = h
    BY DEF two
  <2> HIDE DEF h, head
  <2>4. /\ h \in Seq(U) /\ Len(h) = 4
        /\ \A j \in 1 .. 2 : h[0 + j] = two[j]
        /\ \A j \in 1 .. 2 : h[2 + j] = End[j]
    BY <1>3, <2>1, <2>2 DEF h, Holds
  <2>5. h[0 + 1] = two[1] /\ h[0 + 2] = two[2] /\ h[2 + 1] = End[1] /\ h[2 + 2] = End[2]
    BY <2>4
  <2> QED
    BY <1>3, <2>1, <2>3, <2>4, <2>5
<1> HIDE DEF head
<1>5. /\ most \in Seq(U) /\ Len(most) = n + 4
      /\ \A j \in 1 .. 4 : most[j] = head[j]
      /\ \A j \in 1 .. n : most[4 + j] = v[j]
  <2>1. /\ most \in Seq(U) /\ Len(most) = Len(head) + Len(v)
        /\ Holds(most, 0, head) /\ Holds(most, Len(head), v)
    BY <1>2, <1>4, ConcatHolds
  <2> HIDE DEF most
  <2>2. \A j \in 1 .. 4 : 0 + j = j
    OBVIOUS
  <2> QED
    BY <1>2, <1>4, <2>1, <2>2 DEF n, Holds
<1> HIDE DEF most
<1>6. /\ b \in Seq(U) /\ Len(b) = n + 6
      /\ \A j \in 1 .. n + 4 : b[j] = most[j]
      /\ b[n + 5] = CR /\ b[n + 6] = LF
  <2>1. /\ b \in Seq(U) /\ Len(b) = Len(most) + Len(End)
        /\ Holds(b, 0, most) /\ Holds(b, Len(most), End)
    BY <1>3, <1>5, ConcatHolds
  <2> HIDE DEF b
  <2>2. /\ \A j \in 1 .. n + 4 : b[0 + j] = most[j]
        /\ \A j \in 1 .. 2 : b[(n + 4) + j] = End[j]
        /\ Len(b) = (n + 4) + 2
    BY <1>3, <1>5, <2>1 DEF Holds
  <2>3. (n + 4) + 1 = n + 5 /\ (n + 4) + 2 = n + 6 /\ \A j \in 1 .. n + 4 : 0 + j = j
    BY <1>2
  <2>4. b[(n + 4) + 1] = End[1] /\ b[(n + 4) + 2] = End[2]
    BY <2>2
  <2> QED
    BY <1>3, <2>1, <2>2, <2>3, <2>4
<1> HIDE DEF b
<1>7. /\ 1 \in 1 .. 4 /\ 2 \in 1 .. 4 /\ 3 \in 1 .. 4 /\ 4 \in 1 .. 4 /\ 1 .. 4 \subseteq 1 .. n + 4
      /\ \A j \in 1 .. n : 4 + j \in 1 .. n + 4
  BY <1>2
<1>8. \A j \in 1 .. 4 : b[j] = head[j]
  BY <1>5, <1>6, <1>7
<1>9. \A j \in 1 .. n : b[4 + j] = v[j]
  BY <1>5, <1>6, <1>7
<1>10. b[1] = Dollar /\ b[2] = n /\ b[3] = CR /\ b[4] = LF
  BY <1>4, <1>7, <1>8
<1> QED
  BY <1>1, <1>2, <1>6, <1>9, <1>10 DEF n, U

\* A string of an array or a log stands in s behind p.
BulkAt(s, p, v) ==
  /\ p + Len(v) + 6 <= Len(s)
  /\ s[p + 1] = Dollar /\ s[p + 2] = Len(v) /\ s[p + 3] = CR /\ s[p + 4] = LF
  /\ \A j \in 1 .. Len(v) : s[p + 4 + j] = v[j]
  /\ s[p + Len(v) + 5] = CR /\ s[p + Len(v) + 6] = LF

LEMMA BulkHeld ==
  ASSUME NEW S, NEW v \in Seq(S), NEW s, NEW p \in Nat, Holds(s, p, serialize_bulk_string(v))
  PROVE  BulkAt(s, p, v)
<1> DEFINE b == serialize_bulk_string(v)
           n == Len(v)
<1>1. /\ Len(b) = n + 6 /\ n \in Nat
      /\ b[1] = Dollar /\ b[2] = n /\ b[3] = CR /\ b[4] = LF
      /\ \A j \in 1 .. n : b[4 + j] = v[j]
      /\ b[n + 5] = CR /\ b[n + 6] = LF
  BY BulkIs
<1> HIDE DEF b
<1>2. p + (n + 6) <= Len(s) /\ \A j \in 1 .. n + 6 : s[p + j] = b[j]
  BY <1>1 DEF Holds, b
<1> HIDE DEF n
<1>3. /\ 1 \in 1 .. n + 6 /\ 2 \in 1 .. n + 6 /\ 3 \in 1 .. n + 6 /\ 4 \in 1 .. n + 6
      /\ n + 5 \in 1 .. n + 6 /\ n + 6 \in 1 .. n + 6
      /\ \A j \in 1 .. n : 4 + j \in 1 .. n + 6 /\ p + (4 + j) = p + 4 + j
      /\ p + (n + 5) = p + n + 5 /\ p + (n + 6) = p + n + 6
  BY <1>1
<1>4. s[p + 1] = Dollar /\ s[p + 2] = n /\ s[p + 3] = CR /\ s[p + 4] = LF
  BY <1>1, <1>2, <1>3
<1>5. s[p + n + 5] = CR /\ s[p + n + 6] = LF
  BY <1>1, <1>2, <1>3
<1>6. \A j \in 1 .. n : s[p + 4 + j] = v[j]
  BY <1>1, <1>2, <1>3
<1> QED
  BY <1>2, <1>3, <1>4, <1>5, <1>6 DEF BulkAt, n

\* How a request is laid out: its header, and where its strings stand.
ArrayAt(s, tokens, off) ==
  /\ s[1] = Star /\ s[2] = Len(tokens) /\ s[3] = CR /\ s[4] = LF
  /\ off \in [0 .. Len(tokens) -> Nat] /\ off[0] = 4
  /\ \A i \in 1 .. Len(tokens) :
       off[i] = off[i - 1] + Len(tokens[i]) + 6 /\ BulkAt(s, off[i - 1], tokens[i])
  /\ Len(s) = off[Len(tokens)]

LEMMA ArrayLaidOut ==
  ASSUME NEW tokens \in Seq(Strings)
  PROVE  /\ Len(tokens) \in NumberSymbols => serialize_array(tokens) \in Text
         /\ \E off : ArrayAt(serialize_array(tokens), tokens, off)
<1> DEFINE n     == Len(tokens)
           bulks == [i \in DOMAIN tokens |-> serialize_bulk_string(tokens[i])]
           head  == <<Star, n>> \o End
           body  == FlattenSeq(bulks)
           s     == serialize_array(tokens)
           Alpha == Symbols \cup {n}
<1>1. s = head \o body
  BY DEF serialize_array
<1>2. /\ n \in Nat /\ n \in Alpha /\ Symbols \subseteq Alpha /\ DOMAIN tokens = 1 .. n
      /\ n \in NumberSymbols => Alpha = Symbols
      /\ \A i \in 1 .. n : tokens[i] \in Seq(Symbols) /\ Len(tokens[i]) \in Symbols
  BY MarksAre DEF Strings, Text
<1> HIDE DEF Alpha
<1>3. ASSUME NEW i \in 1 .. n
      PROVE  serialize_bulk_string(tokens[i]) \in Seq(Alpha) /\ Len(serialize_bulk_string(tokens[i])) = Len(tokens[i]) + 6
  <2> DEFINE v == tokens[i]
             S == Alpha \cup {Dollar, CR, LF, Len(v)}
  <2>1. v \in Seq(Alpha)
    <3>1. v \in Seq(Symbols) /\ Symbols \subseteq Alpha
      BY <1>2
    <3> HIDE DEF v
    <3> QED
      BY <3>1
  <2>2. S = Alpha
    BY <1>2, MarksAre
  <2> HIDE DEF v
  <2>3. serialize_bulk_string(v) \in Seq(S) /\ Len(serialize_bulk_string(v)) = Len(v) + 6
    BY <2>1, BulkIs
  <2> QED
    BY <2>2, <2>3 DEF v
<1>4. bulks \in Seq(Seq(Alpha)) /\ Len(bulks) = n /\ \A i \in 1 .. n : bulks[i] = serialize_bulk_string(tokens[i])
  <2>1. bulks \in [1 .. n -> Seq(Alpha)]
    BY <1>2, <1>3
  <2>2. \A i \in 1 .. n : bulks[i] = serialize_bulk_string(tokens[i])
    BY <1>2
  <2> HIDE DEF bulks, n
  <2> QED
    BY <1>2, <2>1, <2>2
<1>5. head \in Seq(Alpha) /\ Len(head) = 4 /\ head[1] = Star /\ head[2] = n /\ head[3] = CR /\ head[4] = LF
  <2>1. Star \in Alpha /\ CR \in Alpha /\ LF \in Alpha
    BY <1>2, MarksAre
  <2> HIDE DEF n
  <2>2. <<Star, n>> \in Seq(Alpha) /\ <<CR, LF>> \in Seq(Alpha)
    BY <1>2, <2>1
  <2> QED
    BY <2>2 DEF End
<1> HIDE DEF bulks, head, n
<1>6. PICK o \in [0 .. n -> Nat] :
        /\ o[0] = 0
        /\ \A i \in 1 .. n : o[i] = o[i - 1] + Len(bulks[i])
        /\ Len(body) = o[n]
        /\ \A i \in 1 .. n : Holds(body, o[i - 1], bulks[i])
  <2>1. \E o \in [0 .. Len(bulks) -> Nat] :
          /\ o[0] = 0
          /\ \A i \in 1 .. Len(bulks) : o[i] = o[i - 1] + Len(bulks[i])
          /\ Len(body) = o[Len(bulks)]
          /\ \A i \in 1 .. Len(bulks) : Holds(body, o[i - 1], bulks[i])
    BY <1>4, FlattenIs
  <2> QED
    BY <1>4, <2>1
<1>7. body \in Seq(Alpha)
  BY <1>4, FlattenIs
<1> HIDE DEF body
<1>8. s \in Seq(Alpha) /\ Len(s) = 4 + Len(body) /\ Holds(s, 0, head) /\ Holds(s, 4, body)
  BY <1>1, <1>5, <1>7, ConcatHolds
<1> HIDE DEF s
<1> DEFINE off == [i \in 0 .. n |-> 4 + o[i]]
<1>9. off \in [0 .. n -> Nat] /\ off[0] = 4 /\ Len(s) = off[n] /\ \A i \in 0 .. n : off[i] = 4 + o[i]
  <2>1. 0 \in 0 .. n /\ n \in 0 .. n
    BY <1>2
  <2> QED
    BY <1>6, <1>8, <2>1
<1> HIDE DEF off
<1>10. ASSUME NEW i \in 1 .. n
       PROVE  off[i] = off[i - 1] + Len(tokens[i]) + 6 /\ BulkAt(s, off[i - 1], tokens[i])
  <2>1. i - 1 \in 0 .. n /\ i \in 0 .. n
    BY <1>2
  <2>2. o[i - 1] \in Nat /\ o[i] \in Nat /\ off[i] = 4 + o[i] /\ off[i - 1] = 4 + o[i - 1]
    BY <1>6, <1>9, <2>1
  <2>3. /\ o[i] = o[i - 1] + Len(bulks[i]) /\ Len(bulks[i]) = Len(tokens[i]) + 6
        /\ Holds(body, o[i - 1], bulks[i])
    BY <1>3, <1>4, <1>6
  <2>4. tokens[i] \in Seq(Symbols) /\ Len(tokens[i]) \in Nat
    BY <1>2
  <2>5. Len(s) \in Nat /\ Len(body) \in Nat /\ Len(bulks[i]) \in Nat
    BY <1>7, <1>8, <2>3, <2>4
  <2>6. Holds(s, 4 + o[i - 1], bulks[i])
    BY <1>8, <2>2, <2>3, <2>5, HoldsWithin
  <2>7. Holds(s, off[i - 1], serialize_bulk_string(tokens[i])) /\ off[i - 1] \in Nat
    BY <1>4, <2>2, <2>6
  <2>8. BulkAt(s, off[i - 1], tokens[i])
    BY <2>4, <2>7, BulkHeld
  <2>9. off[i] = off[i - 1] + Len(tokens[i]) + 6
    <3> DEFINE w == Len(tokens[i])  here == o[i]  last == o[i - 1]
    <3>1. here = last + (w + 6) /\ w \in Nat /\ here \in Nat /\ last \in Nat
      BY <2>2, <2>3, <2>4
    <3> HIDE DEF w, here, last
    <3>2. 4 + here = (4 + last) + w + 6
      BY <3>1
    <3> QED
      BY <2>2, <3>2 DEF w, here, last
  <2> QED
    BY <2>8, <2>9
<1>11. s[1] = Star /\ s[2] = n /\ s[3] = CR /\ s[4] = LF
  <2>1. \A j \in 1 .. 4 : s[0 + j] = head[j]
    BY <1>5, <1>8 DEF Holds
  <2>2. 1 \in 1 .. 4 /\ 2 \in 1 .. 4 /\ 3 \in 1 .. 4 /\ 4 \in 1 .. 4
    OBVIOUS
  <2>3. s[0 + 1] = Star /\ s[0 + 2] = n /\ s[0 + 3] = CR /\ s[0 + 4] = LF
    BY <1>5, <2>1, <2>2
  <2> QED
    BY <2>3
<1>12. ArrayAt(s, tokens, off)
  BY <1>9, <1>10, <1>11 DEF ArrayAt, n
<1> QED
  BY <1>2, <1>8, <1>12 DEF s, n, Text

LEMMA ArrayIs ==
  ASSUME NEW tokens \in Seq(Strings), Len(tokens) \in NumberSymbols
  PROVE  /\ serialize_array(tokens) \in Text
         /\ \E off : ArrayAt(serialize_array(tokens), tokens, off)
  BY ArrayLaidOut

-----------------------------------------------------------------------------
(* A request that the serializer wrote                                     *)

\* A number is read where one is written.
LEMMA NumberInOne ==
  ASSUME NEW n \in NumberSymbols
  PROVE  NumberIn(<<n>>) = n
<1> DEFINE s == <<n>>
           solid == {i \in 1 .. Len(s) : s[i] \notin Spaces}
<1>1. Len(s) = 1 /\ s[1] = n /\ n \notin Spaces /\ s \in Seq(Symbols)
  BY MarksAre DEF Spaces
<1> HIDE DEF s
<1>2. solid = {1}
  BY <1>1
<1>3. (CHOOSE i \in solid : \A j \in solid : i <= j) = 1
  BY <1>2
<1>4. SubSeq(s, 1, Len(s)) = s
  BY <1>1
<1>5. TrimmedLeft(s) = s
  BY <1>2, <1>3, <1>4 DEF TrimmedLeft
<1>6. s # << >>
  <2>1. Len(<< >>) = 0 /\ Len(s) = 1
    BY <1>1
  <2> QED
    BY ONLY <2>1
<1> QED
  BY <1>1, <1>5, <1>6 DEF NumberIn, s

LEMMA NumberLineAt ==
  ASSUME NEW s \in Text, NEW p \in Nat, p + 3 <= Len(s), NEW n \in NumberSymbols,
         s[p + 1] = n, s[p + 2] = CR, s[p + 3] = LF
  PROVE  HasCrLf(s, p) /\ NextCrLf(s, p) = p + 1 /\ NumberLine(s, p) = n
<1>1. Len(s) \in Nat
  BY DEF Text
<1>2. At(s, p) = n /\ At(s, p + 1) = CR /\ At(s, p + 2) = LF
  <2>1. /\ p \in 0 .. Len(s) - 1 /\ p + 1 \in 0 .. Len(s) - 1 /\ p + 2 \in 0 .. Len(s) - 1
        /\ (p + 1) + 1 = p + 2 /\ (p + 2) + 1 = p + 3
    BY <1>1
  <2> QED
    BY <2>1 DEF At
<1>3. n # CR
  BY MarksAre
<1>4. /\ p + 1 \in p .. Len(s) - 2 /\ At(s, (p + 1) + 1) = LF
      /\ \A r \in p .. (p + 1) - 1 : ~(At(s, r) = CR /\ At(s, r + 1) = LF)
  <2>1. (p + 1) + 1 = p + 2 /\ \A r \in p .. (p + 1) - 1 : r = p
    OBVIOUS
  <2> QED
    BY <1>1, <1>2, <1>3, <2>1
<1>5. HasCrLf(s, p) /\ NextCrLf(s, p) = p + 1
  BY <1>1, <1>2, <1>4, CrLfFound
<1>6. SubSeq(s, p + 1, p + 1) = <<n>>
  <2> DEFINE t == SubSeq(s, p + 1, p + 1)
  <2>1. /\ t \in Text
        /\ Len(t) = IF p + 1 <= (p + 1) + 1 THEN (p + 1) + 1 - (p + 1) ELSE 0
        /\ \A i \in 1 .. Len(t) : t[i] = s[(p + 1) + i - 1]
    <3>1. p + 1 \in Nat \ {0} /\ p + 1 \in Int /\ p + 1 <= Len(s)
      BY <1>1
    <3> QED
      BY <3>1, PartIsText
  <2> HIDE DEF t
  <2>2. Len(t) = 1 /\ t[1] = n /\ t \in Seq(Symbols) /\ <<n>> \in Seq(Symbols)
    <3>1. Len(t) = 1 /\ 1 \in 1 .. 1 /\ (p + 1) + 1 - 1 = p + 1
      BY <2>1
    <3> QED
      BY <2>1, <3>1, MarksAre DEF Text
  <2>3. Len(<<n>>) = 1 /\ <<n>>[1] = n
    OBVIOUS
  <2>4. t = <<n>>
    BY <2>2, <2>3, SeqEqual
  <2> QED
    BY <2>4 DEF t
<1>7. NumberLine(s, p) = NumberIn(<<n>>)
  BY <1>5, <1>6 DEF NumberLine
<1> QED
  BY <1>5, <1>7, NumberInOne

\* And no line is found where the text ends before its CRLF does.
LEMMA NoNumberLine ==
  ASSUME NEW s \in Text, NEW p \in Nat, Len(s) < p + 3, Len(s) > p => s[p + 1] \in NumberSymbols
  PROVE  NumberLine(s, p) = Nothing
<1>1. Len(s) \in Nat
  BY DEF Text
<1>2. ASSUME NEW q \in CrLfs(s, p) PROVE FALSE
  <2>1. q \in p .. Len(s) - 2 /\ At(s, q) = CR
    BY DEF CrLfs
  <2>2. q = p /\ p \in 0 .. Len(s) - 1 /\ Len(s) > p
    BY <1>1, <2>1
  <2>3. s[p + 1] = CR /\ s[p + 1] \in NumberSymbols
    BY <2>1, <2>2 DEF At
  <2> QED
    BY <2>3, MarksAre
<1> QED
  BY <1>2 DEF NumberLine, HasCrLf

\* The first part of a text.
LEMMA FirstPart ==
  ASSUME NEW s \in Text, NEW n \in 0 .. Len(s)
  PROVE  /\ SubSeq(s, 1, n) \in Text /\ Len(SubSeq(s, 1, n)) = n
         /\ \A i \in 1 .. n : SubSeq(s, 1, n)[i] = s[i]
<1>1. Len(s) \in Nat /\ n \in Nat /\ 1 \in Nat \ {0} /\ n \in Int /\ n <= Len(s)
  BY DEF Text
<1> DEFINE t == SubSeq(s, 1, n)
<1>2. /\ t \in Text /\ Len(t) = IF 1 <= n + 1 THEN n + 1 - 1 ELSE 0
      /\ \A i \in 1 .. Len(t) : t[i] = s[1 + i - 1]
  BY <1>1, PartIsText
<1> HIDE DEF t
<1>3. Len(t) = n /\ \A i \in 1 .. n : 1 + i - 1 = i
  BY <1>1, <1>2
<1> QED
  BY <1>2, <1>3 DEF t

\* What the reader has behind the string v at p, when there are so many bytes.
Reading(scan, v, p, size) ==
  LET end == p + Len(v) + 4 IN
  IF end <= size
  THEN [ok |-> TRUE, at |-> IF end + 2 <= size THEN end + 2 ELSE end, tokens |-> Append(scan.tokens, v)]
  ELSE [scan EXCEPT !.ok = FALSE]

\* A string of a request is read when its bytes are there, and its CRLF is
\* passed when that is there as well.
LEMMA ElementReads ==
  ASSUME NEW full \in Text, Len(full) <= SizeMax, NEW size \in 0 .. Len(full),
         NEW v \in Strings, NEW p \in Nat, BulkAt(full, p, v),
         NEW scan \in Scans, scan.ok, scan.at = p
  PROVE  Element(SubSeq(full, 1, size), scan) = Reading(scan, v, p, size)
<1> DEFINE t == SubSeq(full, 1, size)
           n == Len(v)
           len   == IF At(t, p) = Dollar THEN NumberLine(t, p + 1) ELSE Nothing
           start == NextCrLf(t, p + 1) + 2
           end   == start + len
           token == SubSeq(t, start + 1, IF len < 0 \/ end > Len(t) THEN Len(t) ELSE end)
           after == IF At(t, end) = CR /\ At(t, end + 1) = LF THEN end + 2 ELSE end
<1>1. Element(t, scan) = IF len = Nothing \/ Beyond(start, len, Len(t))
                         THEN [scan EXCEPT !.ok = FALSE]
                         ELSE [ok |-> TRUE, at |-> after, tokens |-> Append(scan.tokens, token)]
  BY DEF Element
<1>2. t \in Text /\ Len(t) = size /\ \A i \in 1 .. size : t[i] = full[i]
  BY FirstPart
<1>3. Len(full) \in Nat /\ size \in Nat /\ SizeMax \in Nat /\ size <= Len(full)
  BY RespAssumption DEF Text
<1>4. n \in Nat /\ n \in NumberSymbols /\ v \in Seq(Symbols)
  BY DEF Strings, Text
<1>5. /\ p + n + 6 <= Len(full)
      /\ full[p + 1] = Dollar /\ full[p + 2] = n /\ full[p + 3] = CR /\ full[p + 4] = LF
      /\ \A j \in 1 .. n : full[p + 4 + j] = v[j]
      /\ full[p + n + 5] = CR /\ full[p + n + 6] = LF
  BY DEF BulkAt
<1> HIDE DEF t, n, Reading
<1>6. CASE size < p + 4
  <2>1. NumberLine(t, p + 1) = Nothing
    <3>1. Len(t) < (p + 1) + 3
      BY <1>2, <1>3, <1>6
    <3>2. ASSUME Len(t) > p + 1 PROVE t[(p + 1) + 1] \in NumberSymbols
      <4>1. p + 2 \in 1 .. size /\ (p + 1) + 1 = p + 2
        BY <1>2, <1>3, <3>2
      <4> QED
        BY <1>2, <1>4, <1>5, <4>1
    <3>3. p + 1 \in Nat
      OBVIOUS
    <3> QED
      BY <1>2, <3>1, <3>2, <3>3, NoNumberLine
  <2>2. ~(p + n + 4 <= size)
    BY <1>3, <1>4, <1>6
  <2> QED
    BY <1>1, <2>1, <2>2 DEF t, n, Reading
<1>7. CASE size >= p + 4
  <2>1. /\ p + 1 \in 1 .. size /\ p + 2 \in 1 .. size /\ p + 3 \in 1 .. size /\ p + 4 \in 1 .. size
        /\ (p + 1) + 1 = p + 2 /\ (p + 1) + 2 = p + 3 /\ (p + 1) + 3 = p + 4
    BY <1>3, <1>7
  <2>2. t[p + 1] = Dollar /\ t[p + 2] = n /\ t[p + 3] = CR /\ t[p + 4] = LF
    BY <1>2, <1>5, <2>1
  <2>3. NextCrLf(t, p + 1) = (p + 1) + 1 /\ NumberLine(t, p + 1) = n
    <3>1. /\ t[(p + 1) + 1] = n /\ t[(p + 1) + 2] = CR /\ t[(p + 1) + 3] = LF
          /\ p + 1 \in Nat /\ (p + 1) + 3 <= Len(t)
      BY <1>2, <1>3, <1>7, <2>1, <2>2
    <3>2. t \in Text /\ n \in NumberSymbols
      BY <1>2, <1>4
    <3> QED
      BY ONLY <3>1, <3>2, NumberLineAt
  <2>4. At(t, p) = Dollar
    BY <1>2, <1>3, <1>7, <2>2 DEF At
  <2>5. len = n /\ start = p + 4 /\ end = (p + 4) + n /\ n # Nothing
    <3>1. len = n /\ start = ((p + 1) + 1) + 2
      BY <2>3, <2>4
    <3> HIDE DEF len, start
    <3> QED
      BY <1>4, <3>1, MarksAre
  <2>6. Beyond(start, len, Len(t)) <=> p + n + 4 > size
    <3> DEFINE e == (p + 4) + n
               w == SizeMax + 1
    <3>1. e \in Nat /\ e < w /\ w \in Nat /\ e = p + n + 4
      BY <1>3, <1>4, <1>5
    <3>2. Beyond(start, len, Len(t)) <=> e % w > size
      BY <1>2, <2>5 DEF Beyond
    <3> HIDE DEF e, w
    <3>3. e % w = e
      BY <3>1
    <3> QED
      BY <3>1, <3>2, <3>3
  <2> HIDE DEF len, start, end
  <2>7. CASE p + n + 4 > size
    <3>1. ~(p + n + 4 <= size)
      BY <1>3, <1>4, <2>7
    <3> QED
      BY <1>1, <2>6, <2>7, <3>1 DEF t, n, Reading
  <2>8. CASE p + n + 4 <= size
    <3>1. ~Beyond(start, len, Len(t)) /\ len # Nothing
      BY <1>3, <1>4, <2>5, <2>6, <2>8
    <3>2. token = v
      <4> DEFINE u == SubSeq(t, (p + 4) + 1, (p + 4) + n)
      <4>1. token = u
        BY <1>2, <1>3, <1>4, <2>5, <2>8
      <4>2. /\ u \in Text
            /\ Len(u) = IF (p + 4) + 1 <= ((p + 4) + n) + 1 THEN ((p + 4) + n) + 1 - ((p + 4) + 1) ELSE 0
            /\ \A i \in 1 .. Len(u) : u[i] = t[((p + 4) + 1) + i - 1]
        <5>1. (p + 4) + 1 \in Nat \ {0} /\ (p + 4) + n \in Int /\ (p + 4) + n <= Len(t)
          BY <1>2, <1>3, <1>4, <2>8
        <5> QED
          BY <1>2, <5>1, PartIsText
      <4> HIDE DEF u
      <4>3. Len(u) = n
        BY <1>4, <4>2
      <4>4. ASSUME NEW i \in 1 .. n PROVE u[i] = v[i]
        <5>1. /\ ((p + 4) + 1) + i - 1 = p + 4 + i /\ p + 4 + i \in 1 .. size
          BY <1>3, <1>4, <2>8
        <5>2. u[i] = t[p + 4 + i]
          BY <4>2, <4>3, <5>1
        <5> QED
          BY <1>2, <1>5, <5>1, <5>2
      <4>5. u \in Seq(Symbols)
        BY <4>2 DEF Text
      <4>6. u = v
        BY <1>4, <4>3, <4>4, <4>5, SeqEqual DEF n
      <4> QED
        BY <4>1, <4>6
    <3>3. after = IF p + n + 4 + 2 <= size THEN p + n + 4 + 2 ELSE p + n + 4
      <4> DEFINE e == p + n + 4
      <4>1. e = end /\ e \in Nat /\ e + 2 = p + n + 6 /\ e + 1 = p + n + 5
        BY <1>4, <2>5
      <4>2. CASE e + 2 <= size
        <5>1. e + 1 \in 1 .. size /\ e + 2 \in 1 .. size /\ e \in 0 .. size - 1 /\ e + 1 \in 0 .. size - 1
              /\ (e + 1) + 1 = e + 2
          BY <1>3, <4>1, <4>2
        <5>2. t[e + 1] = CR /\ t[e + 2] = LF
          BY <1>2, <1>5, <4>1, <5>1
        <5>3. At(t, e) = CR /\ At(t, e + 1) = LF
          BY <1>2, <5>1, <5>2 DEF At
        <5> QED
          BY <4>1, <4>2, <5>3
      <4>3. CASE ~(e + 2 <= size)
        <5>1. e + 1 \notin 0 .. size - 1
          BY <1>3, <4>1, <4>3
        <5>2. At(t, e + 1) # LF
          BY <1>2, <5>1, MarksAre DEF At
        <5> QED
          BY <4>1, <4>3, <5>2
      <4> QED
        BY <4>2, <4>3
    <3> QED
      BY <1>1, <2>8, <3>1, <3>2, <3>3 DEF t, n, Reading
  <2>9. p + n + 4 > size \/ p + n + 4 <= size
    BY <1>3, <1>4
  <2> QED
    BY <2>7, <2>8, <2>9
<1> QED
  BY <1>3, <1>6, <1>7

\* The place in front of a dollar that is not there yet.
LEMMA ElementFails ==
  ASSUME NEW s \in Text, NEW scan \in Scans, ~scan.ok \/ At(s, scan.at) # Dollar
  PROVE  ~Element(s, scan).ok
BY DEF Element, Scans

\* What the reader has found behind the strings up to off, of which i have
\* been read, in the first size bytes.
Found(scan, tokens, i, off, size) ==
  IF off - 2 <= size
  THEN scan = [ok |-> TRUE, at |-> IF off <= size THEN off ELSE off - 2, tokens |-> SubSeq(tokens, 1, i)]
  ELSE ~scan.ok

\* Of the first part of a request the reader takes all strings whose bytes
\* are there, and none if one is missing.
LEMMA ArrayIsRead ==
  ASSUME NEW tokens \in Seq(Strings), Len(tokens) \in NumberSymbols,
         Len(serialize_array(tokens)) <= SizeMax, NEW size \in 0 .. Len(serialize_array(tokens))
  PROVE  LET t == SubSeq(serialize_array(tokens), 1, size) IN
         IF size >= Len(serialize_array(tokens)) - 2 /\ size >= 4
         THEN ArrayScan(t).ok /\ ArrayScan(t).tokens = tokens
         ELSE ~ArrayScan(t).ok
<1> DEFINE full == serialize_array(tokens)
           t == SubSeq(full, 1, size)
           n == Len(tokens)
<1>1. full \in Text /\ Len(full) <= SizeMax /\ size \in 0 .. Len(full) /\ n \in NumberSymbols /\ n \in Nat
  BY ArrayIs
<1>2. PICK off : ArrayAt(full, tokens, off)
  BY ArrayIs
<1> HIDE DEF full
<1>3. t \in Text /\ Len(t) = size /\ \A i \in 1 .. size : t[i] = full[i]
  BY <1>1, FirstPart
<1>4. Len(full) \in Nat /\ size \in Nat /\ size <= Len(full)
  BY <1>1 DEF Text
<1> HIDE DEF t
<1>5. /\ full[1] = Star /\ full[2] = n /\ full[3] = CR /\ full[4] = LF
      /\ off \in [0 .. n -> Nat] /\ off[0] = 4
      /\ \A i \in 1 .. n : off[i] = off[i - 1] + Len(tokens[i]) + 6 /\ BulkAt(full, off[i - 1], tokens[i])
      /\ Len(full) = off[n]
  BY <1>2 DEF ArrayAt
<1>6. CASE size < 4
  <2>1. NumberLine(t, 1) = Nothing
    <3>1. ASSUME Len(t) > 1 PROVE t[1 + 1] \in NumberSymbols
      BY <1>1, <1>3, <1>4, <1>5, <3>1
    <3>2. Len(t) < 1 + 3 /\ 1 \in Nat
      BY <1>3, <1>4, <1>6
    <3> QED
      BY <1>3, <3>1, <3>2, NoNumberLine
  <2>2. ~ArrayScan(t).ok
    BY <2>1 DEF ArrayScan
  <2> QED
    BY <1>4, <1>6, <2>2 DEF t, full
<1>7. CASE size >= 4
  <2>1. NumberLine(t, 1) = n /\ NextCrLf(t, 1) = 2 /\ n # Nothing
    <3>1. 2 \in 1 .. size /\ 3 \in 1 .. size /\ 4 \in 1 .. size
      BY <1>4, <1>7
    <3>2. t[1 + 1] = n /\ t[1 + 2] = CR /\ t[1 + 3] = LF /\ 1 + 3 <= Len(t) /\ 1 \in Nat
      BY <1>3, <1>4, <1>5, <1>7, <3>1
    <3>3. NextCrLf(t, 1) = 1 + 1 /\ NumberLine(t, 1) = n
      BY <1>1, <1>3, <3>2, NumberLineAt
    <3> QED
      BY <1>1, <3>3, MarksAre
  <2>2. \E h : /\ h \in [0 .. n -> Scans]
               /\ h[0] = [ok |-> TRUE, at |-> 4, tokens |-> << >>]
               /\ \A i \in 1 .. n : h[i] = Element(t, h[i - 1])
               /\ h[n] = ArrayScan(t)
    <3> DEFINE count == NumberLine(t, 1)
               m     == IF count < 0 THEN 0 ELSE count
    <3>1. \E h : /\ h \in [0 .. m -> Scans]
                 /\ h[0] = [ok |-> TRUE, at |-> NextCrLf(t, 1) + 2, tokens |-> << >>]
                 /\ \A i \in 1 .. m : h[i] = Element(t, h[i - 1])
                 /\ h[m] = ArrayScan(t)
      BY <1>3, <2>1, ElementChain
    <3>2. m = n /\ NextCrLf(t, 1) + 2 = 4
      BY <1>1, <2>1
    <3> HIDE DEF m
    <3> QED
      BY <3>1, <3>2
  <2>3. PICK h : /\ h \in [0 .. n -> Scans]
                 /\ h[0] = [ok |-> TRUE, at |-> 4, tokens |-> << >>]
                 /\ \A i \in 1 .. n : h[i] = Element(t, h[i - 1])
                 /\ h[n] = ArrayScan(t)
    BY <2>2
  <2> HIDE DEF n
  <2> DEFINE T == {i \in Nat : i <= n => Found(h[i], tokens, i, off[i], size)}
  <2>4. 0 \in T
    <3>1. SubSeq(tokens, 1, 0) = << >>
      OBVIOUS
    <3>3. (IF 4 <= size THEN 4 ELSE 4 - 2) = 4 /\ 4 - 2 <= size
      BY <1>4, <1>7
    <3>2. Found(h[0], tokens, 0, 4, size)
      BY <2>3, <3>1, <3>3 DEF Found
    <3> QED
      BY <1>5, <3>2
  <2>5. ASSUME NEW i \in Nat, i \in T PROVE i + 1 \in T
    <3>1. SUFFICES ASSUME i + 1 <= n PROVE Found(h[i + 1], tokens, i + 1, off[i + 1], size)
      OBVIOUS
    <3>2. i \in 0 .. n /\ i + 1 \in 0 .. n /\ i + 1 \in 1 .. n /\ (i + 1) - 1 = i
      BY <1>1, <3>1
    <3> DEFINE p == off[i]  v == tokens[i + 1]
    <3>3. p \in Nat /\ v \in Strings /\ BulkAt(full, p, v) /\ off[i + 1] = p + Len(v) + 6 /\ Len(v) \in Nat
      <4>1. off[i + 1] = off[i] + Len(tokens[i + 1]) + 6 /\ BulkAt(full, off[i], tokens[i + 1])
        BY <1>5, <3>2
      <4>2. tokens[i + 1] \in Strings
        BY <3>2 DEF n
      <4>3. Len(tokens[i + 1]) \in Nat
        BY <4>2 DEF Strings, Text
      <4> QED
        BY <1>5, <3>2, <4>1, <4>2, <4>3
    <3>4. Found(h[i], tokens, i, p, size) /\ h[i] \in Scans /\ h[i + 1] = Element(t, h[i])
      BY <1>1, <2>3, <2>5, <3>1, <3>2
    <3> HIDE DEF p, v, T
    <3>5. CASE p <= size
      <4>1. h[i] = [ok |-> TRUE, at |-> p, tokens |-> SubSeq(tokens, 1, i)]
        BY <1>4, <3>3, <3>4, <3>5 DEF Found
      <4>2. Element(t, h[i]) = Reading(h[i], v, p, size)
        <5>1. h[i].ok /\ h[i].at = p
          BY <4>1
        <5>2. Element(SubSeq(full, 1, size), h[i]) = Reading(h[i], v, p, size)
          BY <1>1, <3>3, <3>4, <5>1, ElementReads
        <5> QED
          BY <5>2 DEF t
      <4>3. SubSeq(tokens, 1, i + 1) = Append(SubSeq(tokens, 1, i), v)
        BY <1>1, <3>1, <3>2 DEF v, n
      <4> DEFINE x == p + Len(v) + 4
      <4>4. off[i + 1] = x + 2 /\ off[i + 1] - 2 = x /\ x \in Nat
        BY <3>3
      <4> DEFINE e == off[i + 1]
      <4>7. h[i].tokens = SubSeq(tokens, 1, i)
        BY <4>1
      <4> HIDE DEF x, e
      <4>5. CASE x <= size
        <5>1. h[i + 1] = [ok |-> TRUE, at |-> IF x + 2 <= size THEN x + 2 ELSE x, tokens |-> SubSeq(tokens, 1, i + 1)]
          BY <3>4, <4>2, <4>3, <4>5, <4>7 DEF x, Reading
        <5>2. Found(h[i + 1], tokens, i + 1, e, size)
          BY <4>4, <4>5, <5>1 DEF Found, e
        <5> QED
          BY <5>2 DEF e
      <4>6. CASE ~(x <= size)
        <5>1. ~h[i + 1].ok
          BY <3>4, <4>1, <4>2, <4>6 DEF x, Reading
        <5> QED
          BY <4>4, <4>6, <5>1 DEF Found
      <4> QED
        BY <4>5, <4>6
    <3>6. CASE ~(p <= size)
      <4>1. ~h[i + 1].ok
        <5>1. CASE p - 2 <= size
          <6>1. h[i].at = p - 2
            BY <3>4, <3>6, <5>1 DEF Found
          <6>2. full[p - 1] = CR
            <7>1. i # 0
              BY <1>4, <1>5, <1>7, <3>6 DEF p
            <7>2. i \in 1 .. n /\ i - 1 \in 0 .. n
              BY <1>1, <3>2, <7>1
            <7> DEFINE w == tokens[i]  q == off[i - 1]
            <7>3. p = q + Len(w) + 6 /\ BulkAt(full, q, w) /\ q \in Nat
              BY <1>5, <7>2 DEF p
            <7>4. Len(w) \in Nat
              <8>1. w \in Strings
                BY <7>2 DEF n
              <8> QED
                BY <8>1 DEF Strings, Text
            <7> HIDE DEF w, q
            <7>5. p - 1 = q + Len(w) + 5
              BY <7>3, <7>4
            <7> QED
              BY <7>3, <7>5 DEF BulkAt
          <6>3. At(t, p - 2) # Dollar
            <7>1. CASE p - 2 \in 0 .. size - 1
              <8>1. (p - 2) + 1 = p - 1 /\ p - 1 \in 1 .. size
                BY <1>4, <3>3, <7>1
              <8>2. At(t, p - 2) = full[p - 1]
                BY <1>3, <7>1, <8>1 DEF At
              <8> QED
                BY <6>2, <8>2, MarksAre
            <7>2. CASE p - 2 \notin 0 .. size - 1
              BY <1>3, <7>2, MarksAre DEF At
            <7> QED
              BY <7>1, <7>2
          <6> QED
            BY <1>3, <3>4, <6>1, <6>3, ElementFails
        <5>2. CASE ~(p - 2 <= size)
          <6>1. ~h[i].ok
            BY <3>4, <5>2 DEF Found
          <6> QED
            BY <1>3, <3>4, <6>1, ElementFails
        <5> QED
          BY <5>1, <5>2
      <4>2. ~(off[i + 1] - 2 <= size)
        BY <1>4, <3>3, <3>6
      <4> QED
        BY <4>1, <4>2 DEF Found
    <3> QED
      BY <3>5, <3>6
  <2> HIDE DEF T
  <2>6. n \in T
    BY <1>1, <2>4, <2>5, SetInduction
  <2>7. Found(ArrayScan(t), tokens, n, Len(full), size)
    BY <1>1, <1>5, <2>3, <2>6 DEF T
  <2>8. SubSeq(tokens, 1, n) = tokens
    BY DEF n
  <2> DEFINE L == Len(full)
  <2> HIDE DEF L
  <2>9. IF L - 2 <= size THEN ArrayScan(t).ok /\ ArrayScan(t).tokens = tokens ELSE ~ArrayScan(t).ok
    <3>1. CASE L - 2 <= size
      <4>1. ArrayScan(t) = [ok |-> TRUE, at |-> IF L <= size THEN L ELSE L - 2, tokens |-> SubSeq(tokens, 1, n)]
        BY <2>7, <3>1 DEF Found, L
      <4> DEFINE read == SubSeq(tokens, 1, n)  place == IF L <= size THEN L ELSE L - 2
      <4> HIDE DEF read, place
      <4>3. ArrayScan(t) = [ok |-> TRUE, at |-> place, tokens |-> read]
        BY <4>1 DEF read, place
      <4>4. [ok |-> TRUE, at |-> place, tokens |-> read].ok /\ [ok |-> TRUE, at |-> place, tokens |-> read].tokens = read
        OBVIOUS
      <4>2. ArrayScan(t).ok /\ ArrayScan(t).tokens = SubSeq(tokens, 1, n)
        BY <4>3, <4>4, Zenon DEF read
      <4> QED
        BY <2>8, <3>1, <4>2
    <3>2. CASE ~(L - 2 <= size)
      BY <2>7, <3>2 DEF Found, L
    <3> QED
      BY <3>1, <3>2
  <2>10. L \in Nat
    BY <1>4 DEF L
  <2>11. IF size >= L - 2 /\ size >= 4
         THEN ArrayScan(t).ok /\ ArrayScan(t).tokens = tokens ELSE ~ArrayScan(t).ok
    BY <1>4, <1>7, <2>9, <2>10
  <2> QED
    BY <2>11 DEF t, full, L
<1> QED
  BY <1>4, <1>6, <1>7

\* What begins with a character that is no space is left as it is.
LEMMA NothingToTrim ==
  ASSUME NEW s \in Text, Len(s) >= 1, s[1] \notin Spaces
  PROVE  TrimmedLeft(s) = s
<1> DEFINE solid == {i \in 1 .. Len(s) : s[i] \notin Spaces}
           least == CHOOSE i \in solid : \A j \in solid : i <= j
<1>1. Len(s) \in Nat /\ s \in Seq(Symbols)
  BY DEF Text
<1>2. 1 \in solid /\ \A j \in solid : 1 <= j /\ j \in Nat
  BY <1>1
<1> HIDE DEF solid
<1>3. least \in solid /\ \A j \in solid : least <= j
  BY <1>2
<1>4. least = 1
  BY <1>2, <1>3
<1>5. TrimmedLeft(s) = SubSeq(s, least, Len(s))
  BY <1>2 DEF TrimmedLeft, solid
<1>6. SubSeq(s, 1, Len(s)) = s
  BY <1>1
<1> QED
  BY <1>4, <1>5, <1>6

\* A request that the serializer wrote is read as the tokens it was written
\* from, whatever bytes they have, and one cut before its last bytes is read
\* as plain text and not as an array: RespParser.cpp:5-78 and 129-156.
THEOREM RequestsAreRead == Spec => []RespRoundTrip
<1>1. Computed => RespRoundTrip
  <2> DEFINE tokens == input.tokens
             size   == input.size
             full   == serialize_array(tokens)
             t      == SubSeq(full, 1, size)
  <2>1. SUFFICES ASSUME Computed, input.family = "array", output # None
                 PROVE  output = IF size >= Len(full) - 2 THEN tokens ELSE parse_plain_text(t)
    BY DEF RespRoundTrip, Arrived
  <2>2. input \in ArrayInputs /\ output = parse_request(Arrived(input))
    BY <2>1, InputOfFamily DEF Computed
  <2>3. output = parse_request(t)
    BY <2>2 DEF Arrived
  <2>4. /\ tokens \in Seq(Strings) /\ tokens # << >> /\ Len(tokens) \in NumberSymbols
        /\ Len(full) <= SizeMax /\ size \in 0 .. Len(full)
    BY <2>2, ArrayInputsAssumption
  <2> HIDE DEF tokens, size
  <2>5. full \in Text /\ Len(full) \in Nat /\ Len(full) >= 10 /\ full[1] = Star
    <3>1. full \in Text
      BY <2>4, ArrayIs
    <3>2. PICK off : ArrayAt(full, tokens, off)
      BY <2>4, ArrayIs
    <3> HIDE DEF full
    <3> DEFINE n == Len(tokens)
    <3>3. n \in Nat /\ n >= 1
      BY <2>4
    <3>4. tokens[n] \in Strings
      BY <2>4, <3>3
    <3>5. Len(tokens[n]) \in Nat
      BY <3>4 DEF Strings, Text
    <3> HIDE DEF n
    <3>6. /\ off \in [0 .. n -> Nat] /\ Len(full) = off[n] /\ full[1] = Star
          /\ \A i \in 1 .. n : off[i] = off[i - 1] + Len(tokens[i]) + 6
          /\ BulkAt(full, off[n - 1], tokens[n]) /\ off[0] = 4
      <4>1. n \in 1 .. n
        BY <3>3
      <4> QED
        BY <3>2, <4>1 DEF ArrayAt, n
    <3>7. n - 1 \in 0 .. n /\ n \in 1 .. n
      BY <3>3
    <3> DEFINE w == Len(tokens[n])  q == off[n - 1]  e == off[n]
    <3>8. q \in Nat /\ e = q + w + 6 /\ w \in Nat
      BY <3>5, <3>6, <3>7
    <3>9. full \in Text /\ Len(full) = e /\ full[1] = Star
      BY <3>1, <3>6
    <3>10. q >= 4
      <4>1. CASE n = 1
        BY <3>6, <4>1
      <4>2. CASE n # 1
        <5>1. n - 1 \in 1 .. n /\ n - 2 \in 0 .. n /\ (n - 1) - 1 = n - 2
          BY <3>3, <4>2
        <5>2. BulkAt(full, off[n - 2], tokens[n - 1]) /\ off[n - 1] = off[n - 2] + Len(tokens[n - 1]) + 6
          BY <3>2, <5>1 DEF ArrayAt, n
        <5> DEFINE x == off[n - 2]  y == Len(tokens[n - 1])
        <5>3. x \in Nat /\ q = x + y + 6
          BY <3>6, <5>1, <5>2
        <5>4. y \in Nat
          <6>1. tokens[n - 1] \in Strings
            BY <2>4, <5>1 DEF n
          <6> QED
            BY <6>1 DEF Strings, Text
        <5> HIDE DEF x, y, q
        <5> QED
          BY <5>3, <5>4
      <4> QED
        BY <4>1, <4>2
    <3> HIDE DEF w, q, e
    <3> QED
      BY <3>8, <3>9, <3>10
  <2>6. /\ size >= Len(full) - 2 => (ArrayScan(t).ok /\ ArrayScan(t).tokens = tokens)
        /\ size < Len(full) - 2 => ~ArrayScan(t).ok
    <3>1. IF size >= Len(full) - 2 /\ size >= 4
          THEN ArrayScan(t).ok /\ ArrayScan(t).tokens = tokens
          ELSE ~ArrayScan(t).ok
      BY <2>4, ArrayIsRead
    <3>2. size \in Nat
      BY <2>4, <2>5
    <3> HIDE DEF full, t
    <3> QED
      BY <2>5, <3>1, <3>2
  <2>7. /\ size >= Len(full) - 2 => parse_resp_array(t) = tokens
        /\ size < Len(full) - 2 => parse_resp_array(t) = << >>
    <3> HIDE DEF full, t
    <3> QED
      BY <2>6 DEF parse_resp_array
  <2>8. t \in Text /\ Len(t) = size /\ (size >= 1 => t[1] = Star)
    <3> HIDE DEF full
    <3>1. full \in Seq(Symbols) /\ size \in 0 .. Len(full)
      BY <2>4, <2>5 DEF Text
    <3> QED
      BY <2>5, <3>1 DEF Text
  <2> HIDE DEF t, full
  <2>9. TrimmedLeft(t) = t
    <3>1. CASE size >= 1
      BY <2>8, <3>1, MarksAre, NothingToTrim DEF Spaces
    <3>2. CASE ~(size >= 1)
      <4>1. t = << >>
        BY <2>4, <2>5, <2>8, <3>2 DEF Text
      <4> QED
        BY <4>1 DEF TrimmedLeft
    <3> QED
      BY <3>1, <3>2
  <2>10. CASE size >= Len(full) - 2
    <3>1. size >= 1
      BY <2>4, <2>5, <2>10
    <3>2. At(t, 0) = Star
      BY <2>4, <2>5, <2>8, <3>1 DEF At
    <3> QED
      BY <2>3, <2>4, <2>7, <2>9, <2>10, <3>2 DEF parse_request
  <2>11. CASE ~(size >= Len(full) - 2)
    <3>1. parse_resp_array(t) = << >>
      BY <2>4, <2>5, <2>7, <2>11
    <3> QED
      BY <2>3, <2>9, <2>11, <3>1 DEF parse_request
  <2> QED
    BY <2>10, <2>11
<1> QED
  BY <1>1, AlwaysComputed, PTL

-----------------------------------------------------------------------------
(* Replies                                                                 *)

\* The symbols of replies: the length of a null is no number of a text.
Signs == Symbols \cup {-1}

LEMMA EndedIs ==
  ASSUME NEW a \in Seq(Signs)
  PROVE  /\ a \o End \in Seq(Signs) /\ Len(a \o End) = Len(a) + 2 /\ Len(a) \in Nat
         /\ \A j \in 1 .. Len(a) : (a \o End)[j] = a[j]
         /\ (a \o End)[Len(a) + 1] = CR /\ (a \o End)[Len(a) + 2] = LF
<1>1. End \in Seq(Signs) /\ Len(End) = 2 /\ End[1] = CR /\ End[2] = LF
  <2>1. CR \in Signs /\ LF \in Signs
    BY MarksAre DEF Signs
  <2> HIDE DEF Signs
  <2> QED
    BY <2>1 DEF End
<1> DEFINE b == a \o End
<1>2. b \in Seq(Signs) /\ Len(b) = Len(a) + Len(End) /\ Holds(b, 0, a) /\ Holds(b, Len(a), End)
  BY <1>1, ConcatHolds
<1> HIDE DEF b
<1>3. Len(a) \in Nat /\ \A j \in 1 .. Len(a) : 0 + j = j
  OBVIOUS
<1>4. \A j \in 1 .. Len(a) : b[j] = a[j]
  BY <1>2, <1>3 DEF Holds
<1>5. b[Len(a) + 1] = End[1] /\ b[Len(a) + 2] = End[2]
  BY <1>1, <1>2 DEF Holds
<1> QED
  BY <1>1, <1>2, <1>3, <1>4, <1>5 DEF b

\* The line l stands in s behind p.
LineAt(s, p, l) ==
  /\ p + Len(l) + 2 <= Len(s)
  /\ \A j \in 1 .. Len(l) : s[p + j] = l[j]
  /\ s[p + Len(l) + 1] = CR /\ s[p + Len(l) + 2] = LF

\* A client reads a line that has no line feed in it as it was written.
LEMMA LineIsRead ==
  ASSUME NEW s \in Seq(Signs), NEW p \in Nat, NEW l \in Seq(Signs), LineAt(s, p, l),
         \A j \in 1 .. Len(l) : l[j] # LF
  PROVE  NextCrLf(s, p) = p + Len(l) /\ UpToCrLf(s, p) = l
<1> DEFINE n == Len(l)
<1>1. n \in Nat /\ Len(s) \in Nat
  OBVIOUS
<1>2. /\ p + n + 2 <= Len(s) /\ \A j \in 1 .. n : s[p + j] = l[j] /\ l[j] # LF
      /\ s[p + n + 1] = CR /\ s[p + n + 2] = LF
  BY DEF LineAt
<1> HIDE DEF n
<1> DEFINE q == p + n
<1>3. At(s, q) = CR /\ At(s, q + 1) = LF
  <2>1. q \in 0 .. Len(s) - 1 /\ q + 1 \in 0 .. Len(s) - 1 /\ q + 1 = p + n + 1 /\ (q + 1) + 1 = p + n + 2
    BY <1>1, <1>2
  <2> QED
    BY <1>2, <2>1 DEF At
<1>4. ASSUME NEW r \in p .. q - 1 PROVE At(s, r + 1) # LF
  <2> DEFINE j == r + 2 - p
  <2>1. r + 1 \in 0 .. Len(s) - 1 /\ (r + 1) + 1 = p + j /\ j \in 1 .. n + 1
    BY <1>1, <1>2
  <2>2. At(s, r + 1) = s[p + j]
    BY <2>1 DEF At
  <2> HIDE DEF j
  <2>3. CASE j \in 1 .. n
    BY <1>2, <2>2, <2>3
  <2>4. CASE j = n + 1
    <3>1. p + j = p + n + 1
      BY <1>1, <2>4
    <3> QED
      BY <1>2, <2>2, <3>1, MarksAre
  <2> QED
    BY <1>1, <2>1, <2>3, <2>4
<1>5. q \in p .. Len(s) - 2
  BY <1>1, <1>2
<1>6. NextCrLf(s, p) = q
  <2> HIDE DEF q
  <2> QED
    BY <1>1, <1>3, <1>4, <1>5, CrLfFound
<1> DEFINE t == SubSeq(s, p + 1, q)
<1>7. /\ t \in Seq(Signs) /\ Len(t) = IF p + 1 <= q + 1 THEN q + 1 - (p + 1) ELSE 0
      /\ \A i \in 1 .. Len(t) : t[i] = s[(p + 1) + i - 1]
  <2>1. p + 1 \in Nat \ {0} /\ q \in Int /\ q <= Len(s)
    BY <1>1, <1>2
  <2> HIDE DEF q
  <2> QED
    BY <2>1, PartIs
<1> HIDE DEF t
<1>8. Len(t) = n
  BY <1>1, <1>7
<1>9. ASSUME NEW i \in 1 .. n PROVE t[i] = l[i]
  <2>1. (p + 1) + i - 1 = p + i
    OBVIOUS
  <2> QED
    BY <1>2, <1>7, <1>8, <2>1
<1>10. t = l
  BY <1>7, <1>8, <1>9, SeqEqual DEF n
<1>11. UpToCrLf(s, p) = t
  BY <1>6 DEF UpToCrLf, t
<1> QED
  BY <1>6, <1>10, <1>11 DEF n

\* An item of an array of replies.
ItemBytes(v) == IF v = Nothing THEN serialize_null ELSE serialize_bulk_string(v)
ItemSize(v)  == IF v = Nothing THEN 4 ELSE Len(v) + 6

LEMMA NullIs ==
  /\ serialize_null \in Seq(Signs) /\ Len(serialize_null) = 4
  /\ serialize_null[1] = Dollar /\ serialize_null[2] = -1
<1> DEFINE a == <<Dollar, -1>>
<1>1. a \in Seq(Signs) /\ Len(a) = 2 /\ a[1] = Dollar /\ a[2] = -1
  <2>1. Dollar \in Signs /\ -1 \in Signs
    BY MarksAre DEF Signs
  <2> HIDE DEF Signs
  <2> QED
    BY <2>1
<1>2. serialize_null = a \o End
  BY DEF serialize_null
<1> HIDE DEF a
<1>3. /\ a \o End \in Seq(Signs) /\ Len(a \o End) = Len(a) + 2
      /\ \A j \in 1 .. Len(a) : (a \o End)[j] = a[j]
  BY <1>1, EndedIs
<1>4. (a \o End)[1] = a[1] /\ (a \o End)[2] = a[2]
  BY <1>1, <1>3
<1> QED
  BY <1>1, <1>2, <1>3, <1>4

LEMMA StringIs ==
  ASSUME NEW v \in Strings
  PROVE  /\ v \in Seq(Signs) /\ v # Nothing /\ Len(v) \in Nat /\ Len(v) \in Signs
         /\ serialize_bulk_string(v) \in Seq(Signs) /\ Len(serialize_bulk_string(v)) = Len(v) + 6
<1>1. v \in Seq(Symbols) /\ v # Nothing /\ Len(v) \in Symbols
  BY MarksAre DEF Strings, Text
<1>2. v \in Seq(Signs)
  <2>1. Symbols \subseteq Signs
    BY DEF Signs
  <2> QED
    BY <1>1, <2>1, SeqMonotonic
<1>3. Signs \cup {Dollar, CR, LF, Len(v)} = Signs
  BY <1>1, MarksAre DEF Signs
<1>4. /\ serialize_bulk_string(v) \in Seq(Signs \cup {Dollar, CR, LF, Len(v)})
      /\ Len(serialize_bulk_string(v)) = Len(v) + 6
  BY <1>2, BulkIs
<1> QED
  BY <1>1, <1>2, <1>3, <1>4 DEF Signs

LEMMA ItemIs ==
  ASSUME NEW v \in Strings \cup {Nothing}
  PROVE  ItemBytes(v) \in Seq(Signs) /\ Len(ItemBytes(v)) = ItemSize(v) /\ ItemSize(v) \in Nat
<1>1. CASE v = Nothing
  BY <1>1, NullIs DEF ItemBytes, ItemSize
<1>2. CASE v # Nothing
  BY <1>2, StringIs DEF ItemBytes, ItemSize
<1> QED
  BY <1>1, <1>2

\* An item is read where it stands.
LEMMA ItemIsRead ==
  ASSUME NEW s \in Seq(Signs), NEW p \in Nat, NEW v \in Strings \cup {Nothing}, Holds(s, p, ItemBytes(v))
  PROVE  ReadBulk(s, p) = [value |-> v, next |-> p + ItemSize(v)] /\ s[p + 1] = Dollar
<1>1. CASE v = Nothing
  <2> DEFINE b == ItemBytes(v)
  <2>1. Len(b) = 4 /\ b[1] = Dollar /\ b[2] = -1 /\ ItemSize(v) = 4
    BY <1>1, NullIs DEF ItemBytes, ItemSize
  <2> HIDE DEF b
  <2>2. s[p + 1] = Dollar /\ s[p + 2] = -1
    BY <2>1 DEF b, Holds
  <2> QED
    BY <1>1, <2>1, <2>2 DEF ReadBulk
<1>2. CASE v # Nothing
  <2> DEFINE n == Len(v)
  <2>1. v \in Strings /\ v \in Seq(Signs) /\ n \in Nat /\ ItemSize(v) = n + 6
    BY <1>2, StringIs DEF ItemSize
  <2>2. BulkAt(s, p, v)
    BY <1>2, <2>1, BulkHeld DEF ItemBytes
  <2>3. /\ p + n + 6 <= Len(s) /\ s[p + 1] = Dollar /\ s[p + 2] = n
        /\ \A j \in 1 .. n : s[p + 4 + j] = v[j]
    BY <2>2 DEF BulkAt
  <2> HIDE DEF n
  <2> DEFINE from == p + 4
             t == SubSeq(s, from + 1, from + n)
  <2>4. ReadBulk(s, p) = [value |-> t, next |-> from + n + 2]
    BY <2>1, <2>3 DEF ReadBulk
  <2>5. t = v
    <3>1. from + 1 \in Nat \ {0} /\ from + n \in Int /\ from + n <= Len(s)
      BY <2>1, <2>3
    <3>2. /\ t \in Seq(Signs) /\ Len(t) = IF from + 1 <= (from + n) + 1 THEN (from + n) + 1 - (from + 1) ELSE 0
          /\ \A i \in 1 .. Len(t) : t[i] = s[(from + 1) + i - 1]
      BY <3>1, PartIs
    <3> HIDE DEF t
    <3>3. Len(t) = n
      BY <2>1, <3>2
    <3>4. ASSUME NEW i \in 1 .. n PROVE t[i] = v[i]
      <4>1. (from + 1) + i - 1 = p + 4 + i
        BY <2>1
      <4> QED
        BY <2>3, <3>2, <3>3, <4>1
    <3> QED
      BY <2>1, <3>2, <3>3, <3>4, SeqEqual DEF n
  <2> HIDE DEF t
  <2>6. from + n + 2 = p + ItemSize(v)
    BY <2>1
  <2> QED
    BY <2>3, <2>4, <2>5, <2>6
<1> QED
  BY <1>1, <1>2

\* Items that stand one behind the other are all read.
LEMMA ItemsAreRead ==
  ASSUME NEW s \in Seq(Signs), NEW items \in Seq(Strings \cup {Nothing}),
         NEW o \in [0 .. Len(items) -> Nat],
         \A i \in 1 .. Len(items) : o[i] = o[i - 1] + ItemSize(items[i]) /\ Holds(s, o[i - 1], ItemBytes(items[i]))
  PROVE  ReadItems(s, o[0], Len(items)) = [value |-> items, next |-> o[Len(items)]]
<1> DEFINE n == Len(items)
           p == o[0]
           Eqn(g) == g = [i \in 0 .. n |->
                            IF i = 0 THEN [value |-> << >>, next |-> p]
                            ELSE [value |-> Append(g[i - 1].value, ReadBulk(s, g[i - 1].next).value),
                                  next  |-> ReadBulk(s, g[i - 1].next).next]]
           it == CHOOSE g : Eqn(g)
           g  == [i \in 0 .. n |-> [value |-> SubSeq(items, 1, i), next |-> o[i]]]
<1>1. ReadItems(s, p, n) = it[n]
  BY DEF ReadItems
<1>2. n \in Nat /\ \A i \in 1 .. n : items[i] \in Strings \cup {Nothing}
  OBVIOUS
<1>3. ASSUME NEW i \in 1 .. n
      PROVE  /\ i - 1 \in 0 .. n /\ o[i - 1] \in Nat
             /\ ReadBulk(s, o[i - 1]) = [value |-> items[i], next |-> o[i]]
  <2>3. i - 1 \in 0 .. n
    BY <1>2
  <2>1. i - 1 \in 0 .. n /\ o[i - 1] \in Nat
    BY <2>3
  <2>2. ReadBulk(s, o[i - 1]) = [value |-> items[i], next |-> o[i - 1] + ItemSize(items[i])]
    BY <1>2, <2>1, ItemIsRead
  <2> QED
    BY <2>1, <2>2
<1>4. ASSUME NEW i \in 1 .. n PROVE SubSeq(items, 1, i) = Append(SubSeq(items, 1, i - 1), items[i])
  OBVIOUS
<1>5. SubSeq(items, 1, 0) = << >> /\ SubSeq(items, 1, n) = items
  OBVIOUS
<1> HIDE DEF n, p
<1>6. /\ g[0] = [value |-> << >>, next |-> p]
      /\ \A i \in 0 .. n : g[i].value = SubSeq(items, 1, i) /\ g[i].next = o[i]
      /\ \A i \in 1 .. n : g[i] = [value |-> Append(g[i - 1].value, items[i]), next |-> o[i]]
      /\ g[n] = [value |-> items, next |-> o[n]]
  <2>1. 0 \in 0 .. n /\ n \in 0 .. n /\ \A i \in 1 .. n : i - 1 \in 0 .. n /\ i \in 0 .. n
    BY <1>2
  <2>2. \A i \in 0 .. n : g[i].value = SubSeq(items, 1, i) /\ g[i].next = o[i]
    OBVIOUS
  <2>3. g[0] = [value |-> << >>, next |-> p] /\ g[n] = [value |-> items, next |-> o[n]]
    BY <1>5, <2>1 DEF p
  <2>4. ASSUME NEW i \in 1 .. n PROVE g[i] = [value |-> Append(g[i - 1].value, items[i]), next |-> o[i]]
    BY <1>4, <2>1, <2>2
  <2> QED
    BY <2>2, <2>3, <2>4
<1>7. DOMAIN g = 0 .. n /\ g = [i \in 0 .. n |-> g[i]]
  OBVIOUS
<1> HIDE DEF g
<1>8. ASSUME NEW i \in 1 .. n
      PROVE  g[i] = [value |-> Append(g[i - 1].value, ReadBulk(s, g[i - 1].next).value),
                     next  |-> ReadBulk(s, g[i - 1].next).next]
  <2>1. g[i - 1].next = o[i - 1]
    BY <1>3, <1>6
  <2> DEFINE b == ReadBulk(s, g[i - 1].next)
  <2>3. b = [value |-> items[i], next |-> o[i]]
    BY <1>3, <2>1
  <2>2. ReadBulk(s, g[i - 1].next).value = items[i] /\ ReadBulk(s, g[i - 1].next).next = o[i]
    <3> HIDE DEF b
    <3>1. b.value = items[i] /\ b.next = o[i]
      BY <2>3
    <3> QED
      BY <3>1 DEF b
  <2> QED
    BY <1>6, <2>2
<1>9. Eqn(g)
  <2>1. ASSUME NEW i \in 0 .. n
        PROVE  g[i] = IF i = 0 THEN [value |-> << >>, next |-> p]
                      ELSE [value |-> Append(g[i - 1].value, ReadBulk(s, g[i - 1].next).value),
                            next  |-> ReadBulk(s, g[i - 1].next).next]
    <3>1. CASE i = 0
      BY <1>6, <3>1
    <3>2. CASE i # 0
      <4>1. i \in 1 .. n
        BY <1>2, <3>2
      <4> QED
        BY <1>8, <3>2, <4>1
    <3> QED
      BY <3>1, <3>2
  <2> QED
    BY <1>7, <2>1
<1>10. Eqn(it)
  <2> HIDE DEF Eqn
  <2> QED
    BY <1>9
<1> HIDE DEF it
<1> DEFINE T == {i \in Nat : i <= n => it[i] = g[i]}
<1>11. 0 \in T
  <2>1. 0 \in 0 .. n
    BY <1>2
  <2>2. it[0] = [value |-> << >>, next |-> p]
    BY <1>10, <2>1
  <2> QED
    BY <1>6, <2>2
<1>12. ASSUME NEW i \in Nat, i \in T PROVE i + 1 \in T
  <2>1. SUFFICES ASSUME i + 1 <= n PROVE it[i + 1] = g[i + 1]
    OBVIOUS
  <2> DEFINE j == i + 1
  <2>2. j \in 1 .. n /\ j \in 0 .. n /\ j # 0 /\ j - 1 = i /\ i <= n
    BY <1>2, <2>1
  <2> HIDE DEF j
  <2>3. it[j] = [value |-> Append(it[j - 1].value, ReadBulk(s, it[j - 1].next).value),
                 next  |-> ReadBulk(s, it[j - 1].next).next]
    BY <1>10, <2>2
  <2>4. it[j - 1] = g[j - 1]
    BY <1>12, <2>2
  <2>5. it[j] = g[j]
    BY <1>8, <2>2, <2>3, <2>4
  <2> QED
    BY <2>5 DEF j
<1> HIDE DEF T
<1>13. n \in T
  BY <1>2, <1>11, <1>12, SetInduction
<1>14. it[n] = g[n]
  BY <1>2, <1>13 DEF T
<1> QED
  BY <1>1, <1>6, <1>14 DEF n, p

\* Where the items of an array of replies stand.
ItemsAt(s, items, o) ==
  /\ o \in [0 .. Len(items) -> Nat] /\ o[0] = 4 /\ Len(s) = o[Len(items)]
  /\ \A i \in 1 .. Len(items) : o[i] = o[i - 1] + ItemSize(items[i]) /\ Holds(s, o[i - 1], ItemBytes(items[i]))

LEMMA NullableIs ==
  ASSUME NEW items \in Seq(Strings \cup {Nothing}), Len(items) \in NumberSymbols
  PROVE  /\ Nullable(items) \in Seq(Signs)
         /\ Holds(Nullable(items), 0, <<Star, Len(items)>> \o End)
         /\ \E o : ItemsAt(Nullable(items), items, o)
<1> DEFINE n     == Len(items)
           parts == [i \in DOMAIN items |-> IF items[i] = Nothing THEN serialize_null ELSE serialize_bulk_string(items[i])]
           front == <<Star, n>>
           head  == front \o End
           body  == FlattenSeq(parts)
           s     == Nullable(items)
<1>1. s = head \o body
  BY DEF Nullable
<1>2. n \in Nat /\ DOMAIN items = 1 .. n /\ \A i \in 1 .. n : items[i] \in Strings \cup {Nothing}
  OBVIOUS
<1>3. front \in Seq(Signs) /\ Len(front) = 2
  <2>1. Star \in Signs /\ n \in Signs
    BY MarksAre DEF Signs
  <2> HIDE DEF n, Signs
  <2> QED
    BY <2>1
<1> HIDE DEF front
<1>4. head \in Seq(Signs) /\ Len(head) = 4
  BY <1>3, EndedIs
<1>5. \A i \in 1 .. n : parts[i] = ItemBytes(items[i])
  BY <1>2 DEF ItemBytes
<1>6. parts \in Seq(Seq(Signs)) /\ Len(parts) = n
  <2>1. \A i \in 1 .. n : ItemBytes(items[i]) \in Seq(Signs)
    BY <1>2, ItemIs
  <2>2. parts \in [1 .. n -> Seq(Signs)]
    BY <1>2, <1>5, <2>1
  <2> HIDE DEF parts, n
  <2> QED
    BY <1>2, <2>2
<1>7. \A i \in 1 .. n : Len(parts[i]) = ItemSize(items[i]) /\ ItemSize(items[i]) \in Nat
  BY <1>2, <1>5, ItemIs
<1> HIDE DEF head, parts, n
<1>8. PICK off \in [0 .. n -> Nat] :
        /\ off[0] = 0
        /\ \A i \in 1 .. n : off[i] = off[i - 1] + Len(parts[i])
        /\ Len(body) = off[n]
        /\ \A i \in 1 .. n : Holds(body, off[i - 1], parts[i])
  <2>1. \E off \in [0 .. Len(parts) -> Nat] :
          /\ off[0] = 0
          /\ \A i \in 1 .. Len(parts) : off[i] = off[i - 1] + Len(parts[i])
          /\ Len(body) = off[Len(parts)]
          /\ \A i \in 1 .. Len(parts) : Holds(body, off[i - 1], parts[i])
    BY <1>6, FlattenIs
  <2> QED
    BY <1>6, <2>1
<1>9. body \in Seq(Signs)
  BY <1>6, FlattenIs
<1> HIDE DEF body
<1>10. s \in Seq(Signs) /\ Len(s) = 4 + Len(body) /\ Holds(s, 0, head) /\ Holds(s, 4, body)
  BY <1>1, <1>4, <1>9, ConcatHolds
<1> HIDE DEF s
<1> DEFINE o == [i \in 0 .. n |-> 4 + off[i]]
<1>11. o \in [0 .. n -> Nat] /\ o[0] = 4 /\ Len(s) = o[n] /\ \A i \in 0 .. n : o[i] = 4 + off[i]
  <2>1. 0 \in 0 .. n /\ n \in 0 .. n
    BY <1>2
  <2> QED
    BY <1>8, <1>10, <2>1
<1> HIDE DEF o
<1>12. ASSUME NEW i \in 1 .. n
       PROVE  o[i] = o[i - 1] + ItemSize(items[i]) /\ Holds(s, o[i - 1], ItemBytes(items[i]))
  <2>1. i - 1 \in 0 .. n /\ i \in 0 .. n
    BY <1>2
  <2> DEFINE w == ItemSize(items[i])  here == off[i]  last == off[i - 1]
  <2>2. here \in Nat /\ last \in Nat /\ o[i] = 4 + here /\ o[i - 1] = 4 + last
    BY <1>8, <1>11, <2>1
  <2>3. here = last + w /\ w \in Nat /\ Holds(body, last, parts[i]) /\ Len(parts[i]) = w
    BY <1>7, <1>8
  <2> HIDE DEF w, here, last
  <2>4. o[i] = o[i - 1] + w
    BY <2>2, <2>3
  <2>5. Len(s) \in Nat /\ Len(body) \in Nat /\ Len(parts[i]) \in Nat
    BY <1>9, <1>10, <2>3
  <2>6. Holds(s, 4 + last, parts[i])
    BY <1>10, <2>2, <2>3, <2>5, HoldsWithin
  <2> QED
    BY <1>5, <2>2, <2>4, <2>6 DEF w
<1>13. ItemsAt(s, items, o)
  BY <1>11, <1>12 DEF ItemsAt, n
<1> QED
  BY <1>10, <1>13 DEF s, head, front, n

\* A reply whose first line is all of it.
LEMMA LineHeld ==
  ASSUME NEW s \in Seq(Signs), NEW p \in Nat, NEW mark \in Signs, NEW l \in Seq(Signs),
         Holds(s, p, <<mark>> \o l \o End)
  PROVE  s[p + 1] = mark /\ LineAt(s, p + 1, l) /\ Len(<<mark>> \o l \o End) = Len(l) + 3
<1> DEFINE one == <<mark>>
           a   == one \o l
           b   == a \o End
           n   == Len(l)
<1>1. one \in Seq(Signs) /\ Len(one) = 1 /\ one[1] = mark /\ n \in Nat
  OBVIOUS
<1> HIDE DEF one
<1>2. a \in Seq(Signs) /\ Len(a) = 1 + n /\ Holds(a, 0, one) /\ Holds(a, 1, l)
  BY <1>1, ConcatHolds
<1> HIDE DEF a
<1>3. /\ Len(b) = Len(a) + 2
      /\ \A j \in 1 .. Len(a) : b[j] = a[j]
      /\ b[Len(a) + 1] = CR /\ b[Len(a) + 2] = LF
  BY <1>2, EndedIs
<1> HIDE DEF b
<1>4. Holds(s, p, b)
  BY DEF b, a, one
<1>5. a[1] = mark /\ \A j \in 1 .. n : a[1 + j] = l[j]
  <2>1. a[0 + 1] = one[1]
    BY <1>1, <1>2 DEF Holds
  <2> QED
    BY <1>1, <1>2, <2>1 DEF Holds, n
<1> HIDE DEF n
<1>6. p + (n + 3) <= Len(s) /\ \A j \in 1 .. n + 3 : s[p + j] = b[j]
  BY <1>1, <1>2, <1>3, <1>4 DEF Holds
<1>7. b[1] = mark /\ b[n + 2] = CR /\ b[n + 3] = LF /\ \A j \in 1 .. n : b[1 + j] = l[j]
  <2>1. 1 \in 1 .. 1 + n /\ (1 + n) + 1 = n + 2 /\ (1 + n) + 2 = n + 3 /\ \A j \in 1 .. n : 1 + j \in 1 .. 1 + n
    BY <1>1
  <2> QED
    BY <1>2, <1>3, <1>5, <2>1
<1>8. /\ 1 \in 1 .. n + 3 /\ n + 2 \in 1 .. n + 3 /\ n + 3 \in 1 .. n + 3
      /\ p + (n + 2) = (p + 1) + n + 1 /\ p + (n + 3) = (p + 1) + n + 2
      /\ \A j \in 1 .. n : 1 + j \in 1 .. n + 3 /\ p + (1 + j) = (p + 1) + j
  BY <1>1
<1>9. /\ s[p + 1] = mark /\ s[(p + 1) + n + 1] = CR /\ s[(p + 1) + n + 2] = LF
      /\ \A j \in 1 .. n : s[(p + 1) + j] = l[j]
  BY <1>6, <1>7, <1>8
<1>10. (p + 1) + n + 2 <= Len(s)
  BY <1>1, <1>6
<1>11. Len(b) = n + 3
  BY <1>1, <1>2, <1>3
<1> QED
  BY <1>9, <1>10, <1>11 DEF LineAt, n, b, a, one

\* A client tells the replies apart by their first character.
LEMMA FirstTells ==
  ASSUME NEW s, NEW p
  PROVE  /\ s[p + 1] = Plus =>
              ReadReply(s, p) = [reply |-> <<"ok", UpToCrLf(s, p + 1)>>, next |-> NextCrLf(s, p + 1) + 2]
         /\ s[p + 1] = Minus =>
              ReadReply(s, p) = [reply |-> <<"error", UpToCrLf(s, p + 1)>>, next |-> NextCrLf(s, p + 1) + 2]
         /\ s[p + 1] = Colon =>
              ReadReply(s, p) = [reply |-> <<"int", UpToCrLf(s, p + 1)[1]>>, next |-> NextCrLf(s, p + 1) + 2]
         /\ s[p + 1] = Star =>
              LET items == ReadItems(s, NextCrLf(s, p + 1) + 2, UpToCrLf(s, p + 1)[1]) IN
              ReadReply(s, p) = [reply |-> <<"array", items.value>>, next |-> items.next]
         /\ s[p + 1] = Dollar =>
              LET bulk == ReadBulk(s, p) IN
              ReadReply(s, p) = [reply |-> IF bulk.value = Nothing THEN <<"null">> ELSE <<"bulk", bulk.value>>,
                                 next |-> bulk.next]
<1> DEFINE line  == UpToCrLf(s, p + 1)
           next  == NextCrLf(s, p + 1) + 2
           items == ReadItems(s, next, line[1])
           bulk  == ReadBulk(s, p)
           mark  == s[p + 1]
<1>1. ReadReply(s, p) =
        CASE mark = Plus   -> [reply |-> <<"ok", line>>, next |-> next]
          [] mark = Minus  -> [reply |-> <<"error", line>>, next |-> next]
          [] mark = Colon  -> [reply |-> <<"int", line[1]>>, next |-> next]
          [] mark = Star   -> [reply |-> <<"array", items.value>>, next |-> items.next]
          [] mark = Dollar ->
               [reply |-> IF bulk.value = Nothing THEN <<"null">> ELSE <<"bulk", bulk.value>>,
                next |-> bulk.next]
  BY DEF ReadReply
<1> HIDE DEF line, next, items, bulk, mark
<1>2. mark = Plus => ReadReply(s, p) = [reply |-> <<"ok", line>>, next |-> next]
  BY <1>1, MarksAre
<1>3. mark = Minus => ReadReply(s, p) = [reply |-> <<"error", line>>, next |-> next]
  BY <1>1, MarksAre
<1>4. mark = Colon => ReadReply(s, p) = [reply |-> <<"int", line[1]>>, next |-> next]
  BY <1>1, MarksAre
<1>5. mark = Star => ReadReply(s, p) = [reply |-> <<"array", items.value>>, next |-> items.next]
  BY <1>1, MarksAre
<1>6. mark = Dollar =>
        ReadReply(s, p) = [reply |-> IF bulk.value = Nothing THEN <<"null">> ELSE <<"bulk", bulk.value>>,
                           next |-> bulk.next]
  BY <1>1, MarksAre
<1> QED
  BY <1>2, <1>3, <1>4, <1>5, <1>6 DEF line, next, items, bulk, mark

\* A reply of one line is read as its mark and its line.
LEMMA LineReplyIsRead ==
  ASSUME NEW s \in Seq(Signs), NEW p \in Nat, NEW mark \in Signs, NEW l \in Seq(Signs),
         \A j \in 1 .. Len(l) : l[j] # LF, Holds(s, p, <<mark>> \o l \o End)
  PROVE  /\ s[p + 1] = mark /\ UpToCrLf(s, p + 1) = l
         /\ NextCrLf(s, p + 1) + 2 = p + Len(<<mark>> \o l \o End)
<1> DEFINE b == <<mark>> \o l \o End
<1>1. s[p + 1] = mark /\ LineAt(s, p + 1, l) /\ Len(b) = Len(l) + 3
  BY LineHeld
<1> HIDE DEF b
<1>2. p + 1 \in Nat /\ Len(l) \in Nat
  OBVIOUS
<1>3. NextCrLf(s, p + 1) = (p + 1) + Len(l) /\ UpToCrLf(s, p + 1) = l
  BY <1>1, <1>2, LineIsRead
<1> DEFINE x == NextCrLf(s, p + 1)  n == Len(l)
<1>4. x + 2 = p + Len(b)
  <2>1. x = (p + 1) + n /\ Len(b) = n + 3 /\ n \in Nat
    BY <1>1, <1>2, <1>3
  <2> HIDE DEF x, n
  <2> QED
    BY <2>1
<1> QED
  BY <1>1, <1>3, <1>4 DEF b

\* The text of a number and its line end.
LEMMA NumberReplyIs ==
  ASSUME NEW mark, NEW n
  PROVE  <<mark, n>> \o End = <<mark>> \o <<n>> \o End
BY DEF End

\* A client reads a reply where it stands, and where it ends.
LEMMA ReplyIsRead ==
  ASSUME NEW r \in Replies
  PROVE  /\ Serialize(r) \in Seq(Signs)
         /\ \A s \in Seq(Signs), p \in Nat :
              Holds(s, p, Serialize(r)) => ReadReply(s, p) = [reply |-> r, next |-> p + Len(Serialize(r))]
<1>1. CASE r \in {"ok", "error"} \X Lines
  <2> DEFINE l    == r[2]
             mark == IF r[1] = "ok" THEN Plus ELSE Minus
             b    == <<mark>> \o l \o End
  <2>1. Serialize(r) = b /\ r = <<r[1], l>> /\ (r[1] = "ok" \/ r[1] = "error") /\ l \in Lines
    <3>1. r = <<r[1], r[2]>> /\ r[1] \in {"ok", "error"} /\ l \in Lines
      BY <1>1
    <3>2. r[1] = "ok" => Serialize(r) = serialize_simple_string(l)
      BY DEF Serialize
    <3>3. r[1] = "error" => Serialize(r) = serialize_error(l)
      BY DEF Serialize
    <3> QED
      BY <3>1, <3>2, <3>3 DEF serialize_simple_string, serialize_error
  <2>2. l \in Seq(Signs) /\ \A j \in 1 .. Len(l) : l[j] # LF
    <3>1. l \in Seq(Symbols) /\ LF \notin Range(l)
      BY <2>1 DEF Lines, Text
    <3>2. Symbols \subseteq Signs
      BY DEF Signs
    <3> HIDE DEF l
    <3>3. l \in Seq(Signs)
      BY <3>1, <3>2, SeqMonotonic
    <3>4. \A j \in 1 .. Len(l) : l[j] \in Range(l)
      BY <3>1 DEF Range
    <3> QED
      BY <3>1, <3>3, <3>4
  <2>3. mark \in Signs
    BY MarksAre DEF Signs
  <2>4. b \in Seq(Signs)
    <3> DEFINE a == <<mark>> \o l
    <3>1. a \in Seq(Signs)
      <4> HIDE DEF l, mark
      <4> QED
        BY <2>2, <2>3
    <3> HIDE DEF a
    <3>2. a \o End \in Seq(Signs)
      BY <3>1, EndedIs
    <3> QED
      BY <3>2 DEF a
  <2>5. ASSUME NEW s \in Seq(Signs), NEW p \in Nat, Holds(s, p, b)
        PROVE  ReadReply(s, p) = [reply |-> r, next |-> p + Len(b)]
    <3> HIDE DEF l, mark
    <3>1. /\ s[p + 1] = mark /\ UpToCrLf(s, p + 1) = l /\ NextCrLf(s, p + 1) + 2 = p + Len(b)
      BY <2>2, <2>3, <2>5, LineReplyIsRead
    <3> HIDE DEF b
    <3>2. CASE r[1] = "ok"
      <4>1. s[p + 1] = Plus
        BY <3>1, <3>2 DEF mark
      <4>2. ReadReply(s, p) = [reply |-> <<"ok", l>>, next |-> p + Len(b)]
        BY <3>1, <4>1, FirstTells
      <4> QED
        BY <2>1, <3>2, <4>2
    <3>3. CASE r[1] = "error"
      <4>1. s[p + 1] = Minus
        BY <3>1, <3>3 DEF mark
      <4>2. ReadReply(s, p) = [reply |-> <<"error", l>>, next |-> p + Len(b)]
        BY <3>1, <4>1, FirstTells
      <4> QED
        BY <2>1, <3>3, <4>2
    <3> QED
      BY <2>1, <3>2, <3>3
  <2> HIDE DEF b
  <2> QED
    BY <2>1, <2>4, <2>5
<1>2. CASE r \in {"int"} \X NumberSymbols
  <2> DEFINE n == r[2]
             b == <<Colon>> \o <<n>> \o End
  <2>1. Serialize(r) = b /\ r = <<"int", n>> /\ n \in NumberSymbols
    <3>1. r = <<"int", n>> /\ n \in NumberSymbols /\ r[1] = "int"
      BY <1>2
    <3>2. Serialize(r) = serialize_integer(n)
      BY <3>1 DEF Serialize
    <3> HIDE DEF n
    <3> QED
      BY <3>1, <3>2, NumberReplyIs DEF serialize_integer
  <2> HIDE DEF n
  <2>2. <<n>> \in Seq(Signs) /\ Len(<<n>>) = 1 /\ <<n>>[1] = n /\ n # LF /\ Colon \in Signs
    BY <2>1, MarksAre DEF Signs
  <2>3. b \in Seq(Signs)
    <3> DEFINE a == <<Colon>> \o <<n>>
    <3>1. a \in Seq(Signs)
      BY <2>2
    <3> HIDE DEF a
    <3>2. a \o End \in Seq(Signs)
      BY <3>1, EndedIs
    <3> QED
      BY <3>2 DEF a
  <2>4. ASSUME NEW s \in Seq(Signs), NEW p \in Nat, Holds(s, p, b)
        PROVE  ReadReply(s, p) = [reply |-> r, next |-> p + Len(b)]
    <3> DEFINE l == <<n>>
    <3>1. l \in Seq(Signs) /\ \A j \in 1 .. Len(l) : l[j] # LF
      BY <2>2
    <3>2. s[p + 1] = Colon /\ UpToCrLf(s, p + 1) = l /\ NextCrLf(s, p + 1) + 2 = p + Len(b)
      <4> HIDE DEF l
      <4>1. Holds(s, p, <<Colon>> \o l \o End)
        BY <2>4 DEF l
      <4>2. /\ s[p + 1] = Colon /\ UpToCrLf(s, p + 1) = l
            /\ NextCrLf(s, p + 1) + 2 = p + Len(<<Colon>> \o l \o End)
        BY <2>2, <3>1, <4>1, LineReplyIsRead
      <4> QED
        BY <4>2 DEF l
    <3> HIDE DEF b
    <3>3. ReadReply(s, p) = [reply |-> <<"int", l[1]>>, next |-> p + Len(b)]
      <4> HIDE DEF l
      <4> QED
        BY <3>2, FirstTells
    <3> QED
      BY <2>1, <2>2, <3>3
  <2> HIDE DEF b
  <2> QED
    BY <2>1, <2>3, <2>4
<1>3. CASE r \in {<<"null">>} \cup {"bulk"} \X Strings
  <2> DEFINE v == IF r = <<"null">> THEN Nothing ELSE r[2]
             b == ItemBytes(v)
  <2>1. Serialize(r) = b /\ v \in Strings \cup {Nothing} /\ r = IF v = Nothing THEN <<"null">> ELSE <<"bulk", v>>
    <3>1. CASE r = <<"null">>
      <4>1. v = Nothing /\ r[1] = "null"
        BY <3>1
      <4>2. Serialize(r) = serialize_null
        BY <4>1 DEF Serialize
      <4> QED
        BY <3>1, <4>1, <4>2 DEF ItemBytes
    <3>2. CASE r \in {"bulk"} \X Strings
      <4>1. r[1] = "bulk" /\ r[2] \in Strings /\ r = <<"bulk", r[2]>>
        BY <3>2
      <4>2. r # <<"null">>
        BY <4>1
      <4>3. v = r[2] /\ r[2] # Nothing
        BY <4>1, <4>2, StringIs
      <4>4. Serialize(r) = serialize_bulk_string(r[2])
        BY <4>1 DEF Serialize
      <4> HIDE DEF v
      <4> QED
        BY <4>1, <4>3, <4>4 DEF ItemBytes
    <3> QED
      BY <1>3, <3>1, <3>2
  <2> HIDE DEF v
  <2>2. b \in Seq(Signs) /\ Len(b) = ItemSize(v)
    BY <2>1, ItemIs
  <2>3. ASSUME NEW s \in Seq(Signs), NEW p \in Nat, Holds(s, p, b)
        PROVE  ReadReply(s, p) = [reply |-> r, next |-> p + Len(b)]
    <3> DEFINE bulk == ReadBulk(s, p)
    <3>1. bulk = [value |-> v, next |-> p + Len(b)] /\ s[p + 1] = Dollar
      BY <2>1, <2>2, <2>3, ItemIsRead
    <3>2. ReadReply(s, p) = [reply |-> IF bulk.value = Nothing THEN <<"null">> ELSE <<"bulk", bulk.value>>,
                             next |-> bulk.next]
      BY <3>1, FirstTells
    <3> HIDE DEF bulk, b
    <3>3. bulk.value = v /\ bulk.next = p + Len(b)
      BY <3>1
    <3> QED
      BY <2>1, <3>2, <3>3
  <2> HIDE DEF b
  <2> QED
    BY <2>1, <2>2, <2>3
<1>4. CASE r \in {"array"} \X {a \in Seq(Strings \cup {Nothing}) : Len(a) \in NumberSymbols}
  <2> DEFINE items == r[2]
             n     == Len(items)
             b     == Nullable(items)
             front == <<Star>> \o <<n>> \o End
  <2>1. /\ Serialize(r) = b /\ r = <<"array", items>>
        /\ items \in Seq(Strings \cup {Nothing}) /\ n \in NumberSymbols
    <3>1. r[1] = "array" /\ r = <<"array", items>> /\ items \in Seq(Strings \cup {Nothing}) /\ n \in NumberSymbols
      BY <1>4
    <3>2. Serialize(r) = Nullable(items)
      BY <3>1 DEF Serialize
    <3> QED
      BY <3>1, <3>2
  <2> HIDE DEF items
  <2>2. n \in Nat /\ b \in Seq(Signs)
    <3>1. b \in Seq(Signs)
      BY <2>1, NullableIs
    <3>2. n \in Nat
      BY <2>1
    <3> QED
      BY <3>1, <3>2
  <2>3. Holds(b, 0, front)
    <3>1. Holds(b, 0, <<Star, n>> \o End)
      BY <2>1, NullableIs
    <3> QED
      BY <3>1, NumberReplyIs
  <2>4. PICK o : ItemsAt(b, items, o)
    BY <2>1, NullableIs
  <2> HIDE DEF b
  <2>5. /\ o \in [0 .. n -> Nat] /\ o[0] = 4 /\ Len(b) = o[n]
        /\ \A i \in 1 .. n : o[i] = o[i - 1] + ItemSize(items[i]) /\ Holds(b, o[i - 1], ItemBytes(items[i]))
    BY <2>4 DEF ItemsAt
  <2>6. <<n>> \in Seq(Signs) /\ Len(<<n>>) = 1 /\ <<n>>[1] = n /\ n # LF /\ Star \in Signs
    BY <2>1, MarksAre DEF Signs
  <2>7. \A i \in 1 .. n : items[i] \in Strings \cup {Nothing}
    BY <2>1
  <2> HIDE DEF n
  <2>8. ASSUME NEW s \in Seq(Signs), NEW p \in Nat, Holds(s, p, b)
        PROVE  ReadReply(s, p) = [reply |-> r, next |-> p + Len(b)]
    <3>1. Len(s) \in Nat /\ Len(b) \in Nat
      BY <2>2
    <3>2. s[p + 1] = Star /\ UpToCrLf(s, p + 1) = <<n>> /\ NextCrLf(s, p + 1) + 2 = p + 4
      <4> DEFINE l == <<n>>
                 f == <<Star>> \o l \o End
      <4>1. l \in Seq(Signs) /\ \A j \in 1 .. Len(l) : l[j] # LF
        BY <2>6
      <4>2. Len(l) = 1
        BY <2>6
      <4> HIDE DEF l
      <4>3. Len(f) = 4 /\ Len(f) \in Nat
        <5>2. Holds(b, 0, <<Star>> \o l \o End)
          BY <2>3 DEF l
        <5>1. Len(<<Star>> \o l \o End) = Len(l) + 3
          BY <2>2, <2>6, <4>1, <5>2, LineHeld
        <5> QED
          BY <4>2, <5>1
      <4>4. Holds(b, 0, f)
        BY <2>3 DEF l
      <4> HIDE DEF f
      <4>5. Holds(s, p + 0, f) /\ p + 0 = p
        BY <2>8, <3>1, <4>3, <4>4, HoldsWithin
      <4>6. Holds(s, p, <<Star>> \o l \o End)
        BY <4>5 DEF f
      <4>7. s[p + 1] = Star /\ UpToCrLf(s, p + 1) = l /\ NextCrLf(s, p + 1) + 2 = p + Len(<<Star>> \o l \o End)
        BY <2>6, <4>1, <4>6, LineReplyIsRead
      <4> QED
        BY <4>3, <4>7 DEF f, l
    <3> DEFINE q == [i \in 0 .. n |-> p + o[i]]
    <3>3. q \in [0 .. n -> Nat] /\ q[0] = p + 4 /\ q[n] = p + Len(b) /\ \A i \in 0 .. n : q[i] = p + o[i]
      <4>1. 0 \in 0 .. n /\ n \in 0 .. n
        BY <2>2
      <4> QED
        BY <2>5, <4>1
    <3> HIDE DEF q
    <3>4. ASSUME NEW i \in 1 .. n
          PROVE  q[i] = q[i - 1] + ItemSize(items[i]) /\ Holds(s, q[i - 1], ItemBytes(items[i]))
      <4>1. i - 1 \in 0 .. n /\ i \in 0 .. n
        BY <2>2
      <4> DEFINE w == ItemSize(items[i])  here == o[i]  last == o[i - 1]
      <4>2. here \in Nat /\ last \in Nat /\ q[i] = p + here /\ q[i - 1] = p + last
        BY <2>5, <3>3, <4>1
      <4>3. here = last + w /\ Holds(b, last, ItemBytes(items[i]))
        BY <2>5
      <4>4. w \in Nat /\ Len(ItemBytes(items[i])) \in Nat
        BY <2>7, ItemIs
      <4> HIDE DEF w, here, last
      <4>5. q[i] = q[i - 1] + w
        BY <4>2, <4>3, <4>4
      <4>6. Holds(s, p + last, ItemBytes(items[i]))
        BY <2>8, <3>1, <4>2, <4>3, <4>4, HoldsWithin
      <4> QED
        BY <4>2, <4>5, <4>6 DEF w
    <3>5. ReadItems(s, q[0], n) = [value |-> items, next |-> q[n]]
      BY <2>1, <3>3, <3>4, ItemsAreRead DEF n
    <3> DEFINE line == UpToCrLf(s, p + 1)
               read == ReadItems(s, NextCrLf(s, p + 1) + 2, line[1])
    <3>6. ReadReply(s, p) = [reply |-> <<"array", read.value>>, next |-> read.next]
      BY <3>2, FirstTells
    <3>7. read = [value |-> items, next |-> p + Len(b)]
      BY <2>6, <3>2, <3>3, <3>5
    <3> HIDE DEF read
    <3>8. read.value = items /\ read.next = p + Len(b)
      BY <3>7
    <3> QED
      BY <2>1, <3>6, <3>8
  <2> QED
    BY <2>1, <2>2, <2>8
<1> QED
  BY <1>1, <1>2, <1>3, <1>4 DEF Replies

\* Two replies sent one behind the other are read as those two, whatever
\* bytes their strings have: RespParser.cpp:158-199, CommandParser.cpp:110-121.
THEOREM RepliesAreFramed == Spec => []PipelinedRepliesAreFramed
<1>1. Computed => PipelinedRepliesAreFramed
  <2> DEFINE a == Serialize(input.first)
             b == Serialize(input.second)
             s == a \o b
             first  == ReadReply(output, 0)
             second == ReadReply(output, first.next)
  <2>1. SUFFICES ASSUME Computed, input.family = "replies", output # None
                 PROVE  first.reply = input.first /\ second.reply = input.second /\ second.next = Len(output)
    BY DEF PipelinedRepliesAreFramed
  <2>2. input \in ReplyInputs /\ output = s
    BY <2>1, InputOfFamily DEF Computed
  <2>3. input.first \in Replies /\ input.second \in Replies
    BY <2>2, ReplyInputsAssumption
  <2>4. a \in Seq(Signs) /\ b \in Seq(Signs)
    BY <2>3, ReplyIsRead
  <2>5. s \in Seq(Signs) /\ Len(s) = Len(a) + Len(b) /\ Holds(s, 0, a) /\ Holds(s, Len(a), b)
    BY <2>4, ConcatHolds
  <2>6. Len(a) \in Nat /\ 0 + Len(a) = Len(a)
    BY <2>4
  <2>7. ReadReply(s, 0) = [reply |-> input.first, next |-> 0 + Len(a)]
    <3> HIDE DEF s
    <3> QED
      BY <2>3, <2>5, ReplyIsRead
  <2>8. ReadReply(s, Len(a)) = [reply |-> input.second, next |-> Len(a) + Len(b)]
    <3> HIDE DEF s
    <3> QED
      BY <2>3, <2>5, <2>6, ReplyIsRead
  <2> HIDE DEF s, a, b
  <2>9. first = [reply |-> input.first, next |-> Len(a)]
    BY <2>2, <2>6, <2>7
  <2> HIDE DEF first
  <2>10. first.reply = input.first /\ first.next = Len(a)
    BY <2>9
  <2>11. second = [reply |-> input.second, next |-> Len(a) + Len(b)]
    BY <2>2, <2>8, <2>10
  <2> HIDE DEF second
  <2>12. second.reply = input.second /\ second.next = Len(a) + Len(b)
    BY <2>11
  <2> QED
    BY <2>2, <2>5, <2>10, <2>12
<1> QED
  BY <1>1, AlwaysComputed, PTL

-----------------------------------------------------------------------------
(* Plain text                                                              *)

\* What the reader of plain text keeps between two characters.
PlainScans == [tokens : Seq(Text), current : Text, quote : Symbols \cup {Nothing}]

LEMMA FlushIs ==
  ASSUME NEW scan \in PlainScans
  PROVE  Flush(scan) \in PlainScans
<1>1. scan.tokens \in Seq(Text) /\ scan.current \in Text /\ << >> \in Text
  BY DEF PlainScans, Text
<1>2. Append(scan.tokens, scan.current) \in Seq(Text)
  BY <1>1
<1> DEFINE ts == Append(scan.tokens, scan.current)
<1> HIDE DEF ts
<1>3. [scan EXCEPT !.tokens = ts, !.current = << >>] \in PlainScans
  BY <1>1, <1>2 DEF PlainScans, ts
<1> QED
  BY <1>3 DEF Flush, ts

LEMMA CharIs ==
  ASSUME NEW scan \in PlainScans, NEW c \in Symbols
  PROVE  Char(scan, c) \in PlainScans
<1>1. Append(scan.current, c) \in Text
  BY DEF PlainScans, Text
<1> DEFINE cs == Append(scan.current, c)
<1> HIDE DEF cs
<1>2. [scan EXCEPT !.current = cs] \in PlainScans
  BY <1>1 DEF PlainScans, cs
<1>3. [scan EXCEPT !.quote = IF scan.quote = Nothing THEN c ELSE Nothing] \in PlainScans
  BY DEF PlainScans
<1>4. Flush(scan) \in PlainScans
  BY FlushIs
<1>5. CASE c \in {CR, LF}
  BY <1>5, MarksAre DEF Char
<1>6. CASE c \notin {CR, LF} /\ c \in {Quote, Tick} /\ scan.quote \in {Nothing, c}
  BY <1>3, <1>6, MarksAre DEF Char
<1>7. CASE c \notin {CR, LF} /\ ~(c \in {Quote, Tick} /\ scan.quote \in {Nothing, c}) /\ c = Blank /\ scan.quote = Nothing
  <2>1. Char(scan, c) = Flush(scan)
    BY <1>7, MarksAre DEF Char
  <2> QED
    BY <1>4, <2>1
<1>8. CASE /\ c \notin {CR, LF} /\ ~(c \in {Quote, Tick} /\ scan.quote \in {Nothing, c})
           /\ ~(c = Blank /\ scan.quote = Nothing)
  <2>1. Char(scan, c) = [scan EXCEPT !.current = Append(@, c)]
    BY <1>8 DEF Char
  <2> QED
    BY <1>2, <2>1 DEF cs
<1> QED
  BY <1>5, <1>6, <1>7, <1>8

\* What the reader makes of a text, character by character.
Reads(h, s) ==
  /\ h \in [0 .. Len(s) -> PlainScans]
  /\ h[0] = [tokens |-> << >>, current |-> << >>, quote |-> Nothing]
  /\ \A i \in 1 .. Len(s) : h[i] = Char(h[i - 1], s[i])

LEMMA CharChain ==
  ASSUME NEW s \in Text
  PROVE  \E h : Reads(h, s) /\ parse_plain_text(s) = Flush(h[Len(s)]).tokens
<1> DEFINE m  == Len(s)
           st == [tokens |-> << >>, current |-> << >>, quote |-> Nothing]
           F == [i \in 1 .. m |-> [x \in PlainScans |-> Char(x, s[i])]]
           Eqn(g) == g = [x \in SUBSET DOMAIN s |->
                            IF x = {} THEN st ELSE Char(g[x \ {Max(x)}], s[Max(x)])]
           it == CHOOSE g : Eqn(g)
<1>1. parse_plain_text(s) = Flush(it[DOMAIN s]).tokens
  BY DEF parse_plain_text, FoldLeft, MapThenFoldSet
<1>2. m \in Nat /\ DOMAIN s = 1 .. m /\ \A i \in 1 .. m : s[i] \in Symbols
  BY DEF Text
<1>4. st \in PlainScans
  BY DEF PlainScans, Text
<1>5. F \in [1 .. m -> [PlainScans -> PlainScans]]
  BY <1>2, CharIs
<1>6. PICK g : Folding(g, PlainScans, st, m, F)
  <2> HIDE DEF F, m, st
  <2> QED
    BY <1>2, <1>4, <1>5, FoldExists
<1> HIDE DEF st, m
<1>7. Eqn(g)
  <2>1. ASSUME NEW x \in (SUBSET (1 .. m)) \ {{}} PROVE g[x] = Char(g[x \ {Max(x)}], s[Max(x)])
    <3>1. Max(x) \in 1 .. m /\ g[x] = F[Max(x)][g[x \ {Max(x)}]]
      BY <1>6 DEF Folding
    <3>2. x \ {Max(x)} \in SUBSET (1 .. m)
      OBVIOUS
    <3>3. g[x \ {Max(x)}] \in PlainScans
      BY <1>6, <3>2 DEF Folding
    <3> QED
      BY <3>1, <3>3
  <2>2. g \in [SUBSET DOMAIN s -> PlainScans] /\ g[{}] = st
    BY <1>2, <1>6 DEF Folding
  <2> QED
    BY <1>2, <2>1, <2>2
<1>8. Eqn(it)
  <2> HIDE DEF Eqn
  <2> QED
    BY <1>7
<1> HIDE DEF it
<1>9. it[{}] = st
  BY <1>2, <1>8
<1>10. ASSUME NEW x \in (SUBSET (1 .. m)) \ {{}}, it[x \ {Max(x)}] \in PlainScans
       PROVE  it[x] = F[Max(x)][it[x \ {Max(x)}]]
  <2>1. Max(x) \in 1 .. m
    BY <1>6 DEF Folding
  <2>2. it[x] = Char(it[x \ {Max(x)}], s[Max(x)])
    BY <1>2, <1>8, <1>10
  <2> QED
    BY <1>10, <2>1, <2>2
<1> HIDE DEF F
<1>11. PICK h : Steps(h, PlainScans, st, m, F) /\ h[m] = it[1 .. m]
  <2>1. Iterates(it, PlainScans, st, m, F)
    BY <1>9, <1>10 DEF Iterates
  <2> QED
    BY <1>2, <1>4, <1>5, <2>1, FoldSteps
<1>12. ASSUME NEW i \in 1 .. m PROVE h[i] = Char(h[i - 1], s[i])
  <2>1. h[i - 1] \in PlainScans
    BY <1>2, <1>11 DEF Steps
  <2> QED
    BY <1>11, <2>1 DEF F, Steps
<1>13. Reads(h, s)
  BY <1>11, <1>12 DEF Reads, Steps, m, st
<1> QED
  BY <1>1, <1>2, <1>11, <1>13 DEF m

\* One more character.
LEMMA NextChar ==
  ASSUME NEW s \in Text, NEW h, Reads(h, s), NEW p \in Nat, p + 1 <= Len(s)
  PROVE  h[p + 1] = Char(h[p], s[p + 1]) /\ h[p] \in PlainScans
<1>1. Len(s) \in Nat
  BY DEF Text
<1>2. p + 1 \in 1 .. Len(s) /\ (p + 1) - 1 = p /\ p \in 0 .. Len(s)
  BY <1>1
<1> QED
  BY <1>2 DEF Reads

\* Outside of quotes, and with what has been read.
Outside(ts, c)   == [tokens |-> ts, current |-> c, quote |-> Nothing]
Inside(ts, c, q) == [tokens |-> ts, current |-> c, quote |-> q]

LEMMA CharOutside ==
  ASSUME NEW ts, NEW c
  PROVE  /\ \A q \in {Quote, Tick} : Char(Outside(ts, c), q) = Inside(ts, c, q)
         /\ Char(Outside(ts, c), Blank) = IF c = << >> THEN Outside(ts, c) ELSE Outside(Append(ts, c), << >>)
         /\ \A e \in {CR, LF} : Char(Outside(ts, c), e) = Outside(ts, c)
<1>1. ASSUME NEW q \in {Quote, Tick} PROVE Char(Outside(ts, c), q) = Inside(ts, c, q)
  BY MarksAre DEF Char, Outside, Inside
<1>2. Char(Outside(ts, c), Blank) = Flush(Outside(ts, c))
  BY MarksAre DEF Char, Outside
<1>3. Flush(Outside(ts, c)) = IF c = << >> THEN Outside(ts, c) ELSE Outside(Append(ts, c), << >>)
  <2> DEFINE o == Outside(ts, c)
  <2>1. o.tokens = ts /\ o.current = c /\ o = [tokens |-> ts, current |-> c, quote |-> Nothing]
    BY DEF Outside
  <2> HIDE DEF o
  <2>2. CASE c = << >>
    <3>1. Flush(o) = o
      BY <2>1, <2>2 DEF Flush
    <3> QED
      BY <2>2, <3>1 DEF o
  <2>3. CASE c # << >>
    <3>1. Flush(o) = [o EXCEPT !.tokens = Append(ts, c), !.current = << >>]
      BY <2>1, <2>3 DEF Flush
    <3> DEFINE more == Append(ts, c)  none == << >>
    <3> HIDE DEF more, none
    <3> DEFINE x == [o EXCEPT !.tokens = more, !.current = none]
    <3>3. o \in [tokens : {ts}, current : {c}, quote : {Nothing}]
      BY <2>1
    <3>4. x \in [tokens : {more}, current : {none}, quote : {Nothing}]
      BY <3>3
    <3> HIDE DEF x
    <3>2. x = [tokens |-> more, current |-> none, quote |-> Nothing]
      BY <3>4
    <3> QED
      BY <2>3, <3>1, <3>2 DEF x, o, more, none, Outside
  <2> QED
    BY <2>2, <2>3
<1>4. \A e \in {CR, LF} : Char(Outside(ts, c), e) = Outside(ts, c)
  BY MarksAre DEF Char
<1> QED
  BY <1>1, <1>2, <1>3, <1>4

LEMMA CharInside ==
  ASSUME NEW ts, NEW c, NEW q \in {Quote, Tick}
  PROVE  /\ Char(Inside(ts, c, q), q) = Outside(ts, c)
         /\ \A x \in Symbols \ {CR, LF, q} : Char(Inside(ts, c, q), x) = Inside(ts, Append(c, x), q)
<1>1. q # Nothing /\ q \notin {CR, LF}
  BY MarksAre
<1>2. Char(Inside(ts, c, q), q) = Outside(ts, c)
  BY <1>1 DEF Char, Inside, Outside
<1>3. ASSUME NEW x \in Symbols \ {CR, LF, q} PROVE Char(Inside(ts, c, q), x) = Inside(ts, Append(c, x), q)
  BY <1>1, <1>3, MarksAre DEF Char, Inside
<1> QED
  BY <1>2, <1>3

\* Words that a client may put between quotes.
QuotedWords == {w \in [quote : {Quote, Tick}, word : Text] : w.word # << >> /\ Range(w.word) \cap {CR, LF, w.quote} = {}}

LEMMA BetweenIs ==
  ASSUME NEW w \in QuotedWords
  PROVE  LET b == Between(w)  n == Len(w.word) IN
         /\ b \in Text /\ Len(b) = n + 2 /\ n \in Nat
         /\ b[1] = w.quote /\ b[n + 2] = w.quote /\ \A j \in 1 .. n : b[1 + j] = w.word[j]
<1> DEFINE v   == w.word
           one == <<w.quote>>
           a   == one \o v
           b   == a \o one
           n   == Len(v)
<1>1. v \in Seq(Symbols) /\ n \in Nat /\ w.quote \in Symbols
  BY MarksAre DEF QuotedWords, Text
<1>2. one \in Seq(Symbols) /\ Len(one) = 1 /\ one[1] = w.quote
  BY <1>1
<1>3. Between(w) = b
  BY DEF Between
<1> HIDE DEF one, v
<1>4. a \in Seq(Symbols) /\ Len(a) = 1 + n /\ Holds(a, 0, one) /\ Holds(a, 1, v)
  BY <1>1, <1>2, ConcatHolds
<1> HIDE DEF a
<1>5. b \in Seq(Symbols) /\ Len(b) = (1 + n) + 1 /\ Holds(b, 0, a) /\ Holds(b, 1 + n, one)
  <2>1. b \in Seq(Symbols) /\ Len(b) = Len(a) + Len(one) /\ Holds(b, 0, a) /\ Holds(b, Len(a), one)
    BY <1>2, <1>4, ConcatHolds
  <2> HIDE DEF b, n
  <2> QED
    BY <1>2, <1>4, <2>1
<1> HIDE DEF b
<1>6. a[0 + 1] = one[1] /\ \A j \in 1 .. n : a[1 + j] = v[j]
  BY <1>1, <1>2, <1>4 DEF Holds
<1> HIDE DEF n
<1>7. (\A j \in 1 .. 1 + n : b[0 + j] = a[j]) /\ b[(1 + n) + 1] = one[1]
  BY <1>2, <1>4, <1>5 DEF Holds
<1>8. b[1] = a[1] /\ \A j \in 1 .. n : b[1 + j] = a[1 + j]
  <2>1. 1 \in 1 .. 1 + n /\ 0 + 1 = 1 /\ \A j \in 1 .. n : 1 + j \in 1 .. 1 + n /\ 0 + (1 + j) = 1 + j
    BY <1>1
  <2> QED
    BY <1>7, <2>1
<1>9. (1 + n) + 1 = n + 2
  BY <1>1
<1> QED
  BY <1>1, <1>2, <1>3, <1>5, <1>6, <1>7, <1>8, <1>9 DEF n, v, Text

\* A word between quotes is taken without them.
LEMMA WordIsRead ==
  ASSUME NEW s \in Text, NEW h, Reads(h, s), NEW p \in Nat, NEW w \in QuotedWords, NEW ts,
         Holds(s, p, Between(w)), h[p] = Outside(ts, << >>)
  PROVE  h[p + Len(w.word) + 2] = Outside(ts, w.word)
<1> DEFINE b == Between(w)
           v == w.word
           q == w.quote
           n == Len(v)
<1>1. /\ Len(b) = n + 2 /\ n \in Nat
      /\ b[1] = q /\ b[n + 2] = q /\ \A j \in 1 .. n : b[1 + j] = v[j]
  BY BetweenIs
<1>2. v \in Seq(Symbols) /\ q \in {Quote, Tick} /\ \A j \in 1 .. n : v[j] \in Symbols \ {CR, LF, q}
  <2>1. v \in Seq(Symbols) /\ q \in {Quote, Tick} /\ Range(v) \cap {CR, LF, q} = {}
    BY DEF QuotedWords, Text
  <2> HIDE DEF v, q
  <2>2. \A j \in 1 .. n : v[j] \in Range(v) /\ v[j] \in Symbols
    BY <2>1 DEF Range
  <2> QED
    BY <2>1, <2>2
<1> HIDE DEF b
<1>3. p + (n + 2) <= Len(s) /\ \A j \in 1 .. n + 2 : s[p + j] = b[j]
  BY <1>1 DEF b, Holds
<1> HIDE DEF v, q, n
<1>4. Len(s) \in Nat
  BY DEF Text
<1> DEFINE T == {i \in Nat : i <= n => h[(p + 1) + i] = Inside(ts, SubSeq(v, 1, i), q)}
<1>5. 0 \in T
  <2>1. p + 1 <= Len(s) /\ s[p + 1] = q
    <3>1. 1 \in 1 .. n + 2
      BY <1>1
    <3> QED
      BY <1>1, <1>3, <1>4, <3>1
  <2>2. h[p + 1] = Char(h[p], q)
    BY <2>1, NextChar
  <2>3. h[p + 1] = Inside(ts, << >>, q)
    BY <1>2, <2>2, CharOutside
  <2>4. SubSeq(v, 1, 0) = << >> /\ (p + 1) + 0 = p + 1
    BY <1>2
  <2> QED
    BY <2>3, <2>4
<1>6. ASSUME NEW i \in Nat, i \in T PROVE i + 1 \in T
  <2>1. SUFFICES ASSUME i + 1 <= n PROVE h[(p + 1) + (i + 1)] = Inside(ts, SubSeq(v, 1, i + 1), q)
    OBVIOUS
  <2> DEFINE here == (p + 1) + i
  <2>2. /\ here \in Nat /\ here + 1 = (p + 1) + (i + 1) /\ here + 1 <= Len(s)
        /\ i + 1 \in 1 .. n /\ here + 1 = p + (1 + (i + 1)) /\ 1 + (i + 1) \in 1 .. n + 2
    BY <1>1, <1>3, <1>4, <2>1
  <2>3. s[here + 1] = v[i + 1]
    BY <1>1, <1>3, <2>2
  <2>4. h[here] = Inside(ts, SubSeq(v, 1, i), q)
    BY <1>1, <1>6, <2>1
  <2> HIDE DEF here
  <2>5. h[here + 1] = Char(h[here], v[i + 1])
    BY <2>2, <2>3, NextChar
  <2>6. h[here + 1] = Inside(ts, Append(SubSeq(v, 1, i), v[i + 1]), q)
    BY <1>2, <2>2, <2>4, <2>5, CharInside
  <2>7. Append(SubSeq(v, 1, i), v[i + 1]) = SubSeq(v, 1, i + 1)
    BY <1>2, <2>2 DEF n
  <2> QED
    BY <2>2, <2>6, <2>7
<1> HIDE DEF T
<1>7. n \in T
  BY <1>1, <1>5, <1>6, SetInduction
<1> DEFINE last == (p + 1) + n
<1>8. h[last] = Inside(ts, v, q)
  <2>1. SubSeq(v, 1, n) = v
    BY <1>2 DEF n
  <2>2. h[(p + 1) + n] = Inside(ts, SubSeq(v, 1, n), q)
    BY <1>1, <1>7 DEF T
  <2> QED
    BY <2>1, <2>2
<1>9. last \in Nat /\ last + 1 <= Len(s) /\ last + 1 = p + (n + 2) /\ n + 2 \in 1 .. n + 2 /\ last + 1 = p + n + 2
  BY <1>1, <1>3, <1>4
<1>10. s[last + 1] = q
  BY <1>1, <1>3, <1>9
<1> HIDE DEF last
<1>11. h[last + 1] = Char(h[last], q)
  BY <1>9, <1>10, NextChar
<1>12. h[last + 1] = Outside(ts, v)
  BY <1>2, <1>8, <1>11, CharInside
<1> QED
  BY <1>9, <1>12 DEF n, v

\* There are only spaces from p on, gap of them.
GapAt(s, p, gap) == p + gap <= Len(s) /\ \A j \in 1 .. gap : s[p + j] = Blank

\* Spaces end what has been read, once.
LEMMA GapIsRead ==
  ASSUME NEW s \in Text, NEW h, Reads(h, s), NEW p \in Nat, NEW ts, NEW c, c # << >>,
         NEW gap \in Nat \ {0}, GapAt(s, p, gap),
         h[p] = Outside(ts, c)
  PROVE  h[p + gap] = Outside(Append(ts, c), << >>)
<1> DEFINE all == Append(ts, c)
           T   == {i \in Nat : i + 1 <= gap => h[p + (i + 1)] = Outside(all, << >>)}
<1>1. Len(s) \in Nat
  BY DEF Text
<1>5. p + gap <= Len(s) /\ \A j \in 1 .. gap : s[p + j] = Blank
  BY DEF GapAt
<1> HIDE DEF all
<1>2. 0 \in T
  <2>1. p + 1 <= Len(s) /\ s[p + 1] = Blank
    BY <1>1, <1>5
  <2>2. h[p + 1] = Char(h[p], Blank)
    BY <2>1, NextChar
  <2>3. h[p + 1] = Outside(all, << >>)
    BY <2>2, CharOutside DEF all
  <2>4. 0 + 1 = 1
    OBVIOUS
  <2> QED
    BY <2>3, <2>4
<1>3. ASSUME NEW i \in Nat, i \in T PROVE i + 1 \in T
  <2>1. SUFFICES ASSUME (i + 1) + 1 <= gap PROVE h[p + ((i + 1) + 1)] = Outside(all, << >>)
    OBVIOUS
  <2> DEFINE here == p + (i + 1)
  <2>2. /\ here \in Nat /\ here + 1 = p + ((i + 1) + 1) /\ here + 1 <= Len(s)
        /\ (i + 1) + 1 \in 1 .. gap /\ i + 1 <= gap
    BY <1>1, <1>5, <2>1
  <2>3. s[here + 1] = Blank
    BY <1>5, <2>2
  <2>4. h[here] = Outside(all, << >>)
    BY <1>3, <2>2
  <2> HIDE DEF here
  <2>5. h[here + 1] = Char(h[here], Blank)
    BY <2>2, <2>3, NextChar
  <2>6. h[here + 1] = Outside(all, << >>)
    BY <2>4, <2>5, CharOutside
  <2> QED
    BY <2>2, <2>6
<1> HIDE DEF T
<1>4. gap - 1 \in T /\ (gap - 1) + 1 = gap
  <2>1. gap - 1 \in Nat /\ (gap - 1) + 1 = gap
    OBVIOUS
  <2> QED
    BY <1>2, <1>3, <2>1, SetInduction
<1> QED
  BY <1>4 DEF T, all

\* Where the words of a quoted text end, and what follows them.
WordsAt(t, words, gap, off) ==
  /\ off \in [0 .. Len(words) - 1 -> Nat]
  /\ off[0] = Len(words[1].word) + 2 /\ Holds(t, 0, Between(words[1]))
  /\ \A i \in 1 .. Len(words) - 1 :
       /\ off[i] = off[i - 1] + gap + Len(words[i + 1].word) + 2
       /\ \A j \in 1 .. gap : t[off[i - 1] + j] = Blank
       /\ Holds(t, off[i - 1] + gap, Between(words[i + 1]))
  /\ Len(t) = off[Len(words) - 1] + 2
  /\ t[Len(t) - 1] = CR /\ t[Len(t)] = LF

LEMMA QuotedIs ==
  ASSUME NEW words \in Seq(QuotedWords), words # << >>, NEW gap \in Nat \ {0}
  PROVE  /\ Quoted(words, gap) \o End \in Text
         /\ \E off : WordsAt(Quoted(words, gap) \o End, words, gap, off)
<1> DEFINE m     == Len(words) - 1
           blank == [j \in 1 .. gap |-> Blank]
           parts == [i \in 1 .. m |-> blank \o Between(words[i + 1])]
           head  == Between(words[1])
           body  == FlattenSeq(parts)
           most  == head \o body
           t     == most \o End
           size  == [i \in 0 .. m |-> Len(words[i + 1].word)]
<1>1. Quoted(words, gap) = most
  BY DEF Quoted
<1>2. m \in Nat /\ \A i \in 0 .. m : words[i + 1] \in QuotedWords
  <2>1. Len(words) \in Nat /\ Len(words) # 0
    OBVIOUS
  <2>2. \A i \in 0 .. m : i + 1 \in 1 .. Len(words)
    BY <2>1
  <2> QED
    BY <2>1, <2>2
<1>3. \A i \in 0 .. m : /\ Between(words[i + 1]) \in Seq(Symbols) /\ size[i] \in Nat
                        /\ Len(Between(words[i + 1])) = size[i] + 2
  <2>1. ASSUME NEW i \in 0 .. m
        PROVE  /\ Between(words[i + 1]) \in Seq(Symbols) /\ size[i] \in Nat
               /\ Len(Between(words[i + 1])) = size[i] + 2
    <3> DEFINE w == words[i + 1]
    <3>1. w \in QuotedWords /\ size[i] = Len(w.word)
      BY <1>2
    <3> HIDE DEF w, size
    <3>2. Between(w) \in Text /\ Len(Between(w)) = Len(w.word) + 2 /\ Len(w.word) \in Nat
      BY <3>1, BetweenIs
    <3> QED
      BY <3>1, <3>2 DEF w, Text
  <2> QED
    BY <2>1
<1>4. blank \in Seq(Symbols) /\ Len(blank) = gap /\ \A j \in 1 .. gap : blank[j] = Blank
  BY MarksAre
<1>5. size[0] = Len(words[1].word) /\ \A i \in 1 .. m : size[i] = Len(words[i + 1].word) /\ i \in 0 .. m /\ i - 1 \in 0 .. m
  BY <1>2
<1> HIDE DEF blank, size
<1>6. head \in Seq(Symbols) /\ Len(head) = size[0] + 2
  <2>1. 0 \in 0 .. m /\ 0 + 1 = 1
    BY <1>2
  <2> QED
    BY <1>3, <2>1
<1> HIDE DEF head, m
<1>7. ASSUME NEW i \in 1 .. m
      PROVE  /\ parts[i] \in Seq(Symbols) /\ Len(parts[i]) = gap + (size[i] + 2)
             /\ Holds(parts[i], 0, blank) /\ Holds(parts[i], gap, Between(words[i + 1]))
  <2> DEFINE b == Between(words[i + 1])
  <2>1. b \in Seq(Symbols) /\ Len(b) = size[i] + 2
    BY <1>3, <1>5
  <2>2. parts[i] = blank \o b
    OBVIOUS
  <2> HIDE DEF b, parts
  <2>3. /\ blank \o b \in Seq(Symbols) /\ Len(blank \o b) = Len(blank) + Len(b)
        /\ Holds(blank \o b, 0, blank) /\ Holds(blank \o b, Len(blank), b)
    BY <1>4, <2>1, ConcatHolds
  <2> QED
    BY <1>4, <2>1, <2>2, <2>3 DEF b
<1>8. parts \in Seq(Seq(Symbols)) /\ Len(parts) = m
  <2>1. parts \in [1 .. m -> Seq(Symbols)]
    BY <1>7
  <2> HIDE DEF parts
  <2> QED
    BY <1>2, <2>1
<1> HIDE DEF parts
<1>9. PICK o \in [0 .. m -> Nat] :
        /\ o[0] = 0
        /\ \A i \in 1 .. m : o[i] = o[i - 1] + Len(parts[i])
        /\ Len(body) = o[m]
        /\ \A i \in 1 .. m : Holds(body, o[i - 1], parts[i])
  <2>1. \E o \in [0 .. Len(parts) -> Nat] :
          /\ o[0] = 0
          /\ \A i \in 1 .. Len(parts) : o[i] = o[i - 1] + Len(parts[i])
          /\ Len(body) = o[Len(parts)]
          /\ \A i \in 1 .. Len(parts) : Holds(body, o[i - 1], parts[i])
    BY <1>8, FlattenIs
  <2> QED
    BY <1>8, <2>1
<1>10. body \in Seq(Symbols)
  BY <1>8, FlattenIs
<1> HIDE DEF body
<1>11. most \in Seq(Symbols) /\ Len(most) = Len(head) + Len(body) /\ Holds(most, 0, head) /\ Holds(most, Len(head), body)
  BY <1>6, <1>10, ConcatHolds
<1> HIDE DEF most
<1>12. End \in Seq(Symbols) /\ Len(End) = 2 /\ End[1] = CR /\ End[2] = LF
  <2>1. CR \in Symbols /\ LF \in Symbols
    BY MarksAre
  <2> QED
    BY <2>1 DEF End
<1>13. t \in Seq(Symbols) /\ Len(t) = Len(most) + 2 /\ Holds(t, 0, most) /\ Holds(t, Len(most), End)
  <2>1. t \in Seq(Symbols) /\ Len(t) = Len(most) + Len(End) /\ Holds(t, 0, most) /\ Holds(t, Len(most), End)
    BY <1>11, <1>12, ConcatHolds
  <2> HIDE DEF t
  <2> QED
    BY <1>12, <2>1
<1> HIDE DEF t
<1> DEFINE base == size[0] + 2
           off  == [i \in 0 .. m |-> base + o[i]]
<1>14. base \in Nat /\ 0 \in 0 .. m /\ m \in 0 .. m
  BY <1>2, <1>3
<1>15. off \in [0 .. m -> Nat] /\ off[0] = base /\ Len(most) = off[m] /\ \A i \in 0 .. m : off[i] = base + o[i]
  BY <1>6, <1>9, <1>11, <1>14
<1> HIDE DEF off
<1>16. Holds(t, 0, head)
  <2>1. 0 + 0 = 0 /\ Len(t) \in Nat /\ Len(most) \in Nat /\ Len(head) \in Nat
    BY <1>6, <1>11, <1>13
  <2>2. Holds(t, 0 + 0, head)
    BY <1>11, <1>13, <2>1, HoldsWithin
  <2> QED
    BY <2>1, <2>2
<1>17. Holds(t, base, body)
  <2>1. Len(t) \in Nat /\ Len(most) \in Nat /\ Len(body) \in Nat /\ Len(head) = base /\ 0 + base = base
    BY <1>6, <1>10, <1>11, <1>13, <1>14
  <2> HIDE DEF base
  <2>2. Holds(t, 0 + base, body)
    BY <1>11, <1>13, <1>14, <2>1, HoldsWithin
  <2> QED
    BY <2>1, <2>2
<1> HIDE DEF base
<1>18. ASSUME NEW i \in 1 .. m
       PROVE  /\ off[i] = off[i - 1] + gap + size[i] + 2
              /\ \A j \in 1 .. gap : t[off[i - 1] + j] = Blank
              /\ Holds(t, off[i - 1] + gap, Between(words[i + 1]))
  <2> DEFINE here == o[i]  last == o[i - 1]  w == size[i]  part == parts[i]  p == base + last
  <2>1. here \in Nat /\ last \in Nat /\ w \in Nat /\ off[i] = base + here /\ off[i - 1] = p
    BY <1>3, <1>5, <1>9, <1>15
  <2>2. here = last + Len(part) /\ Holds(body, last, part)
    BY <1>9
  <2>3. /\ part \in Seq(Symbols) /\ Len(part) = gap + (w + 2)
        /\ Holds(part, 0, blank) /\ Holds(part, gap, Between(words[i + 1]))
    BY <1>7
  <2>4. Len(Between(words[i + 1])) \in Nat
    <3>1. Len(Between(words[i + 1])) = w + 2
      BY <1>3, <1>5
    <3> QED
      BY <2>1, <3>1
  <2> HIDE DEF here, last, w, part
  <2>5. Len(t) \in Nat /\ Len(body) \in Nat /\ Len(part) \in Nat /\ Len(blank) \in Nat
    BY <1>4, <1>10, <1>13, <2>3
  <2>6. Holds(t, p, part)
    BY <1>14, <1>17, <2>1, <2>2, <2>5, HoldsWithin
  <2>7. p \in Nat /\ p + 0 = p
    BY <1>14, <2>1
  <2>8. off[i] = p + gap + w + 2
    BY <1>14, <2>1, <2>2, <2>3
  <2> HIDE DEF p
  <2>9. Holds(t, p + 0, blank)
    BY <2>3, <2>5, <2>6, <2>7, HoldsWithin
  <2>10. Holds(t, p + gap, Between(words[i + 1]))
    BY <2>3, <2>4, <2>5, <2>6, <2>7, HoldsWithin
  <2>11. \A j \in 1 .. gap : t[p + j] = Blank
    BY <1>4, <2>7, <2>9 DEF Holds
  <2> QED
    BY <2>1, <2>8, <2>10, <2>11 DEF w
<1>19. Len(t) = off[m] + 2 /\ t[Len(t) - 1] = CR /\ t[Len(t)] = LF
  <2> DEFINE e == Len(most)
  <2>4. e \in Nat
    BY <1>11
  <2>1. e \in Nat /\ Len(t) = e + 2 /\ off[m] = e
    BY <1>13, <1>15, <2>4
  <2>2. t[e + 1] = End[1] /\ t[e + 2] = End[2]
    BY <1>12, <1>13 DEF Holds
  <2> HIDE DEF e
  <2>3. Len(t) - 1 = e + 1
    BY <2>1
  <2> QED
    BY <1>12, <2>1, <2>2, <2>3
<1>20. WordsAt(t, words, gap, off)
  <2>1. off[0] = Len(words[1].word) + 2
    BY <1>5, <1>15 DEF base
  <2>2. \A i \in 1 .. m : off[i] = off[i - 1] + gap + Len(words[i + 1].word) + 2
    BY <1>5, <1>18
  <2> QED
    BY <1>15, <1>16, <1>18, <1>19, <2>1, <2>2 DEF WordsAt, m, head
<1> QED
  BY <1>1, <1>13, <1>20 DEF t, Text

\* In plain text every word between quotes is read as it is, with the spaces
\* and the quotes of the other kind in it: RespParser.cpp:80-127.
THEOREM QuotedTextIsRead == Spec => []QuotedTextRoundTrip
<1>1. Computed => QuotedTextRoundTrip
  <2> DEFINE words == input.words
             gap   == input.gap
             n     == Len(words)
             t     == Quoted(words, gap) \o End
             ws    == [i \in 1 .. n |-> words[i].word]
  <2>1. SUFFICES ASSUME Computed, input.family = "quoted", output # None
                 PROVE  output = [i \in DOMAIN words |-> words[i].word]
    BY DEF QuotedTextRoundTrip
  <2>2. input \in QuotedInputs /\ output = parse_request(t)
    BY <2>1, InputOfFamily DEF Computed
  <2>3. words \in Seq(QuotedWords) /\ words # << >> /\ gap \in Nat \ {0}
    <3>1. /\ words \in Seq([quote : {Quote, Tick}, word : Text]) /\ words # << >> /\ gap \in Nat \ {0}
          /\ \A i \in DOMAIN words :
               words[i].word # << >> /\ Range(words[i].word) \cap {CR, LF, words[i].quote} = {}
      BY <2>2, QuotedInputsAssumption
    <3> HIDE DEF words
    <3>2. ASSUME NEW i \in 1 .. Len(words) PROVE words[i] \in QuotedWords
      <4> DEFINE R == [quote : {Quote, Tick}, word : Text]
      <4>3. words \in Seq(R)
        BY <3>1
      <4> HIDE DEF R
      <4>4. i \in DOMAIN words /\ words[i] \in R
        BY <4>3
      <4>1. i \in DOMAIN words /\ words[i] \in [quote : {Quote, Tick}, word : Text]
        BY <4>4 DEF R
      <4>2. words[i].word # << >> /\ Range(words[i].word) \cap {CR, LF, words[i].quote} = {}
        BY <3>1, <4>1
      <4> QED
        BY <4>1, <4>2 DEF QuotedWords
    <3>3. words \in [1 .. Len(words) -> QuotedWords] /\ Len(words) \in Nat
      BY <3>1, <3>2
    <3>4. words \in Seq(QuotedWords)
      BY <3>3
    <3> QED
      BY <3>1, <3>4
  <2> HIDE DEF words, gap
  <2>4. n \in Nat /\ n >= 1 /\ DOMAIN words = 1 .. n /\ \A i \in 1 .. n : words[i] \in QuotedWords
    BY <2>3
  <2>5. ws \in Seq(Text) /\ Len(ws) = n /\ \A i \in 1 .. n : ws[i] = words[i].word /\ ws[i] # << >>
    <3>1. \A i \in 1 .. n : words[i].word \in Text /\ words[i].word # << >>
      BY <2>4 DEF QuotedWords
    <3>2. ws \in [1 .. n -> Text]
      BY <3>1
    <3>3. \A i \in 1 .. n : ws[i] = words[i].word
      OBVIOUS
    <3> HIDE DEF ws, n
    <3> QED
      BY <2>4, <3>1, <3>2, <3>3
  <2>6. t \in Text
    BY <2>3, QuotedIs
  <2>7. PICK off : WordsAt(t, words, gap, off)
    BY <2>3, QuotedIs
  <2> HIDE DEF t, ws
  <2>8. /\ off \in [0 .. n - 1 -> Nat]
        /\ off[0] = Len(words[1].word) + 2 /\ Holds(t, 0, Between(words[1]))
        /\ \A i \in 1 .. n - 1 :
             /\ off[i] = off[i - 1] + gap + Len(words[i + 1].word) + 2
             /\ \A j \in 1 .. gap : t[off[i - 1] + j] = Blank
             /\ Holds(t, off[i - 1] + gap, Between(words[i + 1]))
        /\ Len(t) = off[n - 1] + 2
        /\ t[Len(t) - 1] = CR /\ t[Len(t)] = LF
    BY <2>7 DEF WordsAt
  <2> HIDE DEF n
  <2>9. PICK h : Reads(h, t) /\ parse_plain_text(t) = Flush(h[Len(t)]).tokens
    BY <2>6, CharChain
  <2>10. Len(t) \in Nat
    BY <2>6 DEF Text
  <2> DEFINE T == {i \in Nat : i + 1 <= n => h[off[i]] = Outside(SubSeq(ws, 1, i), ws[i + 1])}
  <2>11. 0 \in T
    <3>1. words[1] \in QuotedWords /\ ws[1] = words[1].word /\ 0 + Len(words[1].word) + 2 = off[0]
      <4>1. 1 \in 1 .. n
        BY <2>4
      <4>2. words[1] \in QuotedWords
        BY <2>4, <4>1
      <4>3. Len(words[1].word) \in Nat
        BY <4>2 DEF QuotedWords, Text
      <4> QED
        BY <2>5, <2>8, <4>1, <4>2, <4>3
    <3>2. h[0] = Outside(<< >>, << >>)
      BY <2>9 DEF Reads, Outside
    <3>3. h[0 + Len(words[1].word) + 2] = Outside(<< >>, words[1].word)
      <4>1. /\ t \in Text /\ Reads(h, t) /\ words[1] \in QuotedWords /\ 0 \in Nat
            /\ Holds(t, 0, Between(words[1])) /\ h[0] = Outside(<< >>, << >>)
        BY <2>6, <2>8, <2>9, <3>1, <3>2
      <4> QED
        BY ONLY <4>1, WordIsRead
    <3>4. SubSeq(ws, 1, 0) = << >>
      BY <2>5
    <3>5. h[off[0]] = Outside(SubSeq(ws, 1, 0), ws[0 + 1])
      <4>1. 0 + 1 = 1
        OBVIOUS
      <4>2. h[off[0]] = Outside(<< >>, words[1].word)
        BY <3>1, <3>3
      <4> QED
        BY <3>1, <3>4, <4>1, <4>2
    <3> QED
      BY <3>5
  <2>12. ASSUME NEW i \in Nat, i \in T PROVE i + 1 \in T
    <3>1. SUFFICES ASSUME (i + 1) + 1 <= n
                   PROVE  h[off[i + 1]] = Outside(SubSeq(ws, 1, i + 1), ws[(i + 1) + 1])
      OBVIOUS
    <3> DEFINE k == i + 1
               p == off[i]
               w == words[k + 1]
    <3>2. k \in 1 .. n - 1 /\ k - 1 = i /\ k \in 1 .. n /\ k + 1 \in 1 .. n /\ i \in 0 .. n - 1 /\ i + 1 <= n
      BY <2>4, <3>1
    <3>3. /\ off[k] = p + gap + Len(w.word) + 2 /\ p \in Nat
          /\ \A j \in 1 .. gap : t[p + j] = Blank
          /\ Holds(t, p + gap, Between(w))
      BY <2>8, <3>2
    <3>4. h[p] = Outside(SubSeq(ws, 1, i), ws[k]) /\ ws[k] # << >> /\ w \in QuotedWords /\ ws[k + 1] = w.word
      BY <2>4, <2>5, <2>12, <3>2
    <3>5. SubSeq(ws, 1, k) = Append(SubSeq(ws, 1, i), ws[k])
      BY <2>5, <3>2
    <3> HIDE DEF p, w
    <3>6. Len(Between(w)) \in Nat /\ Len(w.word) \in Nat
      <4>1. Len(Between(w)) = Len(w.word) + 2 /\ Len(w.word) \in Nat
        BY <3>4, BetweenIs
      <4> QED
        BY <4>1
    <3>7. p + gap <= Len(t)
      <4>1. (p + gap) + Len(Between(w)) <= Len(t)
        BY <3>3 DEF Holds
      <4> QED
        BY <2>3, <2>10, <3>3, <3>6, <4>1
    <3> DEFINE q == p + gap
    <3>8. h[q] = Outside(SubSeq(ws, 1, k), << >>)
      <4> DEFINE ts == SubSeq(ws, 1, i)  c == ws[k]
      <4>1. h[p] = Outside(ts, c) /\ c # << >> /\ SubSeq(ws, 1, k) = Append(ts, c)
        BY <3>4, <3>5
      <4> HIDE DEF ts, c, k
      <4>2. h[p + gap] = Outside(Append(ts, c), << >>)
        <5>1. gap \in Nat \ {0} /\ t \in Text /\ Reads(h, t) /\ p \in Nat
          BY <2>3, <2>6, <2>9, <3>3
        <5>2. h[p] = Outside(ts, c) /\ c # << >>
          BY <4>1
        <5>3. GapAt(t, p, gap)
          BY <3>3, <3>7 DEF GapAt
        <5> QED
          BY <5>1, <5>2, <5>3, GapIsRead
      <4> QED
        BY <4>1, <4>2
    <3>9. q \in Nat /\ Holds(t, q, Between(w)) /\ off[k] = q + Len(w.word) + 2
      BY <2>3, <3>3
    <3> HIDE DEF q, k
    <3>10. h[q + Len(w.word) + 2] = Outside(SubSeq(ws, 1, k), w.word)
      BY <2>6, <2>9, <3>4, <3>8, <3>9, WordIsRead
    <3> QED
      BY <3>4, <3>9, <3>10 DEF k
  <2> HIDE DEF T
  <2>13. n - 1 \in T /\ (n - 1) + 1 = n
    <3>1. n - 1 \in Nat /\ (n - 1) + 1 = n
      BY <2>4
    <3> QED
      BY <2>11, <2>12, <3>1, SetInduction
  <2> DEFINE e == off[n - 1]
             last == Outside(SubSeq(ws, 1, n - 1), ws[n])
  <2>14. h[e] = last
    BY <2>4, <2>13 DEF T
  <2>15. e \in Nat /\ Len(t) = e + 2 /\ t[e + 1] = CR /\ t[(e + 1) + 1] = LF
    <3>1. n - 1 \in 0 .. n - 1
      BY <2>4
    <3>2. e \in Nat /\ Len(t) = e + 2 /\ t[Len(t) - 1] = CR /\ t[Len(t)] = LF
      BY <2>8, <3>1
    <3> HIDE DEF e
    <3>3. Len(t) - 1 = e + 1 /\ Len(t) = (e + 1) + 1
      BY <3>2
    <3> QED
      BY <3>2, <3>3
  <2> HIDE DEF e
  <2>16. h[Len(t)] = last
    <3>1. e + 1 \in Nat /\ e + 1 <= Len(t) /\ (e + 1) + 1 <= Len(t) /\ Len(t) = (e + 1) + 1
      BY <2>15
    <3>2. h[e + 1] = Char(h[e], CR)
      BY <2>6, <2>9, <2>15, <3>1, NextChar
    <3>3. h[e + 1] = last
      BY <2>14, <3>2, CharOutside
    <3>4. h[(e + 1) + 1] = Char(h[e + 1], LF)
      BY <2>6, <2>9, <2>15, <3>1, NextChar
    <3>5. h[(e + 1) + 1] = last
      BY <3>3, <3>4, CharOutside
    <3> QED
      BY <3>1, <3>5
  <2>17. parse_plain_text(t) = ws
    <3>1. ws[n] # << >>
      <4>1. n \in 1 .. n
        BY <2>4
      <4> QED
        BY <2>5, <4>1
    <3>2. Flush(last) = [last EXCEPT !.tokens = Append(SubSeq(ws, 1, n - 1), ws[n]), !.current = << >>]
      BY <3>1 DEF Flush, Outside
    <3>3. Append(SubSeq(ws, 1, n - 1), ws[n]) = ws
      BY <2>4, <2>5
    <3>4. Flush(last).tokens = ws
      BY <3>2, <3>3 DEF Outside
    <3> QED
      BY <2>9, <2>16, <3>4
  <2>18. Len(t) >= 1 /\ t[1] \in {Quote, Tick}
    <3>1. words[1] \in QuotedWords
      <4>1. 1 \in 1 .. n
        BY <2>4
      <4> QED
        BY <2>4, <4>1
    <3> DEFINE b == Between(words[1])
    <3>2. Len(b) = Len(words[1].word) + 2 /\ Len(words[1].word) \in Nat /\ b[1] = words[1].quote
      BY <3>1, BetweenIs
    <3>3. words[1].quote \in {Quote, Tick}
      BY <3>1 DEF QuotedWords
    <3> HIDE DEF b
    <3>4. 0 + Len(b) <= Len(t) /\ \A j \in 1 .. Len(b) : t[0 + j] = b[j]
      BY <2>8 DEF Holds, b
    <3>5. 1 \in 1 .. Len(b) /\ Len(b) >= 1
      BY <3>2
    <3>6. t[0 + 1] = b[1]
      BY <3>4, <3>5
    <3> QED
      BY <2>10, <3>2, <3>3, <3>4, <3>5, <3>6
  <2>19. TrimmedLeft(t) = t
    BY <2>6, <2>18, MarksAre, NothingToTrim DEF Spaces
  <2>20. At(t, 0) # Star
    BY <2>10, <2>18, MarksAre DEF At
  <2>21. parse_request(t) = ws
    BY <2>17, <2>19, <2>20 DEF parse_request
  <2> QED
    BY <2>2, <2>4, <2>21 DEF ws
<1> QED
  BY <1>1, AlwaysComputed, PTL

-----------------------------------------------------------------------------
(* The reader of the log                                                   *)

\* The log as a stream, and what the reader of a record keeps between two
\* tokens.
Files(f)    == [bytes : {f}, at : Nat, good : BOOLEAN]
LogBytes    == Symbols \cup {Nul}
LogScans(f) == [tokens : Seq(Seq(LogBytes)), file : Files(f), stopped : {"no", "break", "throw"}]

LEMMA FileIs ==
  ASSUME NEW f, NEW file \in Files(f)
  PROVE  /\ \A x, y : [file EXCEPT !.at = x, !.good = y] = [bytes |-> f, at |-> x, good |-> y]
         /\ \A x : [file EXCEPT !.at = x] = [bytes |-> f, at |-> x, good |-> file.good]
<1>1. ASSUME NEW x, NEW y
      PROVE  [file EXCEPT !.at = x, !.good = y] = [bytes |-> f, at |-> x, good |-> y]
  <2> DEFINE g == [file EXCEPT !.at = x, !.good = y]
  <2>1. g \in [bytes : {f}, at : {x}, good : {y}]
    BY DEF Files
  <2> HIDE DEF g
  <2>2. g = [bytes |-> f, at |-> x, good |-> y]
    BY <2>1
  <2> QED
    BY <2>2 DEF g
<1>2. ASSUME NEW x
      PROVE  [file EXCEPT !.at = x] = [bytes |-> f, at |-> x, good |-> file.good]
  <2>1. [file EXCEPT !.at = x] \in [bytes : {f}, at : {x}, good : {file.good}]
    BY DEF Files
  <2> QED
    BY <2>1
<1> QED
  BY <1>1, <1>2

\* A line ends at its first LF, or where the file ends.
LEMMA LineEndIs ==
  ASSUME NEW f \in Text, NEW file \in Files(f), ~AtEnd(file)
  PROVE  LET e == EndOfLine(file) IN
         /\ file.good /\ file.at < Len(f) /\ Len(f) \in Nat
         /\ e \in file.at .. Len(f) /\ \A j \in file.at .. e - 1 : f[j + 1] # LF
         /\ e < Len(f) => f[e + 1] = LF
         /\ LineFeeds(file) # {} <=> e < Len(f)
<1> DEFINE p == file.at
           L == LineFeeds(file)
<1>1. p \in Nat /\ file.bytes = f /\ Len(f) \in Nat /\ p < Len(f) /\ file.good
  BY DEF Files, Text, AtEnd
<1>2. L = {q \in p .. Len(f) - 1 : f[q + 1] = LF}
  <2>1. \A q \in p .. Len(f) - 1 : At(f, q) = f[q + 1]
    BY <1>1 DEF At
  <2> HIDE DEF p
  <2>2. LineFeeds(file) = {q \in p .. Len(f) - 1 : At(f, q) = LF}
    BY <1>1 DEF LineFeeds, p
  <2> QED
    BY <2>1, <2>2
<1> DEFINE e == EndOfLine(file)
<1>3. CASE L = {}
  <2>1. e = Len(f)
    BY <1>1, <1>3 DEF EndOfLine
  <2> HIDE DEF e, L, p
  <2> QED
    BY <1>1, <1>2, <1>3, <2>1 DEF p, e, L
<1>4. CASE L # {}
  <2>1. e = CHOOSE q \in L : \A r \in L : q <= r
    BY <1>4 DEF EndOfLine
  <2> HIDE DEF e, L, p
  <2>2. L \subseteq Nat
    BY <1>1, <1>2
  <2>3. \E q \in L : \A r \in L : q <= r
    BY <1>4, <2>2, LeastNumber
  <2>4. e \in L /\ \A r \in L : e <= r
    BY <2>1, <2>3
  <2>5. ASSUME NEW j \in p .. e - 1 PROVE f[j + 1] # LF
    BY <1>1, <1>2, <2>4
  <2> QED
    BY <1>1, <1>2, <1>4, <2>4, <2>5 DEF p, e, L
<1> QED
  BY <1>3, <1>4

LEMMA LineFound ==
  ASSUME NEW f \in Text, NEW p \in Nat, NEW q \in p .. Len(f) - 1,
         f[q + 1] = LF, \A j \in p .. q - 1 : f[j + 1] # LF,
         NEW file \in Files(f), file.at = p, file.good
  PROVE  ~AtEnd(file) /\ EndOfLine(file) = q
<1>1. Len(f) \in Nat /\ file.bytes = f
  BY DEF Text, Files
<1>2. ~AtEnd(file)
  BY <1>1 DEF AtEnd
<1> DEFINE e == EndOfLine(file)
<1>3. e \in p .. Len(f) /\ (e < Len(f) => f[e + 1] = LF) /\ \A j \in p .. e - 1 : f[j + 1] # LF
  BY <1>2, LineEndIs
<1> HIDE DEF e
<1>4. ~(e < q)
  BY <1>1, <1>3
<1>5. ~(e > q)
  BY <1>1, <1>3
<1> QED
  BY <1>1, <1>2, <1>3, <1>4, <1>5 DEF e

\* The bytes of a line, and the place behind it.
LEMMA LineIs ==
  ASSUME NEW f \in Text, NEW file \in Files(f), ~AtEnd(file)
  PROVE  LET e == EndOfLine(file)  l == Line(file) IN
         /\ l \in Text
         /\ Len(l) = IF e > file.at /\ f[e] = CR THEN e - file.at - 1 ELSE e - file.at
         /\ \A j \in 1 .. Len(l) : l[j] = f[file.at + j]
         /\ PastLine(file) = [bytes |-> f, at |-> e + 1, good |-> e < Len(f)]
         /\ PastLine(file) \in Files(f)
<1> DEFINE p == file.at
           e == EndOfLine(file)
           s == SubSeq(f, p + 1, e)
<1>1. /\ p \in Nat /\ file.bytes = f /\ Len(f) \in Nat /\ e \in p .. Len(f) /\ e \in Nat
      /\ LineFeeds(file) # {} <=> e < Len(f)
  <2>1. file.at \in Nat /\ file.bytes = f
    BY DEF Files
  <2> QED
    BY <2>1, LineEndIs
<1>2. Line(file) = IF s # << >> /\ s[Len(s)] = CR THEN SubSeq(s, 1, Len(s) - 1) ELSE s
  BY <1>1 DEF Line
<1>3. PastLine(file) = [bytes |-> f, at |-> e + 1, good |-> e < Len(f)]
  <2>1. PastLine(file) = [file EXCEPT !.at = EndOfLine(file) + 1, !.good = LineFeeds(file) # {}]
    BY DEF PastLine
  <2> DEFINE g == LineFeeds(file) # {}
  <2>2. g = (e < Len(f)) /\ g \in BOOLEAN
    BY <1>1
  <2> HIDE DEF g, e
  <2>3. \A x, y : [file EXCEPT !.at = x, !.good = y] = [bytes |-> f, at |-> x, good |-> y]
    BY FileIs
  <2> QED
    BY <2>1, <2>2, <2>3 DEF g, e
<1>4. PastLine(file) \in Files(f)
  <2>1. e + 1 \in Nat /\ (e < Len(f)) \in BOOLEAN
    BY <1>1
  <2> HIDE DEF e
  <2> QED
    BY <1>3, <2>1 DEF Files
<1> HIDE DEF e
<1>5. s \in Text /\ Len(s) = e - p /\ \A j \in 1 .. Len(s) : s[j] = f[p + j]
  <2>1. /\ s \in Text /\ Len(s) = IF p + 1 <= e + 1 THEN e + 1 - (p + 1) ELSE 0
        /\ \A j \in 1 .. Len(s) : s[j] = f[(p + 1) + j - 1]
    <3>1. p + 1 \in Nat \ {0} /\ e \in Int /\ e <= Len(f)
      BY <1>1
    <3> HIDE DEF p
    <3> QED
      BY <3>1, PartIsText
  <2> HIDE DEF s, p
  <2>2. Len(s) = e - p
    BY <1>1, <2>1
  <2>3. \A j \in 1 .. Len(s) : (p + 1) + j - 1 = p + j
    BY <1>1
  <2> QED
    BY <2>1, <2>2, <2>3
<1> HIDE DEF s, p
<1>6. s # << >> /\ s[Len(s)] = CR <=> e > p /\ f[e] = CR
  <2>1. s # << >> <=> e > p
    BY <1>1, <1>5 DEF Text
  <2>2. e > p => Len(s) \in 1 .. Len(s) /\ p + Len(s) = e
    BY <1>1, <1>5
  <2> QED
    BY <1>5, <2>1, <2>2
<1>7. CASE e > p /\ f[e] = CR
  <2>1. Line(file) = SubSeq(s, 1, Len(s) - 1) /\ Len(s) - 1 \in 0 .. Len(s)
    BY <1>1, <1>2, <1>5, <1>6, <1>7
  <2> DEFINE n == Len(s) - 1
  <2>2. n \in 0 .. Len(s)
    BY <2>1
  <2> HIDE DEF n
  <2>3. SubSeq(s, 1, n) \in Text /\ Len(SubSeq(s, 1, n)) = n /\ \A i \in 1 .. n : SubSeq(s, 1, n)[i] = s[i]
    BY <1>5, <2>2, FirstPart
  <2>4. n = e - p - 1 /\ \A i \in 1 .. n : i \in 1 .. Len(s)
    BY <1>1, <1>5, <2>2 DEF n
  <2>5. Line(file) = SubSeq(s, 1, n)
    BY <2>1 DEF n
  <2> QED
    BY <1>3, <1>4, <1>5, <1>7, <2>3, <2>4, <2>5 DEF p, e
<1>8. CASE ~(e > p /\ f[e] = CR)
  BY <1>2, <1>3, <1>4, <1>5, <1>6, <1>8 DEF p, e
<1> QED
  BY <1>7, <1>8

\* Reading bytes does not go back.
LEMMA PastBytesIs ==
  ASSUME NEW f, NEW file \in Files(f), NEW n \in Nat
  PROVE  /\ PastBytes(file, n) \in Files(f)
         /\ PastBytes(file, n).at >= file.at
         /\ PastBytes(file, n).good => file.good
         /\ file.good /\ file.at + n <= Len(f) => PastBytes(file, n) = [bytes |-> f, at |-> file.at + n, good |-> TRUE]
<1>1. file.at \in Nat /\ file.at + n \in Nat /\ file.bytes = f /\ file.good \in BOOLEAN
  BY DEF Files
<1>2. CASE file.good /\ file.at + n <= Len(f)
  <2>1. PastBytes(file, n) = [file EXCEPT !.at = file.at + n]
    BY <1>1, <1>2 DEF PastBytes
  <2>2. [file EXCEPT !.at = file.at + n] = [bytes |-> f, at |-> file.at + n, good |-> TRUE]
    <3> DEFINE q == file.at + n
    <3>1. file.good = TRUE
      BY <1>1, <1>2
    <3> HIDE DEF q
    <3>2. [file EXCEPT !.at = q] = [bytes |-> f, at |-> q, good |-> file.good]
      BY FileIs
    <3> QED
      BY <3>1, <3>2 DEF q
  <2> QED
    BY <1>1, <1>2, <2>1, <2>2 DEF Files
<1>3. CASE ~(file.good /\ file.at + n <= Len(f))
  <2>1. PastBytes(file, n) = [file EXCEPT !.good = FALSE]
    BY <1>1, <1>3 DEF PastBytes
  <2>2. /\ [file EXCEPT !.good = FALSE] \in Files(f)
        /\ [file EXCEPT !.good = FALSE].at = file.at /\ [file EXCEPT !.good = FALSE].good = FALSE
    BY <1>1 DEF Files
  <2> QED
    BY <1>1, <1>3, <2>1, <2>2
<1> QED
  BY <1>2, <1>3

LEMMA BytesIs ==
  ASSUME NEW f \in Text, NEW file \in Files(f), NEW n \in Nat
  PROVE  Bytes(file, n) \in Seq(LogBytes) /\ Len(Bytes(file, n)) = n
<1>1. Len(f) \in Nat /\ file.at \in Nat /\ file.bytes = f
  BY DEF Text, Files
<1>2. ASSUME NEW i \in 1 .. n
      PROVE  (IF file.good /\ file.at + i <= Len(f) THEN f[file.at + i] ELSE Nul) \in LogBytes
  <2>1. file.at + i <= Len(f) => file.at + i \in 1 .. Len(f)
    BY <1>1
  <2> QED
    BY <2>1 DEF Text, LogBytes
<1> DEFINE b == [i \in 1 .. n |-> IF file.good /\ file.at + i <= Len(f) THEN f[file.at + i] ELSE Nul]
<1>3. b \in [1 .. n -> LogBytes]
  BY <1>2
<1>4. Bytes(file, n) = b
  BY <1>1 DEF Bytes
<1> HIDE DEF b
<1> QED
  BY <1>3, <1>4

\* What the reader makes of a token, case by case.
LEMMA TokenCases ==
  ASSUME NEW f, NEW scan \in LogScans(f)
  PROVE  LET line == Line(scan.file)
             len  == NumberIn(Tail(line))
             body == PastLine(scan.file)
         IN /\ scan.stopped # "no" => Token(scan) = scan
            /\ scan.stopped = "no" /\ AtEnd(scan.file) =>
                 Token(scan) = [tokens |-> scan.tokens, file |-> [bytes |-> f, at |-> scan.file.at, good |-> FALSE],
                                stopped |-> "break"]
            /\ scan.stopped = "no" /\ ~AtEnd(scan.file) =>
                 /\ At(line, 0) # Dollar =>
                      Token(scan) = [tokens |-> scan.tokens, file |-> body, stopped |-> "break"]
                 /\ At(line, 0) = Dollar /\ (len = Nothing \/ len < 0) =>
                      Token(scan) = [tokens |-> scan.tokens, file |-> body, stopped |-> "throw"]
                 /\ At(line, 0) = Dollar /\ ~(len = Nothing \/ len < 0) =>
                      Token(scan) = [tokens |-> Append(scan.tokens, Bytes(body, len)),
                                     file |-> PastBytes(PastBytes(body, len), 2), stopped |-> "no"]
<1> DEFINE line == Line(scan.file)
           len  == NumberIn(Tail(line))
           body == PastLine(scan.file)
<1>1. scan = [tokens |-> scan.tokens, file |-> scan.file, stopped |-> scan.stopped]
  BY DEF LogScans
<1>2. ASSUME scan.stopped # "no" PROVE Token(scan) = scan
  BY <1>2 DEF Token
<1>3. ASSUME scan.stopped = "no", AtEnd(scan.file)
      PROVE  Token(scan) = [tokens |-> scan.tokens, file |-> [bytes |-> f, at |-> scan.file.at, good |-> FALSE],
                            stopped |-> "break"]
  <2>1. Token(scan) = [scan EXCEPT !.stopped = "break", !.file.good = FALSE]
    BY <1>3 DEF Token
  <2>2. scan.file \in Files(f)
    BY DEF LogScans
  <2>4. [scan.file EXCEPT !.good = FALSE] = [bytes |-> f, at |-> scan.file.at, good |-> FALSE]
    <3> DEFINE u == [scan.file EXCEPT !.good = FALSE]
    <3>1. u \in [bytes : {f}, at : {scan.file.at}, good : {FALSE}]
      BY <2>2 DEF Files
    <3> HIDE DEF u
    <3>2. u = [bytes |-> f, at |-> scan.file.at, good |-> FALSE]
      BY <3>1
    <3> QED
      BY <3>2 DEF u
  <2> DEFINE g == [scan.file EXCEPT !.good = FALSE]
             t == [scan EXCEPT !.stopped = "break", !.file.good = FALSE]
  <2>5. t \in [tokens : {scan.tokens}, file : {g}, stopped : {"break"}]
    BY DEF LogScans
  <2> HIDE DEF g, t
  <2>6. t = [tokens |-> scan.tokens, file |-> g, stopped |-> "break"]
    BY <2>5
  <2> QED
    BY <2>1, <2>4, <2>6 DEF g, t
<1>4. ASSUME scan.stopped = "no", ~AtEnd(scan.file)
      PROVE  Token(scan) = IF At(line, 0) # Dollar THEN [scan EXCEPT !.stopped = "break", !.file = body]
                           ELSE IF len = Nothing \/ len < 0 THEN [scan EXCEPT !.stopped = "throw", !.file = body]
                           ELSE [scan EXCEPT !.tokens = Append(@, Bytes(body, len)),
                                             !.file = PastBytes(PastBytes(body, len), 2)]
  BY <1>4 DEF Token
<1> HIDE DEF line, len, body
<1>5. ASSUME NEW x, NEW y
      PROVE  [scan EXCEPT !.stopped = x, !.file = y] = [tokens |-> scan.tokens, file |-> y, stopped |-> x]
  <2> DEFINE t == [scan EXCEPT !.stopped = x, !.file = y]
  <2>1. t \in [tokens : {scan.tokens}, file : {y}, stopped : {x}]
    BY DEF LogScans
  <2> HIDE DEF t
  <2>2. t = [tokens |-> scan.tokens, file |-> y, stopped |-> x]
    BY <2>1
  <2> QED
    BY <2>2 DEF t
<1>6. ASSUME NEW x, NEW y
      PROVE  [scan EXCEPT !.tokens = x, !.file = y] = [tokens |-> x, file |-> y, stopped |-> scan.stopped]
  <2> DEFINE t == [scan EXCEPT !.tokens = x, !.file = y]
  <2>1. t \in [tokens : {x}, file : {y}, stopped : {scan.stopped}]
    BY DEF LogScans
  <2> HIDE DEF t
  <2>2. t = [tokens |-> x, file |-> y, stopped |-> scan.stopped]
    BY <2>1
  <2> QED
    BY <2>2 DEF t
<1>7. ASSUME scan.stopped = "no", ~AtEnd(scan.file), At(line, 0) # Dollar
      PROVE  Token(scan) = [tokens |-> scan.tokens, file |-> body, stopped |-> "break"]
  BY <1>4, <1>5, <1>7
<1>8. ASSUME scan.stopped = "no", ~AtEnd(scan.file), At(line, 0) = Dollar, len = Nothing \/ len < 0
      PROVE  Token(scan) = [tokens |-> scan.tokens, file |-> body, stopped |-> "throw"]
  BY <1>4, <1>5, <1>8
<1>9. ASSUME scan.stopped = "no", ~AtEnd(scan.file), At(line, 0) = Dollar, ~(len = Nothing \/ len < 0)
      PROVE  Token(scan) = [tokens |-> Append(scan.tokens, Bytes(body, len)),
                            file |-> PastBytes(PastBytes(body, len), 2), stopped |-> "no"]
  <2> DEFINE x == Append(scan.tokens, Bytes(body, len))
             y == PastBytes(PastBytes(body, len), 2)
  <2>1. Token(scan) = [scan EXCEPT !.tokens = x, !.file = y]
    BY <1>4, <1>9
  <2> HIDE DEF x, y
  <2>2. Token(scan) = [tokens |-> x, file |-> y, stopped |-> scan.stopped]
    BY <1>6, <2>1
  <2> QED
    BY <1>9, <2>2 DEF x, y
<1> QED
  BY <1>2, <1>3, <1>7, <1>8, <1>9 DEF line, len, body

\* The tokens us begin with the tokens ts.
Extends(us, ts) == Len(us) >= Len(ts) /\ \A j \in 1 .. Len(ts) : us[j] = ts[j]

\* One token more at most, and the stream does not go back.
LEMMA TokenIs ==
  ASSUME NEW f \in Text, NEW scan \in LogScans(f)
  PROVE  LET next == Token(scan) IN
         /\ next \in LogScans(f)
         /\ next.file.at >= scan.file.at /\ (AtEnd(scan.file) => AtEnd(next.file) /\ next.tokens = scan.tokens)
         /\ Len(next.tokens) <= Len(scan.tokens) + 1 /\ Extends(next.tokens, scan.tokens)
         /\ next.stopped = "no" => scan.stopped = "no" /\ Len(next.tokens) = Len(scan.tokens) + 1
<1> DEFINE line == Line(scan.file)
           len  == NumberIn(Tail(line))
           body == PastLine(scan.file)
           next == Token(scan)
<1>1. /\ scan.tokens \in Seq(Seq(LogBytes)) /\ scan.file \in Files(f) /\ scan.file.at \in Nat
      /\ scan.stopped \in {"no", "break", "throw"} /\ Len(scan.tokens) \in Nat
  BY DEF LogScans, Files
<1>2. Extends(scan.tokens, scan.tokens)
  BY <1>1 DEF Extends
<1>3. CASE scan.stopped # "no"
  <2>1. next = scan
    BY <1>3, TokenCases
  <2> HIDE DEF next
  <2> QED
    BY <1>1, <1>2, <1>3, <2>1 DEF next
<1>4. CASE scan.stopped = "no" /\ AtEnd(scan.file)
  <2>1. next = [tokens |-> scan.tokens, file |-> [bytes |-> f, at |-> scan.file.at, good |-> FALSE], stopped |-> "break"]
    BY <1>4, TokenCases
  <2>2. [bytes |-> f, at |-> scan.file.at, good |-> FALSE] \in Files(f)
    BY <1>1 DEF Files
  <2> DEFINE g == [bytes |-> f, at |-> scan.file.at, good |-> FALSE]
  <2>3. AtEnd(g) /\ g.at = scan.file.at
    BY DEF AtEnd
  <2> HIDE DEF next, g
  <2>4. next.tokens = scan.tokens /\ next.file = g /\ next.stopped = "break"
    BY <2>1 DEF g
  <2>5. next \in LogScans(f)
    BY <1>1, <2>1, <2>2 DEF LogScans
  <2> QED
    BY <1>1, <1>2, <2>3, <2>4, <2>5 DEF next
<1>5. CASE scan.stopped = "no" /\ ~AtEnd(scan.file)
  <2>1. body \in Files(f) /\ body.at \in Nat /\ body.at >= scan.file.at
    <3>1. /\ body \in Files(f) /\ body.at = EndOfLine(scan.file) + 1
          /\ EndOfLine(scan.file) \in scan.file.at .. Len(f) /\ Len(f) \in Nat
      BY <1>1, <1>5, LineIs, LineEndIs
    <3> DEFINE e == EndOfLine(scan.file)
    <3> HIDE DEF e, body
    <3> QED
      BY <1>1, <3>1 DEF e
  <2>2. CASE At(line, 0) # Dollar \/ len = Nothing \/ len < 0
    <3>1. \E w \in {"break", "throw"} : next = [tokens |-> scan.tokens, file |-> body, stopped |-> w]
      <4>1. CASE At(line, 0) # Dollar
        <5>1. next = [tokens |-> scan.tokens, file |-> body, stopped |-> "break"]
          BY <1>5, <4>1, TokenCases
        <5> HIDE DEF next, body
        <5> QED
          BY <5>1
      <4>2. CASE At(line, 0) = Dollar
        <5>1. next = [tokens |-> scan.tokens, file |-> body, stopped |-> "throw"]
          BY <1>5, <2>2, <4>2, TokenCases
        <5> HIDE DEF next, body
        <5> QED
          BY <5>1
      <4> QED
        BY <4>1, <4>2
    <3> HIDE DEF next, body
    <3>2. PICK w \in {"break", "throw"} : next = [tokens |-> scan.tokens, file |-> body, stopped |-> w]
      BY <3>1
    <3>3. next \in LogScans(f) /\ next.tokens = scan.tokens /\ next.file = body /\ next.stopped # "no"
      BY <1>1, <2>1, <3>2 DEF LogScans
    <3> QED
      BY <1>1, <1>2, <1>5, <2>1, <3>3 DEF next
  <2>3. CASE At(line, 0) = Dollar /\ ~(len = Nothing \/ len < 0)
    <3> DEFINE b    == Bytes(body, len)
               ts   == Append(scan.tokens, b)
               file == PastBytes(PastBytes(body, len), 2)
    <3>1. next = [tokens |-> ts, file |-> file, stopped |-> "no"]
      BY <1>5, <2>3, TokenCases
    <3>2. len \in Nat
      <4>1. len \in NumberSymbols
        BY <2>3, NumberInIs
      <4> HIDE DEF len
      <4>2. len \in Int
        BY <4>1, RespAssumption
      <4> QED
        BY <2>3, <4>2
    <3> HIDE DEF next, body, len
    <3>3. b \in Seq(LogBytes)
      BY <2>1, <3>2, BytesIs
    <3>4. /\ PastBytes(body, len) \in Files(f) /\ PastBytes(body, len).at >= body.at
          /\ file \in Files(f) /\ file.at >= PastBytes(body, len).at
      BY <2>1, <3>2, PastBytesIs
    <3>5. PastBytes(body, len).at \in Nat /\ file.at \in Nat
      BY <3>4 DEF Files
    <3> HIDE DEF b, file
    <3>6. /\ ts \in Seq(Seq(LogBytes)) /\ Len(ts) = Len(scan.tokens) + 1
          /\ \A j \in 1 .. Len(scan.tokens) : ts[j] = scan.tokens[j]
      BY <1>1, <3>3
    <3> HIDE DEF ts
    <3>7. next \in LogScans(f) /\ next.tokens = ts /\ next.file = file /\ next.stopped = "no"
      BY <3>1, <3>4, <3>6 DEF LogScans
    <3>8. Extends(next.tokens, scan.tokens)
      BY <1>1, <3>6, <3>7 DEF Extends
    <3> QED
      BY <1>1, <1>5, <2>1, <3>4, <3>5, <3>6, <3>7, <3>8 DEF next
  <2> QED
    BY <2>2, <2>3
<1> QED
  BY <1>1, <1>3, <1>4, <1>5

\* The tokens of a record, read one by one.
Scanning(h, f, file, m) ==
  /\ h \in [0 .. m -> LogScans(f)]
  /\ h[0] = [tokens |-> << >>, file |-> file, stopped |-> "no"]
  /\ \A i \in 1 .. m : h[i] = Token(h[i - 1])

LEMMA TokenChain ==
  ASSUME NEW f \in Text, NEW file \in Files(f), NEW m \in Nat
  PROVE  \E h : Scanning(h, f, file, m) /\ h[m] = Tokens(file, m)
<1> DEFINE LS == LogScans(f)
           st == [tokens |-> << >>, file |-> file, stopped |-> "no"]
           F == [i \in 1 .. m |-> [x \in LS |-> Token(x)]]
           is == [i \in 1 .. m |-> i]
           Eqn(g) == g = [x \in SUBSET DOMAIN is |->
                            IF x = {} THEN st ELSE Token(g[x \ {Max(x)}])]
           it == CHOOSE g : Eqn(g)
<1>1. Tokens(file, m) = it[DOMAIN is]
  BY DEF Tokens, FoldLeft, MapThenFoldSet
<1>3. DOMAIN is = 1 .. m
  OBVIOUS
<1>4. st \in LS
  BY DEF LogScans
<1>5. F \in [1 .. m -> [LS -> LS]]
  BY TokenIs
<1> HIDE DEF LS
<1>6. PICK g : Folding(g, LS, st, m, F)
  <2> HIDE DEF F, st
  <2> QED
    BY <1>4, <1>5, FoldExists
<1> HIDE DEF st, is
<1>7. Eqn(g)
  <2>1. \A x \in (SUBSET (1 .. m)) \ {{}} : g[x] = Token(g[x \ {Max(x)}])
    <3>1. ASSUME NEW x \in (SUBSET (1 .. m)) \ {{}} PROVE g[x] = Token(g[x \ {Max(x)}])
      <4>1. Max(x) \in 1 .. m /\ g[x] = F[Max(x)][g[x \ {Max(x)}]]
        BY <1>6 DEF Folding
      <4>2. x \ {Max(x)} \in SUBSET (1 .. m)
        OBVIOUS
      <4>3. g[x \ {Max(x)}] \in LS
        BY <1>6, <4>2 DEF Folding
      <4> QED
        BY <4>1, <4>3
    <3> QED
      BY <3>1
  <2>2. g \in [SUBSET DOMAIN is -> LS] /\ g[{}] = st
    BY <1>3, <1>6 DEF Folding
  <2> QED
    BY <1>3, <2>1, <2>2
<1>8. Eqn(it)
  <2> HIDE DEF Eqn
  <2> QED
    BY <1>7
<1> HIDE DEF it
<1>9. it[{}] = st
  BY <1>3, <1>8
<1>10. ASSUME NEW x \in (SUBSET (1 .. m)) \ {{}}, it[x \ {Max(x)}] \in LS
       PROVE  it[x] = F[Max(x)][it[x \ {Max(x)}]]
  <2>1. Max(x) \in 1 .. m
    BY <1>6 DEF Folding
  <2>2. it[x] = Token(it[x \ {Max(x)}])
    BY <1>3, <1>8, <1>10
  <2> QED
    BY <1>10, <2>1, <2>2
<1> HIDE DEF F
<1>11. PICK h : Steps(h, LS, st, m, F) /\ h[m] = it[1 .. m]
  <2>1. Iterates(it, LS, st, m, F)
    BY <1>9, <1>10 DEF Iterates
  <2> QED
    BY <1>4, <1>5, <2>1, FoldSteps
<1>12. ASSUME NEW i \in 1 .. m PROVE h[i] = Token(h[i - 1])
  <2>1. h[i - 1] \in LS
    BY <1>11 DEF Steps
  <2> QED
    BY <1>11, <2>1 DEF F, Steps
<1>13. Scanning(h, f, file, m)
  BY <1>11, <1>12 DEF Scanning, Steps, LS, st
<1> QED
  BY <1>1, <1>3, <1>11, <1>13

\* From one token on: the stream does not go back, the tokens stay, and who
\* has stopped or come to the end takes no more.
Onward(a, b) ==
  /\ b.file.at >= a.file.at /\ Extends(b.tokens, a.tokens)
  /\ AtEnd(a.file) => AtEnd(b.file) /\ b.tokens = a.tokens
  /\ a.stopped # "no" => b = a

LEMMA ScanGoesOn ==
  ASSUME NEW f \in Text, NEW file, NEW m \in Nat, NEW h, Scanning(h, f, file, m),
         NEW k \in 0 .. m, NEW i \in k .. m
  PROVE  Onward(h[k], h[i])
<1> DEFINE T == {n \in Nat : k + n <= m => Onward(h[k], h[k + n])}
<1>1. ASSUME NEW j \in 0 .. m
      PROVE  h[j] \in LogScans(f) /\ h[j].file.at \in Nat /\ Len(h[j].tokens) \in Nat
  <2>1. h[j] \in LogScans(f)
    BY DEF Scanning
  <2> QED
    BY <2>1 DEF LogScans, Files
<1>2. 0 \in T
  <2>1. k + 0 = k
    OBVIOUS
  <2>2. Onward(h[k], h[k])
    BY <1>1 DEF Onward, Extends
  <2> QED
    BY <2>1, <2>2
<1>3. ASSUME NEW n \in Nat, n \in T PROVE n + 1 \in T
  <2>1. SUFFICES ASSUME k + (n + 1) <= m PROVE Onward(h[k], h[k + (n + 1)])
    OBVIOUS
  <2> DEFINE j == k + n
  <2>2. j \in 0 .. m /\ j + 1 \in 1 .. m /\ j + 1 \in 0 .. m /\ (j + 1) - 1 = j /\ k + (n + 1) = j + 1
    BY <2>1
  <2> HIDE DEF j
  <2>3. Onward(h[k], h[j])
    BY <1>3, <2>1, <2>2 DEF j
  <2> DEFINE a == h[k]  b == h[j]  c == h[j + 1]
  <2>4. c = Token(b)
    BY <2>2 DEF Scanning
  <2>5. /\ a.file.at \in Nat /\ Len(a.tokens) \in Nat
        /\ b \in LogScans(f) /\ b.file.at \in Nat /\ Len(b.tokens) \in Nat
        /\ c.file.at \in Nat /\ Len(c.tokens) \in Nat
    BY <1>1, <2>2
  <2> HIDE DEF a, b, c
  <2>6. /\ c.file.at >= b.file.at /\ (AtEnd(b.file) => AtEnd(c.file) /\ c.tokens = b.tokens)
        /\ Extends(c.tokens, b.tokens)
    BY <2>4, <2>5, TokenIs
  <2>7. b.stopped # "no" => c = b
    BY <2>4, <2>5, TokenCases
  <2>8. Onward(a, b)
    BY <2>3 DEF a, b
  <2>9. Extends(c.tokens, a.tokens) /\ c.file.at >= a.file.at
    <3>1. Extends(b.tokens, a.tokens) /\ b.file.at >= a.file.at
      BY <2>8 DEF Onward
    <3> QED
      BY <2>5, <2>6, <3>1 DEF Extends
  <2>10. AtEnd(a.file) => AtEnd(c.file) /\ c.tokens = a.tokens
    BY <2>6, <2>8 DEF Onward
  <2>11. a.stopped # "no" => c = a
    <3>1. SUFFICES ASSUME a.stopped # "no" PROVE c = a
      OBVIOUS
    <3>2. b = a
      BY <2>8, <3>1 DEF Onward
    <3> QED
      BY <2>7, <3>1, <3>2
  <2>12. Onward(a, c)
    BY <2>9, <2>10, <2>11 DEF Onward
  <2> QED
    BY <2>2, <2>12 DEF a, c
<1> HIDE DEF T
<1>4. i - k \in T
  BY <1>2, <1>3, SetInduction
<1>5. k + (i - k) = i /\ k + (i - k) <= m
  OBVIOUS
<1> QED
  BY <1>4, <1>5 DEF T

\* As many tokens as have been looked for, unless the reader has stopped.
LEMMA ScanCounts ==
  ASSUME NEW f \in Text, NEW file, NEW m \in Nat, NEW h, Scanning(h, f, file, m), NEW i \in 0 .. m
  PROVE  h[i] \in LogScans(f) /\ Len(h[i].tokens) <= i
<1> DEFINE T == {n \in Nat : n <= m => Len(h[n].tokens) <= n}
<1>1. ASSUME NEW j \in 0 .. m PROVE h[j] \in LogScans(f) /\ Len(h[j].tokens) \in Nat
  <2>1. h[j] \in LogScans(f)
    BY DEF Scanning
  <2> QED
    BY <2>1 DEF LogScans
<1>2. 0 \in T
  BY DEF Scanning
<1>3. ASSUME NEW n \in Nat, n \in T PROVE n + 1 \in T
  <2>1. SUFFICES ASSUME n + 1 <= m PROVE Len(h[n + 1].tokens) <= n + 1
    OBVIOUS
  <2>2. n \in 0 .. m /\ n + 1 \in 0 .. m /\ n + 1 \in 1 .. m /\ (n + 1) - 1 = n
    BY <2>1
  <2> DEFINE b == h[n]  c == h[n + 1]
  <2>3. c = Token(b)
    BY <2>2 DEF Scanning
  <2>4. b \in LogScans(f) /\ Len(b.tokens) \in Nat /\ Len(c.tokens) \in Nat /\ Len(b.tokens) <= n
    BY <1>1, <1>3, <2>2
  <2> HIDE DEF b, c
  <2>5. Len(c.tokens) <= Len(b.tokens) + 1
    BY <2>3, <2>4, TokenIs
  <2> QED
    BY <2>4, <2>5 DEF b, c
<1> HIDE DEF T
<1>4. i \in T
  BY <1>2, <1>3, SetInduction
<1> QED
  BY <1>1, <1>4 DEF T

-----------------------------------------------------------------------------
(* The records of a log                                                    *)

Opened(f, at)   == [bytes |-> f, at |-> at, good |-> TRUE]
CountAt(f, at)  == LET line == Line(Opened(f, at)) IN IF At(line, 0) = Star THEN NumberIn(Tail(line)) ELSE Nothing
NoHeader(f, at) == CountAt(f, at) = Nothing \/ CountAt(f, at) < 0
ScanAt(f, at)   == Tokens(PastLine(Opened(f, at)), CountAt(f, at))
FoundAt(f, at)  == IF IsRecord(ScanAt(f, at), CountAt(f, at)) THEN <<ScanAt(f, at).tokens>> ELSE << >>

\* The records from a place on, when g has those from later places on.
LoadStep(g, f, at) ==
  IF AtEnd(Opened(f, at)) THEN << >>
  ELSE IF NoHeader(f, at) THEN g[Place(PastLine(Opened(f, at)))]
  ELSE FoundAt(f, at) \o IF GoesOn(ScanAt(f, at), CountAt(f, at)) THEN g[Place(ScanAt(f, at).file)] ELSE << >>

Loads(g, f) == \A at \in 0 .. Len(f) : g[at] = LoadStep(g, f, at)

LEMMA OpenedIs ==
  ASSUME NEW f \in Text, NEW at \in 0 .. Len(f)
  PROVE  /\ Opened(f, at) \in Files(f) /\ Opened(f, at).at = at /\ Opened(f, at).good
         /\ AtEnd(Opened(f, at)) <=> at = Len(f)
<1>1. Len(f) \in Nat /\ at \in Nat
  BY DEF Text
<1> QED
  BY <1>1 DEF Opened, Files, AtEnd

LEMMA CountIs ==
  ASSUME NEW f, NEW at, ~NoHeader(f, at)
  PROVE  CountAt(f, at) \in Nat /\ CountAt(f, at) \in NumberSymbols
<1>1. CountAt(f, at) \in NumberSymbols
  BY NumberInIs DEF NoHeader, CountAt
<1>2. CountAt(f, at) \in Int
  BY <1>1, RespAssumption
<1> QED
  BY <1>1, <1>2 DEF NoHeader

\* The next place to look at is behind this one.
LEMMA PlaceIs ==
  ASSUME NEW f \in Text, NEW file \in Files(f), NEW p \in Nat, p <= Len(f), file.at >= p \/ AtEnd(file)
  PROVE  Place(file) \in p .. Len(f)
<1>1. Len(f) \in Nat /\ file.at \in Nat /\ file.bytes = f
  BY DEF Text, Files
<1> QED
  BY <1>1 DEF Place, AtEnd

LEMMA NextPlace ==
  ASSUME NEW f \in Text, NEW at \in 0 .. Len(f), ~AtEnd(Opened(f, at))
  PROVE  /\ PastLine(Opened(f, at)) \in Files(f) /\ PastLine(Opened(f, at)).at >= at + 1
         /\ Place(PastLine(Opened(f, at))) \in at + 1 .. Len(f)
         /\ ~NoHeader(f, at) => Place(ScanAt(f, at).file) \in at + 1 .. Len(f)
<1> DEFINE op   == Opened(f, at)
           file == PastLine(op)
           m    == CountAt(f, at)
<1>1. op \in Files(f) /\ op.at = at /\ at < Len(f) /\ Len(f) \in Nat /\ at \in Nat
  <2>1. op.at = at /\ op \in Files(f) /\ at # Len(f)
    BY OpenedIs
  <2> QED
    BY <2>1 DEF Text
<1>2. file \in Files(f) /\ file.at >= at + 1 /\ file.at \in Nat
  <2>1. file \in Files(f) /\ file.at = EndOfLine(op) + 1
    BY <1>1, LineIs
  <2>2. EndOfLine(op) \in op.at .. Len(f)
    BY <1>1, LineEndIs
  <2> DEFINE e == EndOfLine(op)
  <2> HIDE DEF e, op
  <2> QED
    BY <1>1, <2>1, <2>2 DEF e
<1> HIDE DEF file
<1>3. at + 1 \in Nat /\ at + 1 <= Len(f)
  BY <1>1
<1>4. Place(file) \in at + 1 .. Len(f)
  BY <1>2, <1>3, PlaceIs
<1>5. ASSUME ~NoHeader(f, at) PROVE Place(Tokens(file, m).file) \in at + 1 .. Len(f)
  <2>1. m \in Nat
    BY <1>5, CountIs
  <2> HIDE DEF m
  <2>2. PICK h : Scanning(h, f, file, m) /\ h[m] = Tokens(file, m)
    BY <1>2, <2>1, TokenChain
  <2>3. 0 \in 0 .. m /\ m \in 0 .. m
    BY <2>1
  <2>4. Onward(h[0], h[m])
    BY <2>1, <2>2, <2>3, ScanGoesOn
  <2>5. h[m] \in LogScans(f) /\ h[0].file = file
    BY <2>2, <2>3 DEF Scanning
  <2>6. h[m].file \in Files(f) /\ h[m].file.at >= file.at /\ h[m].file.at \in Nat
    BY <2>4, <2>5 DEF Onward, LogScans, Files
  <2>7. h[m].file.at >= at + 1
    BY <1>1, <1>2, <2>6
  <2> QED
    BY <1>3, <2>2, <2>6, <2>7, PlaceIs
<1> QED
  BY <1>2, <1>4, <1>5 DEF file, ScanAt

\* The records can be told from the end of the log back to any place.
LoadedFrom(f, a) ==
  \E g : g = [at \in 0 .. Len(f) |-> g[at]] /\ \A at \in a .. Len(f) : g[at] = LoadStep(g, f, at)

LEMMA LoadsExist ==
  ASSUME NEW f \in Text
  PROVE  \E g : g = [at \in 0 .. Len(f) |-> g[at]] /\ Loads(g, f)
<1> DEFINE n == Len(f)
           T == {j \in Nat : j <= n => LoadedFrom(f, n - j)}
<1>1. n \in Nat
  BY DEF Text
<1>2. ASSUME NEW a \in 0 .. n, a + 1 <= n => LoadedFrom(f, a + 1)
      PROVE  LoadedFrom(f, a)
  <2>1. PICK g : /\ g = [at \in 0 .. n |-> g[at]]
                 /\ \A at \in a + 1 .. n : g[at] = LoadStep(g, f, at)
    <3>1. CASE a + 1 <= n
      BY <1>2, <3>1 DEF LoadedFrom
    <3>2. CASE ~(a + 1 <= n)
      <4> DEFINE u == [at \in 0 .. n |-> << >>]
      <4>1. u = [at \in 0 .. n |-> u[at]]
        OBVIOUS
      <4>2. a + 1 .. n = {}
        BY <1>1, <3>2
      <4> HIDE DEF u
      <4> QED
        BY <4>1, <4>2
    <3> QED
      BY <3>1, <3>2
  <2> DEFINE u == [at \in 0 .. n |-> IF at = a THEN LoadStep(g, f, a) ELSE g[at]]
  <2>2. \A at \in 0 .. n : u[at] = IF at = a THEN LoadStep(g, f, a) ELSE g[at]
    OBVIOUS
  <2>3. u = [at \in 0 .. n |-> u[at]]
    OBVIOUS
  <2> HIDE DEF u
  <2>4. ASSUME NEW at \in a .. n PROVE LoadStep(u, f, at) = LoadStep(g, f, at)
    <3>1. at \in 0 .. n
      BY <1>1
    <3>2. ASSUME ~AtEnd(Opened(f, at))
          PROVE  /\ u[Place(PastLine(Opened(f, at)))] = g[Place(PastLine(Opened(f, at)))]
                 /\ ~NoHeader(f, at) => u[Place(ScanAt(f, at).file)] = g[Place(ScanAt(f, at).file)]
      <4>1. /\ Place(PastLine(Opened(f, at))) \in at + 1 .. n
            /\ ~NoHeader(f, at) => Place(ScanAt(f, at).file) \in at + 1 .. n
        BY <3>1, <3>2, NextPlace
      <4>2. \A q \in at + 1 .. n : q \in 0 .. n /\ q # a
        BY <1>1
      <4>3. \A q \in at + 1 .. n : u[q] = g[q]
        BY <2>2, <4>2
      <4> HIDE DEF n
      <4> QED
        BY <4>1, <4>3
    <3> QED
      BY <3>2 DEF LoadStep
  <2>5. ASSUME NEW at \in a .. n PROVE u[at] = LoadStep(u, f, at)
    <3>1. at \in 0 .. n
      BY <1>1
    <3>2. CASE at = a
      BY <2>2, <2>4, <3>1, <3>2
    <3>3. CASE at # a
      <4>1. at \in a + 1 .. n
        BY <1>1, <3>3
      <4>2. g[at] = LoadStep(g, f, at)
        BY <2>1, <4>1
      <4>3. u[at] = g[at]
        BY <2>2, <3>1, <3>3
      <4> QED
        BY <2>4, <4>2, <4>3
    <3> QED
      BY <3>2, <3>3
  <2> QED
    BY <2>3, <2>5 DEF LoadedFrom
<1> HIDE DEF n
<1>3. 0 \in T
  <2>1. n \in 0 .. n /\ n - 0 = n /\ ~(n + 1 <= n)
    BY <1>1
  <2>2. LoadedFrom(f, n)
    BY <1>2, <2>1
  <2> QED
    BY <2>1, <2>2
<1>4. ASSUME NEW j \in Nat, j \in T PROVE j + 1 \in T
  <2>1. SUFFICES ASSUME j + 1 <= n PROVE LoadedFrom(f, n - (j + 1))
    OBVIOUS
  <2> DEFINE a == n - (j + 1)
  <2>2. a \in 0 .. n /\ a + 1 = n - j /\ j <= n
    BY <1>1, <2>1
  <2> HIDE DEF a
  <2>3. LoadedFrom(f, a + 1)
    BY <1>4, <2>2
  <2>4. LoadedFrom(f, a)
    BY <1>2, <2>2, <2>3
  <2> QED
    BY <2>4 DEF a
<1> HIDE DEF T
<1>5. n \in T
  BY <1>1, <1>3, <1>4, SetInduction
<1>6. LoadedFrom(f, 0)
  <2>1. n - n = 0 /\ n <= n
    BY <1>1
  <2> QED
    BY <1>5, <2>1 DEF T
<1> QED
  BY <1>6 DEF LoadedFrom, Loads, n

\* What load_into_store finds is what it finds from the first place on.
LEMMA LoadIs ==
  ASSUME NEW f \in Text
  PROVE  \E g : Loads(g, f) /\ Load(f) = g[0]
<1> DEFINE Eqn(g) == g =
      [at \in 0 .. Len(f) |->
        LET file  == [bytes |-> f, at |-> at, good |-> TRUE]
            line  == Line(file)
            count == IF At(line, 0) = Star THEN NumberIn(Tail(line)) ELSE Nothing
            scan  == Tokens(PastLine(file), count)
            found == IF IsRecord(scan, count) THEN <<scan.tokens>> ELSE << >>
        IN CASE AtEnd(file) -> << >>
             [] ~AtEnd(file) /\ (count = Nothing \/ count < 0) -> g[Place(PastLine(file))]
             [] OTHER -> found \o IF GoesOn(scan, count) THEN g[Place(scan.file)] ELSE << >>]
           r == CHOOSE g : Eqn(g)
<1>1. Load(f) = r[0]
  BY DEF Load
<1>2. ASSUME NEW g, NEW at
      PROVE  (LET file  == [bytes |-> f, at |-> at, good |-> TRUE]
                  line  == Line(file)
                  count == IF At(line, 0) = Star THEN NumberIn(Tail(line)) ELSE Nothing
                  scan  == Tokens(PastLine(file), count)
                  found == IF IsRecord(scan, count) THEN <<scan.tokens>> ELSE << >>
              IN CASE AtEnd(file) -> << >>
                   [] ~AtEnd(file) /\ (count = Nothing \/ count < 0) -> g[Place(PastLine(file))]
                   [] OTHER -> found \o IF GoesOn(scan, count) THEN g[Place(scan.file)] ELSE << >>)
             = LoadStep(g, f, at)
  <2> DEFINE op    == Opened(f, at)
             count == CountAt(f, at)
             scan  == ScanAt(f, at)
             found == FoundAt(f, at)
  <2>1. (CASE AtEnd(op) -> << >>
           [] ~AtEnd(op) /\ (count = Nothing \/ count < 0) -> g[Place(PastLine(op))]
           [] OTHER -> found \o IF GoesOn(scan, count) THEN g[Place(scan.file)] ELSE << >>)
        = LoadStep(g, f, at)
    <3> HIDE DEF op, count, scan, found
    <3>1. LoadStep(g, f, at) = IF AtEnd(op) THEN << >>
                               ELSE IF count = Nothing \/ count < 0 THEN g[Place(PastLine(op))]
                               ELSE found \o IF GoesOn(scan, count) THEN g[Place(scan.file)] ELSE << >>
      BY DEF LoadStep, NoHeader, op, count, scan, found
    <3> QED
      BY <3>1
  <2> QED
    BY <2>1 DEF Opened, CountAt, ScanAt, FoundAt
<1>3. ASSUME NEW g PROVE Eqn(g) <=> g = [at \in 0 .. Len(f) |-> LoadStep(g, f, at)]
  BY <1>2
<1>4. \E g : Eqn(g)
  <2>1. PICK g : g = [at \in 0 .. Len(f) |-> g[at]] /\ Loads(g, f)
    BY LoadsExist
  <2>2. g = [at \in 0 .. Len(f) |-> LoadStep(g, f, at)]
    BY <2>1 DEF Loads
  <2> HIDE DEF Eqn
  <2> QED
    BY <1>3, <2>2
<1>5. Eqn(r)
  <2> HIDE DEF Eqn
  <2> QED
    BY <1>4
<1>6. r = [at \in 0 .. Len(f) |-> LoadStep(r, f, at)]
  <2> HIDE DEF Eqn, r
  <2> QED
    BY <1>3, <1>5
<1>7. Loads(r, f)
  <2> HIDE DEF r
  <2> QED
    BY <1>6 DEF Loads
<1> QED
  BY <1>1, <1>7

-----------------------------------------------------------------------------
(* Reading what was written                                                *)

\* The line of a header, or of a length.
LEMMA MarkLine ==
  ASSUME NEW f \in Text, NEW p \in Nat, p + 4 <= Len(f),
         NEW mark \in {Star, Dollar}, NEW n \in NumberSymbols,
         f[p + 1] = mark, f[p + 2] = n, f[p + 3] = CR, f[p + 4] = LF,
         NEW file \in Files(f), file.at = p, file.good
  PROVE  /\ ~AtEnd(file) /\ At(Line(file), 0) = mark /\ NumberIn(Tail(Line(file))) = n
         /\ PastLine(file) = [bytes |-> f, at |-> p + 4, good |-> TRUE]
<1> DEFINE q == p + 3
           l == Line(file)
<1>1. Len(f) \in Nat /\ q \in p .. Len(f) - 1 /\ q + 1 = p + 4
  BY DEF Text
<1>2. \A j \in p .. q - 1 : f[j + 1] # LF
  <2>1. \A j \in p .. q - 1 : j + 1 = p + 1 \/ j + 1 = p + 2 \/ j + 1 = p + 3
    OBVIOUS
  <2>2. mark # LF /\ n # LF /\ CR # LF
    BY MarksAre
  <2> HIDE DEF q
  <2> QED
    BY <2>1, <2>2
<1>3. ~AtEnd(file) /\ EndOfLine(file) = q
  <2> HIDE DEF q
  <2> QED
    BY <1>1, <1>2, LineFound
<1>4. /\ l \in Text
      /\ Len(l) = IF q > p /\ f[q] = CR THEN q - p - 1 ELSE q - p
      /\ \A j \in 1 .. Len(l) : l[j] = f[p + j]
      /\ PastLine(file) = [bytes |-> f, at |-> q + 1, good |-> q < Len(f)]
  <2> HIDE DEF q, l
  <2> QED
    BY <1>3, LineIs DEF l
<1> HIDE DEF l
<1>5. Len(l) = 2 /\ l[1] = mark /\ l[2] = n
  <2>1. Len(l) = 2
    BY <1>4
  <2> QED
    BY <1>4, <2>1
<1>6. PastLine(file) = [bytes |-> f, at |-> p + 4, good |-> TRUE]
  <2>1. (q < Len(f)) = TRUE
    BY <1>1
  <2> HIDE DEF q
  <2> QED
    BY <1>1, <1>4, <2>1
<1>7. Tail(l) = <<n>>
  <2>1. l \in Seq(Symbols) /\ Tail(l) \in Seq(Symbols) /\ Len(Tail(l)) = 1 /\ Tail(l)[1] = n
    <3>0. l \in Seq(Symbols) /\ Len(l) = 2
      BY <1>4, <1>5 DEF Text
    <3>9. Len(<< >>) = 0
      OBVIOUS
    <3>4. l # << >>
      <4> SUFFICES ASSUME l = << >> PROVE FALSE
        OBVIOUS
      <4>1. Len(l) = Len(<< >>)
        OBVIOUS
      <4> QED
        BY <3>0, <3>9, <4>1
    <3>1. l \in Seq(Symbols) /\ l # << >> /\ Len(l) = 2 /\ l[2] = n
      BY <1>5, <3>0, <3>4
    <3>2. Tail(l) \in Seq(Symbols) /\ Len(Tail(l)) = Len(l) - 1 /\ \A i \in 1 .. Len(Tail(l)) : Tail(l)[i] = l[i + 1]
      BY <3>1, HeadTailProperties
    <3> DEFINE t == Tail(l)
    <3>5. t \in Seq(Symbols) /\ Len(t) = 1 /\ \A i \in 1 .. Len(t) : t[i] = l[i + 1]
      BY <3>1, <3>2
    <3> HIDE DEF t
    <3>3. 1 \in 1 .. Len(t) /\ 1 + 1 = 2
      BY <3>5
    <3>6. t[1] = l[2]
      BY <3>3, <3>5
    <3> QED
      BY <3>1, <3>5, <3>6 DEF t
  <2>2. <<n>> \in Seq(Symbols) /\ Len(<<n>>) = 1 /\ <<n>>[1] = n
    BY MarksAre
  <2> DEFINE t == Tail(l)
  <2> HIDE DEF t
  <2>3. t \in Seq(Symbols) /\ Len(t) = 1 /\ t[1] = n
    BY <2>1 DEF t
  <2>4. t = <<n>>
    BY <2>2, <2>3, SeqEqual
  <2> QED
    BY <2>4 DEF t
<1>8. NumberIn(Tail(l)) = n
  BY <1>7, NumberInOne
<1>9. At(l, 0) = mark
  BY <1>5 DEF At
<1> QED
  BY <1>3, <1>6, <1>8, <1>9 DEF l

\* MarkLine at the file's own place.
LEMMA MarkHere ==
  ASSUME NEW f \in Text, NEW file \in Files(f), file.good, file.at + 4 <= Len(f),
         f[file.at + 1] \in {Star, Dollar}, f[file.at + 2] \in NumberSymbols,
         f[file.at + 3] = CR, f[file.at + 4] = LF
  PROVE  /\ ~AtEnd(file) /\ At(Line(file), 0) = f[file.at + 1] /\ NumberIn(Tail(Line(file))) = f[file.at + 2]
         /\ PastLine(file) = [bytes |-> f, at |-> file.at + 4, good |-> TRUE]
<1> DEFINE p    == file.at
           mark == f[p + 1]
           n    == f[p + 2]
<1>1. /\ p \in Nat /\ p + 4 <= Len(f) /\ n \in NumberSymbols /\ mark \in {Star, Dollar}
      /\ f[p + 1] = mark /\ f[p + 2] = n /\ f[p + 3] = CR /\ f[p + 4] = LF /\ file.at = p
  BY DEF Files
<1> HIDE DEF n, mark, p
<1>2. /\ ~AtEnd(file) /\ At(Line(file), 0) = mark /\ NumberIn(Tail(Line(file))) = n
      /\ PastLine(file) = [bytes |-> f, at |-> p + 4, good |-> TRUE]
  BY <1>1, MarkLine
<1> QED
  BY <1>2 DEF n, mark, p

\* The stream after i tokens of a record, all of them as they were written.
ReadUpTo(scan, f, q, b, i) ==
  /\ scan.stopped = "no" /\ scan.file = [bytes |-> f, at |-> q, good |-> TRUE]
  /\ Len(scan.tokens) = i /\ \A j \in 1 .. i : scan.tokens[j] = b[j]

\* The bytes of a string that are there.
LEMMA BytesRead ==
  ASSUME NEW f \in Text, NEW q \in Nat, NEW v \in Strings, q + Len(v) <= Len(f),
         \A j \in 1 .. Len(v) : f[q + j] = v[j]
  PROVE  Bytes([bytes |-> f, at |-> q, good |-> TRUE], Len(v)) = v
<1> DEFINE file == [bytes |-> f, at |-> q, good |-> TRUE]
           n == Len(v)
<1>1. v \in Seq(Symbols) /\ n \in Nat /\ Len(f) \in Nat
  BY DEF Strings, Text
<1>2. Bytes(file, n) = [i \in 1 .. n |-> IF q + i <= Len(f) THEN f[q + i] ELSE Nul]
  BY DEF Bytes
<1>3. v = [i \in 1 .. n |-> v[i]]
  BY <1>1
<1>4. \A i \in 1 .. n : q + i <= Len(f) /\ f[q + i] = v[i]
  BY <1>1
<1> HIDE DEF n, file
<1> QED
  BY <1>2, <1>3, <1>4 DEF n, file

LEMMA TokenWhole ==
  ASSUME NEW f \in Text, NEW p \in Nat, NEW v \in Strings, BulkAt(f, p, v),
         NEW scan \in LogScans(f), scan.stopped = "no", scan.file = [bytes |-> f, at |-> p, good |-> TRUE]
  PROVE  Token(scan) = [tokens |-> Append(scan.tokens, v),
                        file |-> [bytes |-> f, at |-> p + Len(v) + 6, good |-> TRUE], stopped |-> "no"]
<1> DEFINE file == [bytes |-> f, at |-> p, good |-> TRUE]
           n    == Len(v)
           body == [bytes |-> f, at |-> p + 4, good |-> TRUE]
           last == [bytes |-> f, at |-> p + 4 + n, good |-> TRUE]
<1>1. n \in NumberSymbols /\ n \in Nat /\ Len(f) \in Nat
  BY DEF Strings, Text
<1>2. /\ p + n + 6 <= Len(f)
      /\ f[p + 1] = Dollar /\ f[p + 2] = n /\ f[p + 3] = CR /\ f[p + 4] = LF
      /\ \A j \in 1 .. n : f[p + 4 + j] = v[j]
  BY DEF BulkAt
<1>3. file \in Files(f) /\ file.at = p /\ file.good /\ body \in Files(f) /\ last \in Files(f)
  BY <1>1 DEF Files
<1>4. p + 4 <= Len(f)
  BY <1>1, <1>2
<1> HIDE DEF n
<1>5. /\ ~AtEnd(file) /\ At(Line(file), 0) = Dollar /\ NumberIn(Tail(Line(file))) = n
      /\ PastLine(file) = body
  <2>1. Dollar \in {Star, Dollar}
    OBVIOUS
  <2>2. n \in NumberSymbols /\ f[p + 1] = Dollar /\ f[p + 2] = n /\ f[p + 3] = CR /\ f[p + 4] = LF
    BY <1>1, <1>2
  <2>3. file \in Files(f) /\ file.at = p /\ file.good
    BY <1>3
  <2> HIDE DEF file
  <2>4. /\ ~AtEnd(file) /\ At(Line(file), 0) = Dollar /\ NumberIn(Tail(Line(file))) = n
        /\ PastLine(file) = [bytes |-> f, at |-> p + 4, good |-> TRUE]
    <3>1. /\ file \in Files(f) /\ file.good /\ file.at + 4 <= Len(f)
          /\ f[file.at + 1] = Dollar /\ f[file.at + 1] \in {Star, Dollar} /\ f[file.at + 2] \in NumberSymbols
          /\ f[file.at + 3] = CR /\ f[file.at + 4] = LF
      BY <1>4, <2>1, <2>2, <2>3
    <3>2. /\ ~AtEnd(file) /\ At(Line(file), 0) = Dollar /\ NumberIn(Tail(Line(file))) = f[file.at + 2]
          /\ PastLine(file) = [bytes |-> f, at |-> file.at + 4, good |-> TRUE]
      BY <3>1, MarkHere
    <3> QED
      BY <2>2, <2>3, <3>2
  <2> QED
    BY <2>4
<1>6. Bytes(body, n) = v
  <2>1. p + 4 \in Nat /\ (p + 4) + n <= Len(f)
    <3>1. p \in Nat /\ n \in Int /\ Len(f) \in Int /\ p + n + 6 <= Len(f)
      BY <1>1, <1>2
    <3> QED
      BY ONLY <3>1
  <2>2. Bytes([bytes |-> f, at |-> p + 4, good |-> TRUE], Len(v)) = v
    BY <1>2, <2>1, BytesRead DEF n
  <2> QED
    BY <2>2 DEF n
<1>7. PastBytes(body, n) = last
  <2>1. body.good /\ body.at = p + 4 /\ body.at + n <= Len(f)
    BY <1>1, <1>2
  <2>3. body \in Files(f)
    BY <1>3
  <2> HIDE DEF body
  <2>2. PastBytes(body, n) = [bytes |-> f, at |-> body.at + n, good |-> TRUE]
    BY <1>1, <2>1, <2>3, PastBytesIs
  <2> QED
    BY <2>1, <2>2
<1>8. PastBytes(last, 2) = [bytes |-> f, at |-> p + n + 6, good |-> TRUE]
  <2>1. last.good /\ last.at = p + 4 + n /\ last.at + 2 <= Len(f) /\ last.at + 2 = p + n + 6
    <3>1. last.good /\ last.at = p + 4 + n
      OBVIOUS
    <3>2. (p + 4 + n) + 2 <= Len(f) /\ (p + 4 + n) + 2 = p + n + 6
      <4>1. p + n + 6 <= Len(f) /\ p \in Int /\ n \in Int /\ Len(f) \in Int
        BY <1>1, <1>2
      <4> HIDE DEF n
      <4> QED
        BY ONLY <4>1
    <3> HIDE DEF last
    <3> QED
      BY <3>1, <3>2
  <2>3. last \in Files(f)
    BY <1>3
  <2> HIDE DEF last
  <2>2. PastBytes(last, 2) = [bytes |-> f, at |-> last.at + 2, good |-> TRUE]
    BY <2>1, <2>3, PastBytesIs
  <2> QED
    BY <2>1, <2>2
<1>9. ~(n = Nothing \/ n < 0)
  BY <1>1, MarksAre
<1> HIDE DEF body, last
<1>10. /\ ~AtEnd(scan.file) /\ At(Line(scan.file), 0) = Dollar /\ NumberIn(Tail(Line(scan.file))) = n
       /\ PastLine(scan.file) = body
  BY <1>5 DEF file
<1>11. Token(scan) = [tokens |-> Append(scan.tokens, Bytes(body, n)),
                      file |-> PastBytes(PastBytes(body, n), 2), stopped |-> "no"]
  <2>1. scan.stopped = "no" /\ ~AtEnd(scan.file) /\ At(Line(scan.file), 0) = Dollar
        /\ ~(NumberIn(Tail(Line(scan.file))) = Nothing \/ NumberIn(Tail(Line(scan.file))) < 0)
    BY <1>9, <1>10
  <2>2. Token(scan) = [tokens |-> Append(scan.tokens, Bytes(PastLine(scan.file), NumberIn(Tail(Line(scan.file))))),
                       file |-> PastBytes(PastBytes(PastLine(scan.file), NumberIn(Tail(Line(scan.file)))), 2),
                       stopped |-> "no"]
    BY <2>1, TokenCases
  <2> QED
    BY <1>10, <2>2
<1> QED
  BY <1>6, <1>7, <1>8, <1>11 DEF n

\* The first L bytes of a text stand in f behind p.
Begins(f, p, full, L) ==
  L \in 0 .. Len(full) /\ p + L <= Len(f) /\ \A j \in 1 .. L : f[p + j] = full[j]

LEMMA BulkBegins ==
  ASSUME NEW f \in Text, NEW p \in Nat, NEW full \in Text, NEW L, Begins(f, p, full, L),
         NEW v \in Strings, NEW a \in Nat, BulkAt(full, a, v), a + Len(v) + 6 <= L
  PROVE  BulkAt(f, p + a, v)
<1> DEFINE n == Len(v)
<1>1. /\ n \in Nat /\ Len(f) \in Nat /\ Len(full) \in Nat /\ L \in Nat /\ p + L <= Len(f)
      /\ \A j \in 1 .. L : f[p + j] = full[j]
  BY DEF Begins, Text, Strings
<1>2. /\ full[a + 1] = Dollar /\ full[a + 2] = n /\ full[a + 3] = CR /\ full[a + 4] = LF
      /\ \A j \in 1 .. n : full[a + 4 + j] = v[j]
      /\ full[a + n + 5] = CR /\ full[a + n + 6] = LF
  BY DEF BulkAt
<1>3. a + n + 6 <= L
  OBVIOUS
<1> HIDE DEF n
<1>4. \A j \in 1 .. n + 6 : f[(p + a) + j] = full[a + j]
  <2>1. ASSUME NEW j \in 1 .. n + 6 PROVE a + j \in 1 .. L /\ p + (a + j) = (p + a) + j
    BY <1>1, <1>3
  <2>2. ASSUME NEW j \in 1 .. n + 6 PROVE f[(p + a) + j] = full[a + j]
    <3>1. f[p + (a + j)] = full[a + j]
      BY <1>1, <2>1
    <3> QED
      BY <2>1, <3>1
  <2> QED
    BY <2>2
<1>5. /\ 1 \in 1 .. n + 6 /\ 2 \in 1 .. n + 6 /\ 3 \in 1 .. n + 6 /\ 4 \in 1 .. n + 6
      /\ n + 5 \in 1 .. n + 6 /\ n + 6 \in 1 .. n + 6
      /\ \A j \in 1 .. n : 4 + j \in 1 .. n + 6 /\ (p + a) + (4 + j) = (p + a) + 4 + j /\ a + (4 + j) = a + 4 + j
      /\ (p + a) + (n + 5) = (p + a) + n + 5 /\ (p + a) + (n + 6) = (p + a) + n + 6
      /\ a + (n + 5) = a + n + 5 /\ a + (n + 6) = a + n + 6
  BY <1>1
<1> DEFINE P == p + a
<1>6. P + n + 6 <= Len(f)
  BY <1>1, <1>3
<1> HIDE DEF P
<1>7. f[P + 1] = Dollar /\ f[P + 2] = n /\ f[P + 3] = CR /\ f[P + 4] = LF
  BY <1>2, <1>4, <1>5 DEF P
<1>8. f[P + n + 5] = CR /\ f[P + n + 6] = LF
  BY <1>2, <1>4, <1>5 DEF P
<1>9. \A j \in 1 .. n : f[P + 4 + j] = v[j]
  BY <1>2, <1>4, <1>5 DEF P
<1> QED
  BY <1>6, <1>7, <1>8, <1>9 DEF BulkAt, n, P

\* The places of the tokens in a record grow.
LEMMA PlacesGrow ==
  ASSUME NEW b \in Seq(Strings), NEW full \in Text, NEW off, ArrayAt(full, b, off), NEW i \in 1 .. Len(b)
  PROVE  /\ off[i] \in Nat /\ off[i - 1] \in Nat /\ off[i] = off[i - 1] + Len(b[i]) + 6
         /\ Len(b[i]) \in Nat /\ b[i] \in Strings /\ BulkAt(full, off[i - 1], b[i])
<1>1. i - 1 \in 0 .. Len(b) /\ i \in 0 .. Len(b) /\ b[i] \in Strings
  OBVIOUS
<1>2. off \in [0 .. Len(b) -> Nat]
  BY DEF ArrayAt
<1>3. off[i] = off[i - 1] + Len(b[i]) + 6 /\ BulkAt(full, off[i - 1], b[i])
  BY DEF ArrayAt
<1>4. Len(b[i]) \in Nat
  BY <1>1 DEF Strings, Text
<1> QED
  BY <1>1, <1>2, <1>3, <1>4

\* The tokens in front of a cut are read as they were written.
LEMMA PrefixRead ==
  ASSUME NEW f \in Text, NEW p \in Nat, NEW b \in Seq(Strings), NEW full \in Text, NEW off,
         ArrayAt(full, b, off), NEW L, Begins(f, p, full, L), 4 <= L,
         NEW h, Scanning(h, f, [bytes |-> f, at |-> p + 4, good |-> TRUE], Len(b)),
         NEW i \in 0 .. Len(b), off[i] <= L
  PROVE  ReadUpTo(h[i], f, p + off[i], b, i)
<1> DEFINE m == Len(b)
           T == {n \in Nat : n <= m /\ off[n] <= L => ReadUpTo(h[n], f, p + off[n], b, n)}
<1>1. m \in Nat /\ off[0] = 4 /\ L \in Nat /\ Len(full) \in Nat
  BY DEF ArrayAt, Begins, Text
<1>2. 0 \in T
  <2>1. h[0] = [tokens |-> << >>, file |-> [bytes |-> f, at |-> p + 4, good |-> TRUE], stopped |-> "no"]
    BY DEF Scanning
  <2>2. ReadUpTo(h[0], f, p + off[0], b, 0)
    <3> DEFINE g == [bytes |-> f, at |-> p + 4, good |-> TRUE]
    <3>1. h[0] = [tokens |-> << >>, file |-> g, stopped |-> "no"] /\ [bytes |-> f, at |-> p + off[0], good |-> TRUE] = g
      BY <1>1, <2>1
    <3> HIDE DEF g
    <3>2. h[0].tokens = << >> /\ h[0].file = g /\ h[0].stopped = "no"
      BY <3>1
    <3> QED
      BY <3>1, <3>2 DEF ReadUpTo
  <2> QED
    BY <2>2
<1>3. ASSUME NEW n \in Nat, n \in T PROVE n + 1 \in T
  <2>1. SUFFICES ASSUME n + 1 <= m, off[n + 1] <= L PROVE ReadUpTo(h[n + 1], f, p + off[n + 1], b, n + 1)
    OBVIOUS
  <2>2. n + 1 \in 1 .. m /\ (n + 1) - 1 = n /\ n <= m /\ n \in 0 .. m
    BY <1>1, <2>1
  <2> DEFINE v == b[n + 1]  here == off[n + 1]  last == off[n]
  <2>3. /\ here \in Nat /\ last \in Nat /\ here = last + Len(v) + 6
        /\ Len(v) \in Nat /\ v \in Strings /\ BulkAt(full, last, v)
    <3>1. /\ off[n + 1] \in Nat /\ off[(n + 1) - 1] \in Nat
          /\ off[n + 1] = off[(n + 1) - 1] + Len(b[n + 1]) + 6
          /\ Len(b[n + 1]) \in Nat /\ b[n + 1] \in Strings /\ BulkAt(full, off[(n + 1) - 1], b[n + 1])
      BY <2>2, PlacesGrow
    <3> QED
      BY <2>2, <3>1
  <2> DEFINE scan == h[n]
  <2>4. h[n + 1] = Token(scan) /\ scan \in LogScans(f)
    BY <2>2 DEF Scanning
  <2>5. here <= L
    BY <2>1
  <2> HIDE DEF v, here, last
  <2>6. last <= L /\ last + Len(v) + 6 <= L
    BY <1>1, <2>3, <2>5
  <2>7. ReadUpTo(scan, f, p + last, b, n)
    BY <1>3, <2>2, <2>6 DEF last
  <2> HIDE DEF scan
  <2>8. BulkAt(f, p + last, v)
    BY <2>3, <2>6, BulkBegins
  <2>9. scan.stopped = "no" /\ scan.file = [bytes |-> f, at |-> p + last, good |-> TRUE]
    BY <2>7 DEF ReadUpTo
  <2>10. Token(scan) = [tokens |-> Append(scan.tokens, v),
                        file |-> [bytes |-> f, at |-> (p + last) + Len(v) + 6, good |-> TRUE], stopped |-> "no"]
    <3>1. p + last \in Nat
      BY <2>3
    <3> QED
      BY <2>3, <2>4, <2>8, <2>9, <3>1, TokenWhole
  <2>11. (p + last) + Len(v) + 6 = p + here
    BY <2>3
  <2>12. scan.tokens \in Seq(Seq(LogBytes)) /\ Len(scan.tokens) = n /\ \A j \in 1 .. n : scan.tokens[j] = b[j]
    BY <2>4, <2>7 DEF ReadUpTo, LogScans
  <2> DEFINE ts == Append(scan.tokens, v)
             g  == [bytes |-> f, at |-> p + here, good |-> TRUE]
  <2>13. Len(ts) = n + 1 /\ \A j \in 1 .. n + 1 : ts[j] = b[j]
    <3> DEFINE us == scan.tokens
    <3>1. us \in Seq(Seq(LogBytes)) /\ Len(us) = n
      BY <2>12
    <3> HIDE DEF us
    <3>2. /\ Len(Append(us, v)) = n + 1 /\ Append(us, v)[n + 1] = v
          /\ \A j \in 1 .. n : Append(us, v)[j] = us[j]
      BY <3>1
    <3>3. \A j \in 1 .. n + 1 : j \in 1 .. n \/ j = n + 1
      OBVIOUS
    <3> QED
      BY <2>12, <3>2, <3>3 DEF v, us
  <2>14. h[n + 1] = [tokens |-> ts, file |-> g, stopped |-> "no"]
    BY <2>4, <2>10, <2>11
  <2> HIDE DEF ts, g
  <2>15. h[n + 1].tokens = ts /\ h[n + 1].file = g /\ h[n + 1].stopped = "no"
    BY <2>14
  <2> QED
    BY <2>13, <2>15 DEF ReadUpTo, g, here
<1> HIDE DEF T
<1>4. i \in Nat
  OBVIOUS
<1>5. i \in T
  BY <1>2, <1>3, <1>4, SetInduction
<1> QED
  BY <1>5 DEF T

\* The header of a record, and where its tokens begin.
LEMMA HeaderRead ==
  ASSUME NEW f \in Text, NEW p \in Nat, NEW b \in Seq(Strings), Len(b) \in NumberSymbols, NEW full \in Text, NEW off,
         ArrayAt(full, b, off), NEW L, Begins(f, p, full, L), 4 <= L
  PROVE  /\ p \in 0 .. Len(f) /\ ~AtEnd(Opened(f, p)) /\ CountAt(f, p) = Len(b) /\ ~NoHeader(f, p)
         /\ PastLine(Opened(f, p)) = [bytes |-> f, at |-> p + 4, good |-> TRUE]
<1> DEFINE n == Len(b)
<1>1. /\ n \in Nat /\ n \in NumberSymbols /\ Len(f) \in Nat
      /\ L \in Nat /\ p + L <= Len(f) /\ \A j \in 1 .. L : f[p + j] = full[j]
      /\ full[1] = Star /\ full[2] = n /\ full[3] = CR /\ full[4] = LF
  BY DEF Text, Begins, ArrayAt
<1> HIDE DEF n
<1>2. p + 4 <= Len(f) /\ f[p + 1] = Star /\ f[p + 2] = n /\ f[p + 3] = CR /\ f[p + 4] = LF
  <2>1. 1 \in 1 .. L /\ 2 \in 1 .. L /\ 3 \in 1 .. L /\ 4 \in 1 .. L
    BY <1>1
  <2>2. f[p + 1] = full[1] /\ f[p + 2] = full[2] /\ f[p + 3] = full[3] /\ f[p + 4] = full[4]
    BY <1>1, <2>1
  <2>3. p + 4 <= Len(f)
    BY <1>1
  <2> QED
    BY <1>1, <2>2, <2>3
<1>3. p \in 0 .. Len(f)
  BY <1>1, <1>2
<1>4. Opened(f, p) \in Files(f) /\ Opened(f, p).at = p /\ Opened(f, p).good
  BY <1>3, OpenedIs
<1> DEFINE op == Opened(f, p)
<1> HIDE DEF op
<1>5. op \in Files(f) /\ op.at = p /\ op.good
  BY <1>4 DEF op
<1>6. /\ ~AtEnd(op) /\ At(Line(op), 0) = Star /\ NumberIn(Tail(Line(op))) = n
      /\ PastLine(op) = [bytes |-> f, at |-> p + 4, good |-> TRUE]
  <2>1. /\ op \in Files(f) /\ op.good /\ op.at + 4 <= Len(f)
        /\ f[op.at + 1] = Star /\ f[op.at + 1] \in {Star, Dollar} /\ f[op.at + 2] \in NumberSymbols
        /\ f[op.at + 3] = CR /\ f[op.at + 4] = LF
    BY <1>1, <1>2, <1>5
  <2>2. /\ ~AtEnd(op) /\ At(Line(op), 0) = Star /\ NumberIn(Tail(Line(op))) = f[op.at + 2]
        /\ PastLine(op) = [bytes |-> f, at |-> op.at + 4, good |-> TRUE]
    BY <2>1, MarkHere
  <2> QED
    BY <1>2, <1>5, <2>2
<1>7. CountAt(f, p) = n
  BY <1>6 DEF CountAt, op
<1>8. n # Nothing /\ ~(n < 0)
  BY <1>1, MarksAre
<1> QED
  BY <1>3, <1>6, <1>7, <1>8 DEF op, n, NoHeader

\* A record that is there whole is found, and the next line is behind it.
LEMMA RecordRead ==
  ASSUME NEW f \in Text, NEW p \in Nat, NEW b \in Records, Holds(f, p, RecordBytes(b)), NEW g
  PROVE  LET q == p + Len(RecordBytes(b)) IN
         /\ RecordBytes(b) \in Text /\ q \in Nat /\ q > p /\ q <= Len(f)
         /\ LoadStep(g, f, p) = <<b>> \o IF q < Len(f) THEN g[q] ELSE << >>
<1> DEFINE full == RecordBytes(b)
           L == Len(full)
           m == Len(b)
           q == p + L
<1>1. b \in Seq(Strings) /\ b # << >> /\ m \in NumberSymbols /\ m \in Nat
  BY DEF Records
<1>2. full \in Text /\ \E o : ArrayAt(full, b, o)
  BY <1>1, ArrayIs DEF RecordBytes
<1> HIDE DEF full
<1>3. PICK off : ArrayAt(full, b, off)
  BY <1>2
<1>4. /\ L \in Nat /\ L = off[m] /\ m \in 0 .. m /\ Len(f) \in Nat
      /\ p + L <= Len(f) /\ \A j \in 1 .. L : f[p + j] = full[j]
  BY <1>1, <1>2, <1>3 DEF ArrayAt, Holds, Text, full
<1>5. m >= 1
  <2>1. SUFFICES ASSUME m = 0 PROVE FALSE
    BY <1>1
  <2>2. b = << >>
    BY <1>1, <2>1
  <2> QED
    BY <1>1, <2>2
<1>6. 10 <= L
  <2> DEFINE T == {n \in Nat : n + 1 <= m => off[n + 1] >= 10}
  <2>1. 0 \in T
    <3>1. SUFFICES ASSUME 1 <= m PROVE off[1] >= 10
      OBVIOUS
    <3>2. /\ off[1] \in Nat /\ off[1 - 1] \in Nat /\ off[1] = off[1 - 1] + Len(b[1]) + 6 /\ Len(b[1]) \in Nat
      <4>1. 1 \in 1 .. m
        BY <1>1, <3>1
      <4> QED
        BY <1>1, <1>2, <1>3, <4>1, PlacesGrow
    <3>3. off[0] = 4 /\ 1 - 1 = 0
      BY <1>3 DEF ArrayAt
    <3> QED
      BY <3>2, <3>3
  <2>2. ASSUME NEW n \in Nat, n \in T PROVE n + 1 \in T
    <3>1. SUFFICES ASSUME (n + 1) + 1 <= m PROVE off[(n + 1) + 1] >= 10
      OBVIOUS
    <3> DEFINE k == (n + 1) + 1
    <3>2. k \in 1 .. m /\ k - 1 = n + 1 /\ n + 1 <= m
      BY <1>1, <3>1
    <3> HIDE DEF k
    <3>3. off[k] \in Nat /\ off[k - 1] \in Nat /\ off[k] = off[k - 1] + Len(b[k]) + 6 /\ Len(b[k]) \in Nat
      BY <1>1, <1>2, <1>3, <3>2, PlacesGrow
    <3>4. off[n + 1] >= 10
      BY <2>2, <3>2
    <3> DEFINE x == off[k]  y == off[k - 1]  z == Len(b[k])
    <3>5. x = y + z + 6 /\ y >= 10 /\ y \in Nat /\ z \in Nat
      BY <3>2, <3>3, <3>4
    <3> HIDE DEF x, y, z
    <3>6. x >= 10
      BY <3>5
    <3> QED
      BY <3>6 DEF x, k
  <2> HIDE DEF T
  <2>3. m - 1 \in Nat /\ (m - 1) + 1 = m
    BY <1>1, <1>5
  <2>4. m - 1 \in T
    BY <2>1, <2>2, <2>3, SetInduction
  <2> QED
    BY <1>4, <2>3, <2>4 DEF T
<1>7. Begins(f, p, full, L)
  BY <1>4 DEF Begins
<1> HIDE DEF L, m
<1>8. /\ p \in 0 .. Len(f) /\ ~AtEnd(Opened(f, p)) /\ CountAt(f, p) = m /\ ~NoHeader(f, p)
      /\ PastLine(Opened(f, p)) = [bytes |-> f, at |-> p + 4, good |-> TRUE]
  <2>1. 4 <= L /\ Len(b) \in NumberSymbols
    BY <1>1, <1>4, <1>6 DEF m
  <2> QED
    BY <1>1, <1>2, <1>3, <1>7, <2>1, HeaderRead DEF m
<1> DEFINE file == [bytes |-> f, at |-> p + 4, good |-> TRUE]
<1>9. file \in Files(f)
  BY <1>4 DEF Files
<1>10. ScanAt(f, p) = Tokens(file, m)
  BY <1>8 DEF ScanAt
<1> HIDE DEF file
<1>11. PICK h : Scanning(h, f, file, m) /\ h[m] = Tokens(file, m)
  BY <1>1, <1>9, TokenChain
<1>12. ReadUpTo(h[m], f, p + off[m], b, m)
  <2>1. 4 <= L /\ off[m] <= L /\ m \in 0 .. Len(b)
    BY <1>4, <1>6 DEF m
  <2> QED
    BY <1>1, <1>2, <1>3, <1>7, <1>11, <2>1, PrefixRead DEF m, file
<1> DEFINE scan == h[m]
<1>13. scan \in LogScans(f)
  BY <1>4, <1>11 DEF Scanning
<1> HIDE DEF scan
<1>14. /\ scan.stopped = "no" /\ scan.file = [bytes |-> f, at |-> q, good |-> TRUE]
       /\ Len(scan.tokens) = m /\ \A j \in 1 .. m : scan.tokens[j] = b[j]
  BY <1>4, <1>12 DEF ReadUpTo, scan
<1>15. scan.tokens = b
  <2> DEFINE ts == scan.tokens
  <2>1. ts \in Seq(Seq(LogBytes)) /\ Len(ts) = m /\ \A j \in 1 .. m : ts[j] = b[j]
    BY <1>13, <1>14 DEF LogScans
  <2> HIDE DEF ts
  <2>2. b \in Seq(Strings) /\ Len(b) = m
    BY <1>1 DEF m
  <2>3. ts = b
    BY <2>1, <2>2, SeqEqual
  <2> QED
    BY <2>3 DEF ts
<1>16. q \in Nat /\ q > p /\ q <= Len(f)
  BY <1>4, <1>6
<1>17. FoundAt(f, p) = <<b>>
  <2>1. IsRecord(scan, m)
    BY <1>14 DEF IsRecord
  <2> QED
    BY <1>8, <1>10, <1>11, <1>15, <2>1 DEF FoundAt, scan
<1>18. (GoesOn(scan, m) <=> q < Len(f)) /\ (q < Len(f) => Place(scan.file) = q)
  <2> HIDE DEF q
  <2>1. scan.file.good = TRUE /\ scan.file.at = q /\ scan.file.bytes = f
    BY <1>14
  <2> QED
    BY <1>4, <1>16, <2>1 DEF GoesOn, Place, AtEnd
<1>19. LoadStep(g, f, p) = <<b>> \o IF q < Len(f) THEN g[q] ELSE << >>
  <2>1. LoadStep(g, f, p) = FoundAt(f, p) \o IF GoesOn(scan, m) THEN g[Place(scan.file)] ELSE << >>
    BY <1>8, <1>10, <1>11 DEF LoadStep, scan
  <2> HIDE DEF q
  <2> QED
    BY <1>17, <1>18, <2>1
<1> QED
  BY <1>2, <1>16, <1>19 DEF L, full

-----------------------------------------------------------------------------
(* The records behind a cut                                                *)

\* The record that a place lies in, when records stand one behind the other.
LEMMA Located ==
  ASSUME NEW K \in Nat, NEW start \in [0 .. K -> Nat], NEW q \in Nat, start[0] < q, q <= start[K]
  PROVE  \E k \in 1 .. K : start[k - 1] < q /\ q <= start[k]
<1> DEFINE S == {k \in 0 .. K : q <= start[k]}
<1>1. S \subseteq Nat /\ K \in S
  OBVIOUS
<1>2. \E k \in S : \A j \in S : k <= j
  <2> HIDE DEF S
  <2> QED
    BY <1>1, LeastNumber
<1>3. PICK k \in S : \A j \in S : k <= j
  BY <1>2
<1>4. k \in 0 .. K /\ q <= start[k] /\ k # 0
  <2>1. k \in 0 .. K /\ q <= start[k]
    OBVIOUS
  <2>2. start[0] \in Nat
    OBVIOUS
  <2> QED
    BY <2>1, <2>2
<1>5. k \in 1 .. K /\ k - 1 \in 0 .. K /\ k - 1 \notin S
  <2>1. k \in 1 .. K /\ k - 1 \in 0 .. K /\ ~(k <= k - 1)
    BY <1>4
  <2> HIDE DEF S
  <2> QED
    BY <1>3, <2>1
<1>6. start[k - 1] < q
  <2>1. start[k - 1] \in Nat /\ ~(q <= start[k - 1])
    BY <1>5
  <2> QED
    BY <2>1
<1> QED
  BY <1>4, <1>5, <1>6

\* A record begins with a star, has no other when its strings have none, and
\* ends with a line.
LEMMA StarFirst ==
  ASSUME NEW b \in Records
  PROVE  /\ RecordBytes(b) \in Text /\ Len(RecordBytes(b)) \in Nat /\ Len(RecordBytes(b)) >= 10
         /\ RecordBytes(b)[Len(RecordBytes(b))] = LF
         /\ RecordBytes(b)[1] = Star /\ RecordBytes(b)[2] = Len(b) /\ RecordBytes(b)[3] = CR /\ RecordBytes(b)[4] = LF
         /\ RecordBytes(b)[5] = Dollar /\ RecordBytes(b)[6] \in NumberSymbols
         /\ RecordBytes(b)[7] = CR /\ RecordBytes(b)[8] = LF
         /\ (\A i \in 1 .. Len(b) : Star \notin Range(b[i])) =>
              \A j \in 2 .. Len(RecordBytes(b)) : RecordBytes(b)[j] # Star
<1> DEFINE full == RecordBytes(b)
           m == Len(b)
<1>1. b \in Seq(Strings) /\ b # << >> /\ m \in NumberSymbols /\ m \in Nat
  BY DEF Records
<1>2. full \in Text /\ \E o : ArrayAt(full, b, o)
  BY <1>1, ArrayIs DEF RecordBytes
<1> HIDE DEF full
<1>3. PICK off : ArrayAt(full, b, off)
  BY <1>2
<1>4. m >= 1
  <2>1. SUFFICES ASSUME m = 0 PROVE FALSE
    BY <1>1
  <2>2. b = << >>
    BY <1>1, <2>1
  <2> QED
    BY <1>1, <2>2
<1>5. /\ full[1] = Star /\ full[2] = m /\ full[3] = CR /\ full[4] = LF /\ off[0] = 4
      /\ Len(full) = off[m] /\ Len(full) \in Nat
  BY <1>2, <1>3 DEF ArrayAt, Text
<1>6. ASSUME NEW i \in 1 .. m
      PROVE  /\ off[i] \in Nat /\ off[i - 1] \in Nat /\ off[i] = off[i - 1] + Len(b[i]) + 6
             /\ Len(b[i]) \in Nat /\ b[i] \in Strings /\ BulkAt(full, off[i - 1], b[i])
  BY <1>1, <1>2, <1>3, PlacesGrow
<1>7. full[5] = Dollar /\ full[6] \in NumberSymbols /\ full[7] = CR /\ full[8] = LF /\ off[1] >= 10
  <2>1. 1 \in 1 .. m /\ 1 - 1 = 0
    BY <1>1, <1>4
  <2>2. off[1] = 4 + Len(b[1]) + 6 /\ Len(b[1]) \in Nat /\ BulkAt(full, 4, b[1]) /\ Len(b[1]) \in NumberSymbols
    BY <1>5, <1>6, <2>1 DEF Strings
  <2>3. full[4 + 1] = Dollar /\ full[4 + 2] = Len(b[1]) /\ full[4 + 3] = CR /\ full[4 + 4] = LF
    BY <2>2 DEF BulkAt
  <2> QED
    BY <2>2, <2>3
<1>8. off[m] >= 10 /\ full[off[m]] = LF
  <2>1. m \in 1 .. m
    BY <1>1, <1>4
  <2>2. /\ off[m] \in Nat /\ off[m - 1] \in Nat /\ off[m] = off[m - 1] + Len(b[m]) + 6
        /\ Len(b[m]) \in Nat /\ BulkAt(full, off[m - 1], b[m])
    BY <1>6, <2>1
  <2>3. full[off[m - 1] + Len(b[m]) + 6] = LF
    BY <2>2 DEF BulkAt
  <2> DEFINE T == {n \in Nat : n <= m => off[n] >= 4}
  <2>4. 0 \in T
    BY <1>5
  <2>5. ASSUME NEW n \in Nat, n \in T PROVE n + 1 \in T
    <3>1. SUFFICES ASSUME n + 1 <= m PROVE off[n + 1] >= 4
      OBVIOUS
    <3>2. n + 1 \in 1 .. m /\ (n + 1) - 1 = n /\ n <= m
      BY <1>1, <3>1
    <3>3. off[n + 1] = off[n] + Len(b[n + 1]) + 6 /\ Len(b[n + 1]) \in Nat /\ off[n] \in Nat /\ off[n] >= 4
      BY <1>6, <2>5, <3>2
    <3> DEFINE x == off[n + 1]  y == off[n]  z == Len(b[n + 1])
    <3> HIDE DEF x, y, z
    <3>4. x = y + z + 6 /\ z \in Nat /\ y \in Nat /\ y >= 4
      BY <3>3 DEF x, y, z
    <3>5. x >= 4
      BY <3>4
    <3> QED
      BY <3>5 DEF x
  <2> HIDE DEF T
  <2>6. m - 1 \in Nat /\ m - 1 <= m
    BY <1>1, <1>4
  <2>7. m - 1 \in T
    BY <2>4, <2>5, <2>6, SetInduction
  <2>8. off[m - 1] >= 4
    BY <2>6, <2>7 DEF T
  <2> DEFINE x == off[m]  y == off[m - 1]  z == Len(b[m])
  <2> HIDE DEF x, y, z
  <2>9. x = y + z + 6 /\ z \in Nat /\ y \in Nat /\ y >= 4 /\ full[x] = LF
    BY <2>2, <2>3, <2>8 DEF x, y, z
  <2>10. x >= 10
    BY <2>9
  <2> QED
    BY <2>9, <2>10 DEF x
<1>9. ASSUME \A i \in 1 .. m : Star \notin Range(b[i])
      PROVE  \A j \in 2 .. Len(full) : full[j] # Star
  <2> DEFINE T == {n \in Nat : n <= m => \A j \in 2 .. off[n] : full[j] # Star}
  <2>1. 0 \in T
    <3>1. SUFFICES ASSUME NEW j \in 2 .. off[0] PROVE full[j] # Star
      OBVIOUS
    <3>2. j = 2 \/ j = 3 \/ j = 4
      BY <1>5
    <3>3. m # Star /\ CR # Star /\ LF # Star
      BY <1>1, MarksAre
    <3> QED
      BY <1>5, <3>2, <3>3
  <2>2. ASSUME NEW n \in Nat, n \in T PROVE n + 1 \in T
    <3>1. SUFFICES ASSUME n + 1 <= m, NEW j \in 2 .. off[n + 1] PROVE full[j] # Star
      OBVIOUS
    <3>2. n + 1 \in 1 .. m /\ (n + 1) - 1 = n /\ n <= m
      BY <1>1, <3>1
    <3> DEFINE v == b[n + 1]  here == off[n + 1]  last == off[n]  len == Len(v)
    <3>3. /\ here \in Nat /\ last \in Nat /\ here = last + len + 6
          /\ len \in Nat /\ v \in Strings /\ BulkAt(full, last, v)
      BY <1>6, <3>2
    <3>4. \A x \in 2 .. last : full[x] # Star
      BY <2>2, <3>2
    <3>5. j \in 2 .. here
      BY <3>1
    <3>6. Star \notin Range(v)
      BY <1>9, <3>2
    <3>7. len \in NumberSymbols
      BY <3>3 DEF Strings
    <3> HIDE DEF v, here, last
    <3>8. /\ full[last + 1] = Dollar /\ full[last + 2] = len /\ full[last + 3] = CR /\ full[last + 4] = LF
          /\ \A x \in 1 .. len : full[last + 4 + x] = v[x]
          /\ full[last + len + 5] = CR /\ full[last + len + 6] = LF
      BY <3>3 DEF BulkAt
    <3>9. \A x \in 1 .. len : v[x] # Star
      BY <3>6 DEF Range
    <3> HIDE DEF len
    <3>10. /\ Dollar # Star /\ len # Star /\ CR # Star /\ LF # Star
      BY <3>7, MarksAre
    <3>11. CASE j <= last
      BY <3>3, <3>4, <3>5, <3>11
    <3>12. CASE j \in {last + 1, last + 2, last + 3, last + 4, last + len + 5, last + len + 6}
      BY <3>8, <3>10, <3>12
    <3>13. CASE j > last + 4 /\ j < last + len + 5
      <4> DEFINE x == j - (last + 4)
      <4>1. x \in 1 .. len /\ j = last + 4 + x
        BY <3>3, <3>5, <3>13
      <4> HIDE DEF x
      <4> QED
        BY <3>8, <3>9, <4>1
    <3>14. j <= last \/ j \in {last + 1, last + 2, last + 3, last + 4, last + len + 5, last + len + 6}
             \/ (j > last + 4 /\ j < last + len + 5)
      BY <3>3, <3>5
    <3> QED
      BY <3>11, <3>12, <3>13, <3>14
  <2> HIDE DEF T
  <2>3. m \in T
    BY <1>1, <2>1, <2>2, SetInduction
  <2>4. m <= m
    BY <1>1
  <2> QED
    BY <1>5, <2>3, <2>4 DEF T
<1> QED
  BY <1>2, <1>5, <1>7, <1>8, <1>9, <1>1 DEF full

\* Where the records behind a cut stand.
BehindAt(f, size, behind, start) ==
  /\ start \in [0 .. Len(behind) -> Nat] /\ start[0] = size /\ start[Len(behind)] = Len(f)
  /\ \A k \in 1 .. Len(behind) :
       start[k] = start[k - 1] + Len(RecordBytes(behind[k])) /\ Holds(f, start[k - 1], RecordBytes(behind[k]))

RestOf(behind, k) == SubSeq(behind, k + 1, Len(behind))

LEMMA RestCons ==
  ASSUME NEW S, NEW s \in Seq(S), NEW k \in Nat, k < Len(s)
  PROVE  <<s[k + 1]>> \o RestOf(s, k + 1) = RestOf(s, k) /\ RestOf(s, Len(s)) = << >> /\ RestOf(s, 0) = s
<1> DEFINE n == Len(s)
           a == RestOf(s, k + 1)
           c == RestOf(s, k)
           one == <<s[k + 1]>>
           d == one \o a
<1>1. n \in Nat /\ k + 1 \in 1 .. n /\ s[k + 1] \in S
  OBVIOUS
<1>2. a \in Seq(S) /\ Len(a) = n - (k + 1) /\ \A i \in 1 .. Len(a) : a[i] = s[(k + 1) + 1 + i - 1]
  <2>1. (k + 1) + 1 \in Nat \ {0} /\ n \in Int /\ n <= Len(s)
    BY <1>1
  <2>2. /\ a \in Seq(S) /\ Len(a) = IF (k + 1) + 1 <= n + 1 THEN n + 1 - ((k + 1) + 1) ELSE 0
        /\ \A i \in 1 .. Len(a) : a[i] = s[(k + 1) + 1 + i - 1]
    BY <2>1, PartIs DEF RestOf
  <2> HIDE DEF a
  <2> QED
    <3>1. (k + 1) + 1 <= n + 1 /\ n + 1 - ((k + 1) + 1) = n - (k + 1)
      BY <1>1
    <3> HIDE DEF n
    <3> QED
      BY <2>2, <3>1
<1>3. c \in Seq(S) /\ Len(c) = n - k /\ \A i \in 1 .. Len(c) : c[i] = s[k + 1 + i - 1]
  <2>1. k + 1 \in Nat \ {0} /\ n \in Int /\ n <= Len(s)
    BY <1>1
  <2>2. /\ c \in Seq(S) /\ Len(c) = IF k + 1 <= n + 1 THEN n + 1 - (k + 1) ELSE 0
        /\ \A i \in 1 .. Len(c) : c[i] = s[k + 1 + i - 1]
    BY <2>1, PartIs DEF RestOf
  <2> HIDE DEF c
  <2> QED
    BY <1>1, <2>2
<1>4. one \in Seq(S) /\ Len(one) = 1 /\ one[1] = s[k + 1]
  BY <1>1
<1> HIDE DEF a, c, one
<1>5. d \in Seq(S) /\ Len(d) = 1 + Len(a) /\ d[1] = s[k + 1] /\ \A i \in 1 .. Len(a) : d[1 + i] = a[i]
  <2>1. d \in Seq(S) /\ Len(d) = Len(one) + Len(a) /\ Holds(d, 0, one) /\ Holds(d, Len(one), a)
    BY <1>2, <1>4, ConcatHolds
  <2> HIDE DEF d
  <2>2. d[0 + 1] = one[1] /\ \A i \in 1 .. Len(a) : d[1 + i] = a[i]
    BY <1>4, <2>1 DEF Holds
  <2> QED
    BY <1>4, <2>1, <2>2
<1> HIDE DEF d, n
<1>6. ASSUME NEW j \in 1 .. Len(c) PROVE d[j] = c[j]
  <2>1. CASE j = 1
    <3>1. k + 1 + 1 - 1 = k + 1
      OBVIOUS
    <3> QED
      BY <1>3, <1>5, <2>1, <3>1
  <2>2. CASE j # 1
    <3> DEFINE i == j - 1
    <3>1. i \in 1 .. Len(a) /\ j = 1 + i /\ (k + 1) + 1 + i - 1 = k + 1 + j - 1
      BY <1>1, <1>2, <1>3, <2>2
    <3> HIDE DEF i
    <3> QED
      BY <1>2, <1>3, <1>5, <3>1
  <2> QED
    BY <2>1, <2>2
<1>7. Len(d) = Len(c)
  BY <1>1, <1>2, <1>3, <1>5
<1>8. d = c
  BY <1>3, <1>5, <1>6, <1>7, SeqEqual
<1>9. RestOf(s, Len(s)) = << >>
  BY DEF RestOf
<1>10. RestOf(s, 0) = s
  BY DEF RestOf
<1> QED
  BY <1>8, <1>9, <1>10 DEF d, one, a, c

LEMMA LoadAtEnd ==
  ASSUME NEW f \in Text, NEW g, Loads(g, f)
  PROVE  g[Len(f)] = << >>
<1>1. Len(f) \in 0 .. Len(f)
  BY DEF Text
<1>2. AtEnd(Opened(f, Len(f)))
  BY <1>1, OpenedIs
<1> QED
  BY <1>1, <1>2 DEF Loads, LoadStep

\* From the beginning of a record on, it and all behind it are found.
LEMMA RestRead ==
  ASSUME NEW f \in Text, NEW g, Loads(g, f), NEW size \in Nat, NEW behind \in Seq(Records), NEW start,
         BehindAt(f, size, behind, start), NEW k \in 0 .. Len(behind)
  PROVE  g[start[k]] = RestOf(behind, k)
<1> DEFINE K == Len(behind)
           T == {n \in Nat : n <= K => g[start[K - n]] = RestOf(behind, K - n)}
<1>1. K \in Nat /\ start[K] = Len(f) /\ Len(f) \in Nat
  BY DEF BehindAt, Text
<1>2. 0 \in T
  <2>1. K - 0 = K /\ RestOf(behind, K) = << >>
    BY <1>1 DEF RestOf
  <2>2. g[Len(f)] = << >>
    BY LoadAtEnd
  <2> QED
    BY <1>1, <2>1, <2>2
<1>3. ASSUME NEW n \in Nat, n \in T PROVE n + 1 \in T
  <2>1. SUFFICES ASSUME n + 1 <= K PROVE g[start[K - (n + 1)]] = RestOf(behind, K - (n + 1))
    OBVIOUS
  <2> DEFINE i == K - (n + 1)
  <2>2. i \in Nat /\ i < K /\ i + 1 \in 1 .. K /\ i \in 0 .. K /\ (i + 1) - 1 = i /\ i + 1 = K - n /\ n <= K
    BY <1>1, <2>1
  <2> HIDE DEF i
  <2> DEFINE b == behind[i + 1]  here == start[i]  next == start[i + 1]
  <2>3. b \in Records /\ next = here + Len(RecordBytes(b)) /\ Holds(f, here, RecordBytes(b)) /\ here \in Nat
    <3>1. start \in [0 .. K -> Nat]
      BY DEF BehindAt
    <3>2. start[i + 1] = start[(i + 1) - 1] + Len(RecordBytes(behind[i + 1]))
          /\ Holds(f, start[(i + 1) - 1], RecordBytes(behind[i + 1]))
      BY <2>2 DEF BehindAt
    <3> QED
      BY <2>2, <3>1, <3>2
  <2>4. g[next] = RestOf(behind, i + 1)
    BY <1>3, <2>2
  <2> HIDE DEF b, here, next
  <2>5. /\ next \in Nat /\ next > here /\ next <= Len(f)
        /\ LoadStep(g, f, here) = <<b>> \o IF next < Len(f) THEN g[next] ELSE << >>
    <3>1. LET q == here + Len(RecordBytes(b)) IN
          /\ RecordBytes(b) \in Text /\ q \in Nat /\ q > here /\ q <= Len(f)
          /\ LoadStep(g, f, here) = <<b>> \o IF q < Len(f) THEN g[q] ELSE << >>
      BY <2>3, RecordRead
    <3> QED
      BY <2>3, <3>1
  <2>6. g[here] = LoadStep(g, f, here)
    <3>1. here \in 0 .. Len(f)
      BY <1>1, <2>3, <2>5
    <3> QED
      BY <3>1 DEF Loads
  <2>7. (IF next < Len(f) THEN g[next] ELSE << >>) = RestOf(behind, i + 1)
    <3>1. CASE next < Len(f)
      BY <2>4, <3>1
    <3>2. CASE ~(next < Len(f))
      <4>1. next = Len(f)
        BY <1>1, <2>5, <3>2
      <4> QED
        BY <2>4, <3>2, <4>1, LoadAtEnd
    <3> QED
      BY <3>1, <3>2
  <2>8. <<b>> \o RestOf(behind, i + 1) = RestOf(behind, i)
    BY <2>2, RestCons DEF b
  <2> QED
    BY <2>5, <2>6, <2>7, <2>8 DEF here, i
<1> HIDE DEF T
<1>4. K - k \in Nat /\ K - k <= K /\ K - (K - k) = k
  BY <1>1
<1>5. K - k \in T
  BY <1>2, <1>3, <1>4, SetInduction
<1> QED
  BY <1>4, <1>5 DEF T

\* From a place inside of a record on, without stars in its strings, those
\* behind it are found.
LEMMA RestInside ==
  ASSUME NEW f \in Text, NEW g, Loads(g, f), NEW size \in Nat, NEW behind \in Seq(Records), NEW start,
         BehindAt(f, size, behind, start), NoStars(behind),
         NEW k \in 1 .. Len(behind), NEW q \in Nat, start[k - 1] < q, q <= start[k]
  PROVE  g[q] = RestOf(behind, k)
<1> DEFINE K    == Len(behind)
           full == RecordBytes(behind[k])
           L    == Len(full)
           from == start[k - 1]
           to   == start[k]
           rest == RestOf(behind, k)
<1>1. /\ K \in Nat /\ k \in 0 .. K /\ k - 1 \in 0 .. K /\ Len(f) \in Nat
      /\ from \in Nat /\ to \in Nat /\ to = from + L /\ Holds(f, from, full)
  <2>1. start \in [0 .. K -> Nat] /\ K \in Nat /\ Len(f) \in Nat
    BY DEF BehindAt, Text
  <2>2. k \in 0 .. K /\ k - 1 \in 0 .. K
    BY <2>1
  <2>3. to = from + L /\ Holds(f, from, full)
    BY DEF BehindAt
  <2> QED
    BY <2>1, <2>2, <2>3
<1>2. g[to] = rest
  BY <1>1, RestRead
<1>3. behind[k] \in Records /\ \A i \in 1 .. Len(behind[k]) : Star \notin Range(behind[k][i])
  <2>1. behind[k] \in Records /\ k \in DOMAIN behind
    OBVIOUS
  <2>2. \A i \in DOMAIN behind[k] : Star \notin Range(behind[k][i])
    BY <2>1 DEF NoStars
  <2>3. DOMAIN behind[k] = 1 .. Len(behind[k])
    BY <2>1 DEF Records
  <2> QED
    BY <2>1, <2>2, <2>3
<1>4. L \in Nat /\ L >= 10 /\ full[L] = LF /\ \A j \in 2 .. L : full[j] # Star
  BY <1>3, StarFirst
<1> HIDE DEF full, L, K, from, to, rest
<1>5. to <= Len(f) /\ \A j \in 1 .. L : f[from + j] = full[j]
  BY <1>1 DEF Holds, L
<1>6. ASSUME NEW p \in Nat, from < p, p < to
      PROVE  \E next \in p + 1 .. to : g[p] = g[next]
  <2>1. p \in 0 .. Len(f) /\ p < Len(f)
    BY <1>1, <1>5, <1>6
  <2> DEFINE op == Opened(f, p)
             e  == EndOfLine(op)
             l  == Line(op)
  <2>2. op \in Files(f) /\ op.at = p /\ op.good /\ ~AtEnd(op)
    <3>1. ~(p = Len(f))
      BY <1>1, <2>1
    <3> QED
      BY <2>1, <3>1, OpenedIs
  <2> HIDE DEF op
  <2>3. /\ e \in p .. Len(f) /\ \A j \in p .. e - 1 : f[j + 1] # LF
    BY <2>2, LineEndIs
  <2>4. /\ Len(l) = IF e > p /\ f[e] = CR THEN e - p - 1 ELSE e - p
        /\ \A j \in 1 .. Len(l) : l[j] = f[p + j]
        /\ PastLine(op) = [bytes |-> f, at |-> e + 1, good |-> e < Len(f)]
        /\ PastLine(op) \in Files(f)
    BY <2>2, LineIs
  <2> HIDE DEF e, l
  <2>5. e + 1 <= to
    <3>1. SUFFICES ASSUME e + 1 > to PROVE FALSE
      BY <1>1, <2>3
    <3> DEFINE j == to - 1
    <3>2. j \in p .. e - 1 /\ j + 1 = from + L /\ L \in 1 .. L
      BY <1>1, <1>4, <1>6, <2>3, <3>1
    <3> HIDE DEF j
    <3>3. f[j + 1] = LF
      BY <1>4, <1>5, <3>2
    <3> QED
      BY <2>3, <3>2, <3>3
  <2>6. At(l, 0) # Star
    <3>1. CASE Len(l) >= 1
      <4>1. At(l, 0) = l[1] /\ l[1] = f[p + 1]
        BY <2>3, <2>4, <3>1 DEF At
      <4> DEFINE i == p + 1 - from
      <4>2. i \in 2 .. L /\ i \in 1 .. L /\ from + i = p + 1
        BY <1>1, <1>4, <1>6
      <4> HIDE DEF i
      <4>3. f[from + i] # Star
        BY <1>4, <1>5, <4>2
      <4> QED
        BY <4>1, <4>2, <4>3
    <3>2. CASE ~(Len(l) >= 1)
      <4>1. At(l, 0) = Nothing
        BY <2>3, <2>4, <3>2 DEF At
      <4> QED
        BY <4>1, MarksAre
    <3> QED
      BY <3>1, <3>2
  <2>7. NoHeader(f, p)
    BY <2>6 DEF NoHeader, CountAt, op, l
  <2>8. g[p] = g[Place(PastLine(op))]
    <3>1. g[p] = LoadStep(g, f, p)
      BY <2>1 DEF Loads
    <3> QED
      BY <2>2, <2>7, <3>1 DEF LoadStep, op
  <2>9. Place(PastLine(op)) = e + 1
    <3>1. e < Len(f) /\ (e < Len(f)) = TRUE
      BY <1>1, <1>5, <2>3, <2>5
    <3> DEFINE file == PastLine(op)
    <3>2. file.bytes = f /\ file.at = e + 1 /\ file.good = TRUE
      <4>1. file = [bytes |-> f, at |-> e + 1, good |-> TRUE]
        BY <2>4, <3>1
      <4> HIDE DEF file
      <4> QED
        BY <4>1
    <3> HIDE DEF file
    <3>3. CASE e + 1 = Len(f)
      <4>1. AtEnd(file)
        BY <1>1, <3>2, <3>3 DEF AtEnd
      <4>2. Place(file) = Len(f)
        BY <3>2, <4>1 DEF Place
      <4> QED
        BY <3>3, <4>2 DEF file
    <3>4. CASE e + 1 < Len(f)
      <4>1. ~AtEnd(file)
        BY <1>1, <2>3, <3>2, <3>4 DEF AtEnd
      <4> QED
        BY <3>2, <4>1 DEF Place, file
    <3> QED
      BY <1>1, <2>3, <3>1, <3>3, <3>4
  <2>10. e + 1 \in p + 1 .. to
    BY <1>1, <2>3, <2>5
  <2> QED
    BY <2>8, <2>9, <2>10
<1> DEFINE T == {d \in Nat : \A c \in 0 .. d : from < to - c => g[to - c] = rest}
<1>7. 0 \in T
  <2>1. \A c \in 0 .. 0 : to - c = to
    BY <1>1
  <2> QED
    BY <1>2, <2>1
<1>8. ASSUME NEW d \in Nat, d \in T PROVE d + 1 \in T
  <2>1. SUFFICES ASSUME NEW c \in 0 .. d + 1, from < to - c PROVE g[to - c] = rest
    OBVIOUS
  <2>2. CASE c \in 0 .. d
    BY <1>8, <2>1, <2>2
  <2>3. CASE c = d + 1
    <3> DEFINE p == to - c
    <3>1. p \in Nat /\ from < p /\ p < to
      BY <1>1, <2>1, <2>3
    <3> HIDE DEF p
    <3>2. PICK next \in p + 1 .. to : g[p] = g[next]
      BY <1>6, <3>1
    <3> DEFINE x == to - next
    <3>3. x \in 0 .. d /\ to - x = next /\ from < to - x
      <4>1. p = to - (d + 1)
        BY <2>3 DEF p
      <4>2. next \in Int /\ p + 1 <= next /\ next <= to /\ to \in Int /\ from \in Int /\ p \in Int
        BY <1>1, <3>1, <3>2
      <4>3. 0 <= to - next /\ to - next <= d /\ to - next \in Int /\ from < next
        BY <3>1, <4>1, <4>2
      <4> QED
        BY <4>2, <4>3
    <3> HIDE DEF x
    <3>4. g[to - x] = rest
      BY <1>8, <3>3
    <3> QED
      BY <3>2, <3>3, <3>4 DEF p
  <2>4. c \in 0 .. d \/ c = d + 1
    BY <2>1
  <2> QED
    BY <2>2, <2>3, <2>4
<1> HIDE DEF T
<1> DEFINE d == to - q
<1>9. d \in Nat /\ d \in 0 .. d /\ to - d = q /\ from < to - d
  BY <1>1 DEF from, to
<1> HIDE DEF d
<1>10. d \in T
  BY <1>7, <1>8, <1>9, SetInduction
<1>11. g[to - d] = rest
  BY <1>9, <1>10 DEF T
<1> QED
  BY <1>9, <1>11 DEF rest

\* From whatever place behind the cut on, the last of the records are found.
LEMMA RestFrom ==
  ASSUME NEW f \in Text, NEW g, Loads(g, f), NEW size \in Nat, NEW behind \in Seq(Records), behind # << >>,
         NEW start, BehindAt(f, size, behind, start), NoStars(behind), NEW q \in size + 1 .. Len(f)
  PROVE  \E k \in 1 .. Len(behind) : g[q] = RestOf(behind, k) /\ (q <= start[1] => k = 1)
<1> DEFINE K == Len(behind)
<1>1. /\ K \in Nat /\ start \in [0 .. K -> Nat] /\ start[0] = size /\ start[K] = Len(f)
      /\ q \in Nat /\ size < q /\ q <= Len(f)
  BY DEF BehindAt, Text
<1>2. 1 \in 1 .. K
  <2>1. SUFFICES ASSUME K = 0 PROVE FALSE
    BY <1>1
  <2>2. behind = << >>
    BY <2>1
  <2> QED
    BY <2>2
<1> HIDE DEF K
<1>3. CASE q <= start[1]
  <2>1. g[q] = RestOf(behind, 1)
    <3>1. start[1 - 1] < q /\ 1 \in 1 .. Len(behind)
      BY <1>1, <1>2 DEF K
    <3> QED
      BY <1>1, <1>3, <3>1, RestInside
  <2> QED
    BY <1>2, <2>1 DEF K
<1>4. CASE ~(q <= start[1])
  <2>1. PICK k \in 1 .. K : start[k - 1] < q /\ q <= start[k]
    BY <1>1, Located
  <2>2. g[q] = RestOf(behind, k)
    BY <1>1, <2>1, RestInside DEF K
  <2> QED
    BY <1>4, <2>1, <2>2 DEF K
<1> QED
  BY <1>3, <1>4

-----------------------------------------------------------------------------
(* A log that was cut                                                      *)

\* What stands behind the cut: nothing, or a record.
AfterCut(f, size) ==
  \/ Len(f) = size
  \/ /\ size + 10 <= Len(f) /\ f[size + 1] = Star /\ f[size + 2] \in NumberSymbols
     /\ f[size + 3] = CR /\ f[size + 4] = LF /\ f[size + 5] = Dollar /\ f[size + 6] \in NumberSymbols
     /\ f[size + 7] = CR /\ f[size + 8] = LF

\* The log with a record of which size bytes were written.
LogOf(r, size, behind) ==
  SubSeq(RecordBytes(r), 1, size) \o FlattenSeq([n \in DOMAIN behind |-> RecordBytes(behind[n])])

LEMMA LogIs ==
  ASSUME NEW r \in Records, NEW size \in 1 .. Len(RecordBytes(r)), NEW behind \in Seq(Records)
  PROVE  LET f == LogOf(r, size, behind) IN
         /\ f \in Text /\ Begins(f, 0, RecordBytes(r), size) /\ size \in Nat /\ size <= Len(f)
         /\ \E start : BehindAt(f, size, behind, start)
         /\ AfterCut(f, size)
         /\ Len(f) = size <=> behind = << >>
<1> DEFINE full  == RecordBytes(r)
           front == SubSeq(full, 1, size)
           bytes == [n \in DOMAIN behind |-> RecordBytes(behind[n])]
           back  == FlattenSeq(bytes)
           f     == LogOf(r, size, behind)
           K     == Len(behind)
<1>1. full \in Text /\ Len(full) \in Nat /\ size \in 0 .. Len(full) /\ size \in Nat
  BY StarFirst
<1> HIDE DEF full
<1>2. front \in Text /\ Len(front) = size /\ \A i \in 1 .. size : front[i] = full[i]
  BY <1>1, FirstPart
<1>3. K \in Nat /\ \A k \in 1 .. K : behind[k] \in Records /\ RecordBytes(behind[k]) \in Text
  BY StarFirst
<1>4. bytes \in Seq(Seq(Symbols)) /\ Len(bytes) = K /\ \A k \in 1 .. K : bytes[k] = RecordBytes(behind[k])
  <2>1. DOMAIN behind = 1 .. K
    OBVIOUS
  <2>2. bytes \in [1 .. K -> Seq(Symbols)] /\ \A k \in 1 .. K : bytes[k] = RecordBytes(behind[k])
    BY <1>3, <2>1 DEF Text
  <2> HIDE DEF bytes, K
  <2> QED
    BY <1>3, <2>2
<1> HIDE DEF front, bytes
<1>5. PICK o \in [0 .. Len(bytes) -> Nat] :
        /\ o[0] = 0
        /\ \A k \in 1 .. Len(bytes) : o[k] = o[k - 1] + Len(bytes[k])
        /\ Len(back) = o[Len(bytes)]
        /\ \A k \in 1 .. Len(bytes) : Holds(back, o[k - 1], bytes[k])
  BY <1>4, FlattenIs
<1>6. back \in Seq(Symbols)
  BY <1>4, FlattenIs
<1>7. f = front \o back
  BY DEF LogOf, front, full, bytes
<1> HIDE DEF back, f, K
<1>8. /\ f \in Seq(Symbols) /\ Len(f) = size + Len(back) /\ Len(back) \in Nat /\ Len(f) \in Nat
      /\ Holds(f, 0, front) /\ Holds(f, size, back)
  <2>1. /\ front \o back \in Seq(Symbols) /\ Len(front \o back) = Len(front) + Len(back)
        /\ Holds(front \o back, 0, front) /\ Holds(front \o back, Len(front), back)
    BY <1>2, <1>6, ConcatHolds DEF Text
  <2>2. Len(back) \in Nat /\ Len(f) \in Nat
    <3>1. f \in Seq(Symbols)
      BY <1>7, <2>1
    <3> QED
      BY <1>6, <3>1
  <2> QED
    BY <1>2, <1>7, <2>1, <2>2
<1>9. f \in Text /\ Begins(f, 0, full, size) /\ size <= Len(f)
  <2>1. \A j \in 1 .. size : f[0 + j] = full[j]
    BY <1>2, <1>8 DEF Holds
  <2> QED
    BY <1>1, <1>8, <2>1 DEF Text, Begins
<1> DEFINE start == [k \in 0 .. K |-> size + o[k]]
<1>10. /\ start \in [0 .. K -> Nat] /\ start[0] = size /\ start[K] = Len(f)
       /\ \A k \in 0 .. K : start[k] = size + o[k] /\ o[k] \in Nat
  <2>1. 0 \in 0 .. K /\ K \in 0 .. K /\ Len(bytes) = K
    BY <1>3, <1>4
  <2>2. \A k \in 0 .. K : o[k] \in Nat
    BY <1>5, <2>1
  <2>3. \A k \in 0 .. K : start[k] = size + o[k] /\ size + o[k] \in Nat
    BY <1>1, <2>2
  <2>4. start \in [0 .. K -> Nat]
    BY <2>3
  <2> HIDE DEF start
  <2>5. start[0] = size + 0 /\ start[K] = size + Len(back)
    BY <1>5, <2>1, <2>3
  <2> QED
    BY <1>1, <1>8, <2>2, <2>3, <2>4, <2>5
<1> HIDE DEF start
<1>11. ASSUME NEW k \in 1 .. K
       PROVE  start[k] = start[k - 1] + Len(RecordBytes(behind[k])) /\ Holds(f, start[k - 1], RecordBytes(behind[k]))
  <2>1. k - 1 \in 0 .. K /\ k \in 0 .. K /\ Len(bytes) = K
    BY <1>3, <1>4
  <2> DEFINE x == o[k]  y == o[k - 1]  z == Len(bytes[k])
  <2>2. x = y + z /\ x \in Nat /\ y \in Nat /\ Holds(back, y, bytes[k]) /\ bytes[k] = RecordBytes(behind[k])
    BY <1>4, <1>5, <2>1
  <2>3. start[k] = size + x /\ start[k - 1] = size + y
    BY <1>10, <2>1
  <2>4. bytes[k] \in Seq(Symbols) /\ z \in Nat
    <3>1. bytes[k] \in Seq(Symbols)
      BY <1>3, <2>2 DEF Text
    <3> QED
      BY <3>1
  <2>5. Holds(f, size + y, bytes[k])
    BY <1>1, <1>8, <2>2, <2>4, HoldsWithin
  <2> HIDE DEF x, y, z
  <2>6. size + x = (size + y) + z
    BY <1>1, <2>2, <2>4
  <2> QED
    BY <2>2, <2>3, <2>5, <2>6 DEF z
<1>12. BehindAt(f, size, behind, start)
  BY <1>10, <1>11 DEF BehindAt, K
<1>13. CASE behind = << >>
  <2>1. K = 0
    BY <1>13 DEF K
  <2>2. Len(f) = size
    BY <1>10, <2>1
  <2> QED
    BY <1>1, <1>9, <1>12, <1>13, <2>2 DEF AfterCut, f, full
<1>14. CASE behind # << >>
  <2>1. 1 \in 1 .. K /\ 1 - 1 = 0
    <3>1. SUFFICES ASSUME K = 0 PROVE FALSE
      BY <1>3
    <3>2. behind = << >>
      BY <3>1 DEF K
    <3> QED
      BY <1>14, <3>2
  <2> DEFINE b == RecordBytes(behind[1])
  <2>2. Holds(f, size, b) /\ behind[1] \in Records
    BY <1>3, <1>10, <1>11, <2>1
  <2>3. /\ Len(b) \in Nat /\ Len(b) >= 10 /\ b[1] = Star /\ b[2] = Len(behind[1]) /\ b[3] = CR /\ b[4] = LF
        /\ b[5] = Dollar /\ b[6] \in NumberSymbols /\ b[7] = CR /\ b[8] = LF
    BY <2>2, StarFirst
  <2>4. b[2] \in NumberSymbols
    BY <2>2, <2>3 DEF Records
  <2> HIDE DEF b
  <2>5. size + Len(b) <= Len(f) /\ \A j \in 1 .. Len(b) : f[size + j] = b[j]
    BY <2>2 DEF Holds
  <2>6. /\ 1 \in 1 .. Len(b) /\ 2 \in 1 .. Len(b) /\ 3 \in 1 .. Len(b) /\ 4 \in 1 .. Len(b)
        /\ 5 \in 1 .. Len(b) /\ 6 \in 1 .. Len(b) /\ 7 \in 1 .. Len(b) /\ 8 \in 1 .. Len(b)
    <3>1. Len(b) \in Nat /\ Len(b) >= 10
      BY <2>3
    <3> QED
      BY ONLY <3>1
  <2>7. /\ f[size + 1] = Star /\ f[size + 2] \in NumberSymbols /\ f[size + 3] = CR /\ f[size + 4] = LF
    BY <2>3, <2>4, <2>5, <2>6
  <2>8. /\ f[size + 5] = Dollar /\ f[size + 6] \in NumberSymbols /\ f[size + 7] = CR /\ f[size + 8] = LF
    BY <2>3, <2>5, <2>6
  <2>9. size + 10 <= Len(f) /\ Len(f) # size
    <3> DEFINE x == Len(f)  y == Len(b)
    <3>1. x \in Nat /\ y \in Nat /\ y >= 10 /\ size + y <= x
      BY <1>8, <2>3, <2>5
    <3> HIDE DEF x, y
    <3>2. size + 10 <= x /\ x # size
      BY <1>1, <3>1
    <3> QED
      BY <3>2 DEF x
  <2>10. AfterCut(f, size)
    BY <2>7, <2>8, <2>9 DEF AfterCut
  <2> QED
    BY <1>1, <1>9, <1>12, <1>14, <2>9, <2>10 DEF f, full
<1> QED
  BY <1>13, <1>14

\* The number behind the mark of a line, when the line has one.
LEMMA NumberBehind ==
  ASSUME NEW l \in Text
  PROVE  /\ Len(l) = 1 => NumberIn(Tail(l)) = Nothing
         /\ Len(l) >= 2 /\ l[2] \notin Spaces =>
              NumberIn(Tail(l)) = IF l[2] \in NumberSymbols THEN l[2] ELSE Nothing
<1> DEFINE t == Tail(l)
<1>1. ASSUME Len(l) >= 1
      PROVE  t \in Text /\ Len(t) = Len(l) - 1 /\ \A i \in 1 .. Len(t) : t[i] = l[i + 1]
  <2>1. l # << >>
    <3> SUFFICES ASSUME l = << >> PROVE FALSE
      OBVIOUS
    <3>1. Len(l) = Len(<< >>) /\ Len(<< >>) = 0
      OBVIOUS
    <3> QED
      BY <1>1, <3>1
  <2>2. l \in Seq(Symbols)
    BY DEF Text
  <2>3. t \in Seq(Symbols) /\ Len(t) = Len(l) - 1 /\ \A i \in 1 .. Len(t) : t[i] = l[i + 1]
    BY <2>1, <2>2, HeadTailProperties
  <2> QED
    BY <2>3 DEF Text
<1> HIDE DEF t
<1>2. ASSUME Len(l) = 1 PROVE NumberIn(t) = Nothing
  <2>1. t \in Seq(Symbols) /\ Len(t) = 0
    BY <1>1, <1>2 DEF Text
  <2>2. t = << >>
    BY <2>1
  <2>3. TrimmedLeft(<< >>) = << >>
    BY DEF TrimmedLeft
  <2> QED
    BY <2>2, <2>3 DEF NumberIn
<1>3. ASSUME Len(l) >= 2, l[2] \notin Spaces
      PROVE  NumberIn(t) = IF l[2] \in NumberSymbols THEN l[2] ELSE Nothing
  <2>1. t \in Text /\ Len(t) >= 1 /\ t[1] = l[2]
    <3>1. Len(l) \in Nat /\ t \in Text /\ Len(t) = Len(l) - 1 /\ \A i \in 1 .. Len(t) : t[i] = l[i + 1]
      BY <1>1, <1>3 DEF Text
    <3>2. 1 \in 1 .. Len(t) /\ 1 + 1 = 2 /\ Len(t) >= 1
      BY <1>3, <3>1
    <3>3. t[1] = l[1 + 1]
      BY <3>1, <3>2
    <3> QED
      BY <3>1, <3>2, <3>3
  <2>2. TrimmedLeft(t) = t
    BY <1>3, <2>1, NothingToTrim
  <2>3. t # << >>
    <3> SUFFICES ASSUME t = << >> PROVE FALSE
      OBVIOUS
    <3>1. Len(t) = Len(<< >>) /\ Len(<< >>) = 0
      OBVIOUS
    <3> QED
      BY <2>1, <3>1
  <2> QED
    BY <2>1, <2>2, <2>3 DEF NumberIn
<1> QED
  BY <1>2, <1>3 DEF t

\* A line that was cut goes on with the header behind the cut, if there is
\* one: what is missing of its mark or number is not found.
LEMMA CutLine ==
  ASSUME NEW f \in Text, NEW p \in Nat, NEW size \in p .. p + 3, size <= Len(f), AfterCut(f, size),
         NEW mark \in {Star, Dollar}, NEW n \in NumberSymbols,
         size >= p + 1 => f[p + 1] = mark, size >= p + 2 => f[p + 2] = n, size >= p + 3 => f[p + 3] = CR,
         NEW file \in Files(f), file.at = p, file.good, ~AtEnd(file)
  PROVE  /\ PastLine(file) = [bytes |-> f, at |-> IF Len(f) = size THEN size + 1 ELSE size + 4, good |-> Len(f) # size]
         /\ size = p => At(Line(file), 0) = Star
         /\ size >= p + 1 => At(Line(file), 0) = mark
         /\ size = p + 1 => NumberIn(Tail(Line(file))) = Nothing
         /\ size >= p + 2 => NumberIn(Tail(Line(file))) = n
<1> DEFINE l == Line(file)
           e == EndOfLine(file)
<1>1. Len(f) \in Nat /\ size \in Nat
  BY DEF Text
<1>2. /\ mark # LF /\ n # LF /\ CR # LF /\ Star # LF /\ n \notin Spaces /\ Star \notin Spaces /\ Star \notin NumberSymbols
      /\ mark # CR /\ n # CR /\ Star # CR
      /\ \A x \in NumberSymbols : x # LF /\ x # CR
  BY MarksAre DEF Spaces
<1>3. /\ e \in p .. Len(f) /\ \A j \in p .. e - 1 : f[j + 1] # LF
      /\ e < Len(f) => f[e + 1] = LF
  BY LineEndIs
<1>4. /\ l \in Text
      /\ Len(l) = IF e > p /\ f[e] = CR THEN e - p - 1 ELSE e - p
      /\ \A j \in 1 .. Len(l) : l[j] = f[p + j]
      /\ PastLine(file) = [bytes |-> f, at |-> e + 1, good |-> e < Len(f)]
  BY LineIs
<1>5. /\ Len(l) = 1 => NumberIn(Tail(l)) = Nothing
      /\ Len(l) >= 2 /\ l[2] \notin Spaces =>
           NumberIn(Tail(l)) = IF l[2] \in NumberSymbols THEN l[2] ELSE Nothing
  BY <1>4, NumberBehind
<1>6. Len(l) >= 1 => At(l, 0) = l[1]
  BY <1>4 DEF At, Text
<1>7. \A j \in p .. size - 1 : f[j + 1] # LF
  <2>1. ASSUME NEW j \in p .. size - 1 PROVE f[j + 1] # LF
    <3>1. \/ j + 1 = p + 1 /\ size >= p + 1
          \/ j + 1 = p + 2 /\ size >= p + 2
          \/ j + 1 = p + 3 /\ size >= p + 3
      BY <2>1
    <3> QED
      BY <1>2, <3>1
  <2> QED
    BY <2>1
<1> DEFINE Past  == [bytes |-> f, at |-> IF Len(f) = size THEN size + 1 ELSE size + 4, good |-> Len(f) # size]
           First == Len(l) >= 1 /\ l[1] = IF size = p THEN Star ELSE mark
           Other == /\ size = p + 1 => Len(l) = 1 \/ (Len(l) >= 2 /\ l[2] = Star)
                    /\ size >= p + 2 => Len(l) >= 2 /\ l[2] = n
<1>8. ASSUME Len(f) = size PROVE PastLine(file) = Past /\ First /\ Other
  <2>1. e = size
    <3>1. SUFFICES ASSUME e < size PROVE FALSE
      BY <1>1, <1>3, <1>8
    <3>2. f[e + 1] = LF /\ e \in p .. size - 1
      BY <1>3, <1>8, <3>1
    <3> QED
      BY <1>7, <3>2
  <2>2. size # p
    <3>1. file.bytes = f /\ file.at < Len(file.bytes)
      BY DEF AtEnd, Files
    <3> QED
      BY <1>1, <1>8, <3>1
  <2>3. PastLine(file) = Past
    <3>1. (e < Len(f)) = FALSE /\ (Len(f) # size) = FALSE /\ (IF Len(f) = size THEN size + 1 ELSE size + 4) = e + 1
      BY <1>1, <1>8, <2>1
    <3> HIDE DEF e
    <3> QED
      BY <1>4, <3>1
  <2> HIDE DEF l, e, Past
  <2>4. CASE size = p + 1
    <3>1. f[e] = mark
      BY <2>1, <2>4
    <3>2. Len(l) = 1
      <4>1. e = p + 1
        BY <2>1, <2>4
      <4> QED
        BY <1>2, <1>4, <3>1, <4>1
    <3>3. l[1] = mark
      <4>1. 1 \in 1 .. Len(l)
        BY <3>2
      <4> QED
        BY <1>4, <2>4, <4>1
    <3> QED
      BY <2>3, <2>4, <3>2, <3>3
  <2>5. CASE size >= p + 2
    <3>1. Len(l) = 2
      <4>1. CASE size = p + 2
        <5>1. e = p + 2 /\ f[e] = n
          BY <2>1, <4>1
        <5> QED
          BY <1>2, <1>4, <5>1
      <4>2. CASE size = p + 3
        <5>1. e = p + 3 /\ f[e] = CR
          BY <2>1, <4>2
        <5> QED
          BY <1>4, <5>1
      <4> QED
        BY <2>5, <4>1, <4>2
    <3>2. l[1] = mark /\ l[2] = n
      <4>1. 1 \in 1 .. Len(l) /\ 2 \in 1 .. Len(l) /\ size >= p + 1
        BY <2>5, <3>1
      <4> QED
        BY <1>4, <2>5, <4>1
    <3> QED
      BY <2>3, <2>5, <3>1, <3>2
  <2>6. size = p + 1 \/ size >= p + 2
    BY <2>2
  <2> QED
    BY <2>4, <2>5, <2>6
<1>9. ASSUME Len(f) # size PROVE PastLine(file) = Past /\ First /\ Other
  <2>1. /\ size + 10 <= Len(f) /\ f[size + 1] = Star /\ f[size + 2] \in NumberSymbols
        /\ f[size + 3] = CR /\ f[size + 4] = LF
    BY <1>9 DEF AfterCut
  <2> DEFINE q == size + 3
  <2>2. q \in p .. Len(f) - 1 /\ f[q + 1] = LF
    <3>1. q + 1 = size + 4
      BY <1>1
    <3>2. q \in p .. Len(f) - 1
      BY <1>1, <2>1
    <3> QED
      BY <2>1, <3>1, <3>2
  <2>3. \A j \in p .. q - 1 : f[j + 1] # LF
    <3>1. ASSUME NEW j \in p .. q - 1 PROVE f[j + 1] # LF
      <4>1. \/ j \in p .. size - 1 \/ j + 1 = size + 1 \/ j + 1 = size + 2 \/ j + 1 = size + 3
        BY <1>1, <3>1
      <4> QED
        BY <1>2, <1>7, <2>1, <4>1
    <3> QED
      BY <3>1
  <2> HIDE DEF q
  <2>4. e = q
    BY <2>2, <2>3, LineFound
  <2> HIDE DEF e, l
  <2>5. /\ e = size + 3 /\ f[e] = CR /\ e > p /\ Len(l) = size + 2 - p
    <3>1. e = size + 3 /\ e > p
      BY <1>1, <2>4 DEF q
    <3>2. f[e] = CR
      BY <2>1, <3>1
    <3>3. Len(l) = e - p - 1
      BY <1>4, <3>1, <3>2
    <3> QED
      BY <1>1, <3>1, <3>2, <3>3
  <2>6. PastLine(file) = Past
    <3>1. (e < Len(f)) = TRUE /\ (Len(f) # size) = TRUE /\ e + 1 = IF Len(f) = size THEN size + 1 ELSE size + 4
      BY <1>1, <1>9, <2>1, <2>5
    <3> QED
      BY <1>4, <3>1
  <2>7. 1 \in 1 .. Len(l) /\ 2 \in 1 .. Len(l) /\ Len(l) >= 2 /\ l[1] = f[p + 1] /\ l[2] = f[p + 2]
    <3>1. 1 \in 1 .. Len(l) /\ 2 \in 1 .. Len(l) /\ Len(l) >= 2
      BY <1>1, <2>5
    <3> QED
      BY <1>4, <3>1
  <2> HIDE DEF Past
  <2>8. CASE size = p
    <3>1. l[1] = Star
      BY <2>1, <2>7, <2>8
    <3> QED
      BY <2>6, <2>7, <2>8, <3>1
  <2>9. CASE size = p + 1
    <3>1. l[1] = mark /\ l[2] = Star
      <4>1. f[p + 2] = f[size + 1]
        BY <2>9
      <4> QED
        BY <2>1, <2>7, <2>9, <4>1
    <3> QED
      BY <2>6, <2>7, <2>9, <3>1
  <2>10. CASE size >= p + 2
    <3>1. l[1] = mark /\ l[2] = n
      <4>1. size >= p + 1
        BY <2>10
      <4> QED
        BY <2>7, <2>10, <4>1
    <3>2. size # p /\ size # p + 1
      BY <2>10
    <3> QED
      BY <2>6, <2>7, <2>10, <3>1, <3>2
  <2>11. size = p \/ size = p + 1 \/ size >= p + 2
    OBVIOUS
  <2> QED
    BY <2>8, <2>9, <2>10, <2>11
<1>10. PastLine(file) = Past /\ First /\ Other
  BY <1>8, <1>9
<1> HIDE DEF Past, l
<1>11. At(l, 0) = IF size = p THEN Star ELSE mark
  BY <1>6, <1>10
<1>12. size = p + 1 => NumberIn(Tail(l)) = Nothing
  BY <1>2, <1>5, <1>10
<1>13. size >= p + 2 => NumberIn(Tail(l)) = n
  BY <1>2, <1>5, <1>10
<1>14. size >= p + 1 => size # p
  OBVIOUS
<1> QED
  BY <1>10, <1>11, <1>12, <1>13, <1>14 DEF l, Past

\* The token in which a record was cut: its mark or its number is missing and
\* the reader stops, or it takes as many bytes as the token has.  It leaves
\* the stream behind the cut, and not far behind it when the token is short.
CutTaken(f, size, next, scan, p, v) ==
  /\ AtEnd(next.file) \/ next.file.at > size
  /\ size < p + 2 => next.stopped # "no" /\ next.tokens = scan.tokens
  /\ size >= p + 2 => next.stopped = "no"
  /\ size >= p + Len(v) + 4 => next.tokens = Append(scan.tokens, v)
  /\ Len(f) # size /\ Len(v) <= 4 =>
       \E e \in size + 1 .. size + 10 :
         /\ next.file = [bytes |-> f, at |-> e, good |-> TRUE]
         /\ Len(v) <= 1 => e <= size + 7 /\ (size >= p + 2 => e # size + 4)

LEMMA PastToken ==
  ASSUME NEW f \in Text, NEW a \in Nat, NEW n \in Nat
  PROVE  LET body == [bytes |-> f, at |-> a, good |-> TRUE]
             last == PastBytes(PastBytes(body, n), 2)
         IN /\ a + n + 2 <= Len(f) => last = [bytes |-> f, at |-> a + n + 2, good |-> TRUE]
            /\ a + n + 2 > Len(f) => AtEnd(last)
            /\ last.at >= a
<1> DEFINE body == [bytes |-> f, at |-> a, good |-> TRUE]
           mid  == PastBytes(body, n)
           last == PastBytes(mid, 2)
<1>1. body \in Files(f) /\ body.at = a /\ body.good = TRUE /\ Len(f) \in Nat
  BY DEF Files, Text
<1> HIDE DEF body
<1>2. /\ mid \in Files(f) /\ mid.at >= a
      /\ a + n <= Len(f) => mid = [bytes |-> f, at |-> a + n, good |-> TRUE]
  BY <1>1, PastBytesIs
<1>3. a + n > Len(f) => mid.good = FALSE
  <2>1. SUFFICES ASSUME a + n > Len(f) PROVE mid.good = FALSE
    OBVIOUS
  <2>2. ~(a + n <= Len(body.bytes)) /\ body.bytes = f /\ body = [bytes |-> f, at |-> a, good |-> TRUE]
    BY <1>1, <2>1 DEF body
  <2>3. mid = [body EXCEPT !.good = FALSE]
    BY <1>1, <2>2 DEF PastBytes
  <2> HIDE DEF mid
  <2> QED
    BY <2>2, <2>3
<1> HIDE DEF mid
<1>4. /\ last \in Files(f) /\ last.at >= mid.at
      /\ last.good => mid.good
      /\ mid.good /\ mid.at + 2 <= Len(f) => last = [bytes |-> f, at |-> mid.at + 2, good |-> TRUE]
  <2>1. 2 \in Nat
    OBVIOUS
  <2> QED
    BY <1>2, <2>1, PastBytesIs
<1>5. ASSUME a + n + 2 <= Len(f) PROVE last = [bytes |-> f, at |-> a + n + 2, good |-> TRUE]
  <2>1. mid = [bytes |-> f, at |-> a + n, good |-> TRUE]
    BY <1>1, <1>2, <1>5
  <2>2. mid.good = TRUE /\ mid.at = a + n
    BY <2>1
  <2>3. mid.at + 2 <= Len(f) /\ mid.at + 2 = a + n + 2
    BY <1>5, <2>2
  <2> HIDE DEF last
  <2> QED
    BY <1>4, <2>2, <2>3
<1>6. ASSUME a + n + 2 > Len(f) PROVE AtEnd(last)
  <2>1. CASE a + n > Len(f)
    <3>1. mid.good = FALSE
      BY <1>3, <2>1
    <3>2. ~last.good
      BY <1>4, <3>1
    <3> QED
      BY <3>2 DEF AtEnd
  <2>2. CASE a + n <= Len(f)
    <3>1. mid = [bytes |-> f, at |-> a + n, good |-> TRUE]
      BY <1>2, <2>2
    <3>2. mid.bytes = f /\ ~(mid.at + 2 <= Len(f))
      BY <1>1, <1>6, <3>1
    <3>3. last = [mid EXCEPT !.good = FALSE]
      BY <3>2 DEF PastBytes
    <3> HIDE DEF last
    <3>4. last.good = FALSE
      BY <3>1, <3>3
    <3> QED
      BY <3>4 DEF AtEnd
  <2> QED
    BY <1>1, <2>1, <2>2
<1>7. last.at >= a
  <2>1. last.at \in Nat /\ mid.at \in Nat
    BY <1>2, <1>4 DEF Files
  <2> QED
    BY <1>2, <1>4, <2>1
<1> QED
  BY <1>5, <1>6, <1>7 DEF body, mid

LEMMA CutToken ==
  ASSUME NEW f \in Text, NEW full \in Text, NEW size \in Nat, Begins(f, 0, full, size), AfterCut(f, size),
         NEW p \in Nat, NEW v \in Strings, BulkAt(full, p, v), p <= size, size < p + Len(v) + 6,
         NEW scan \in LogScans(f), scan.stopped = "no", scan.file = [bytes |-> f, at |-> p, good |-> TRUE]
  PROVE  CutTaken(f, size, Token(scan), scan, p, v)
<1> DEFINE n    == Len(v)
           file == scan.file
           next == Token(scan)
           line == Line(file)
           len  == NumberIn(Tail(line))
           body == PastLine(file)
<1>1. /\ n \in NumberSymbols /\ n \in Nat /\ Len(f) \in Nat /\ size <= Len(f)
      /\ \A j \in 1 .. size : f[j] = full[j]
  <2>1. \A j \in 1 .. size : f[0 + j] = full[j]
    BY DEF Begins
  <2> QED
    BY <2>1 DEF Strings, Text, Begins
<1>2. /\ full[p + 1] = Dollar /\ full[p + 2] = n /\ full[p + 3] = CR /\ full[p + 4] = LF
      /\ \A j \in 1 .. n : full[p + 4 + j] = v[j]
  BY DEF BulkAt
<1>3. /\ size >= p + 1 => f[p + 1] = Dollar
      /\ size >= p + 2 => f[p + 2] = n
      /\ size >= p + 3 => f[p + 3] = CR
      /\ size >= p + 4 => f[p + 4] = LF
  <2>1. \A x \in {p + 1, p + 2, p + 3, p + 4} : size >= x => f[x] = full[x]
    <3>1. \A x \in {p + 1, p + 2, p + 3, p + 4} : size >= x => x \in 1 .. size
      OBVIOUS
    <3> QED
      BY <1>1, <3>1
  <2> QED
    BY <1>2, <2>1
<1>4. file \in Files(f) /\ file.at = p /\ file.good /\ file.bytes = f
  <2>1. [bytes |-> f, at |-> p, good |-> TRUE] \in Files(f)
    BY DEF Files
  <2> QED
    BY <2>1
<1>5. p <= size /\ size < p + n + 6
  OBVIOUS
<1>6. /\ AtEnd(file) => next = [tokens |-> scan.tokens, file |-> [bytes |-> f, at |-> file.at, good |-> FALSE],
                                stopped |-> "break"]
      /\ ~AtEnd(file) =>
           /\ At(line, 0) # Dollar => next = [tokens |-> scan.tokens, file |-> body, stopped |-> "break"]
           /\ At(line, 0) = Dollar /\ (len = Nothing \/ len < 0) =>
                next = [tokens |-> scan.tokens, file |-> body, stopped |-> "throw"]
           /\ At(line, 0) = Dollar /\ ~(len = Nothing \/ len < 0) =>
                next = [tokens |-> Append(scan.tokens, Bytes(body, len)),
                        file |-> PastBytes(PastBytes(body, len), 2), stopped |-> "no"]
  BY TokenCases
<1> HIDE DEF n, file, next
<1>7. ASSUME AtEnd(file) PROVE CutTaken(f, size, next, scan, p, v)
  <2>1. size = p /\ Len(f) = size
    BY <1>1, <1>4, <1>5, <1>7 DEF AtEnd
  <2>2. next.tokens = scan.tokens /\ next.stopped = "break" /\ next.file.good = FALSE
    BY <1>6, <1>7
  <2>3. AtEnd(next.file)
    BY <2>2 DEF AtEnd
  <2>4. ~(size >= p + 2) /\ ~(size >= p + n + 4)
    BY <1>1, <2>1
  <2> QED
    BY <2>1, <2>2, <2>3, <2>4 DEF CutTaken, n
<1>8. ASSUME ~AtEnd(file), size <= p + 3
      PROVE  /\ body = [bytes |-> f, at |-> IF Len(f) = size THEN size + 1 ELSE size + 4, good |-> Len(f) # size]
             /\ size = p => At(line, 0) = Star
             /\ size >= p + 1 => At(line, 0) = Dollar
             /\ size = p + 1 => len = Nothing
             /\ size >= p + 2 => len = n
  <2>1. size \in p .. p + 3 /\ Dollar \in {Star, Dollar}
    BY <1>5, <1>8
  <2>2. (size >= p + 1 => f[p + 1] = Dollar) /\ (size >= p + 2 => f[p + 2] = n) /\ (size >= p + 3 => f[p + 3] = CR)
    BY <1>3
  <2> QED
    BY <1>1, <1>4, <1>8, <2>1, <2>2, CutLine
<1>9. ASSUME ~AtEnd(file), size < p + 2 PROVE CutTaken(f, size, next, scan, p, v)
  <2>1. size <= p + 3 /\ (size = p \/ size = p + 1)
    BY <1>5, <1>9
  <2> DEFINE a == IF Len(f) = size THEN size + 1 ELSE size + 4
  <2>2. body = [bytes |-> f, at |-> a, good |-> Len(f) # size]
    BY <1>8, <1>9, <2>1
  <2>3. next.tokens = scan.tokens /\ next.file = body /\ next.stopped # "no"
    <3>1. CASE size = p
      <4>1. At(line, 0) # Dollar
        BY <1>8, <1>9, <2>1, <3>1, MarksAre
      <4> QED
        BY <1>6, <1>9, <4>1
    <3>2. CASE size = p + 1
      <4>1. At(line, 0) = Dollar /\ (len = Nothing \/ len < 0)
        <5>1. size >= p + 1
          BY <3>2
        <5> QED
          BY <1>8, <1>9, <2>1, <3>2, <5>1
      <4> QED
        BY <1>6, <1>9, <4>1
    <3> QED
      BY <2>1, <3>1, <3>2
  <2> HIDE DEF body
  <2>4. next.file.at = a
    BY <2>2, <2>3
  <2>5. a > size
    OBVIOUS
  <2>6. ~(size >= p + 2) /\ ~(size >= p + n + 4)
    BY <1>1, <1>9
  <2>7. Len(f) # size =>
          next.file = [bytes |-> f, at |-> size + 4, good |-> TRUE] /\ size + 4 \in size + 1 .. size + 10 /\ size + 4 <= size + 7
    <3>1. SUFFICES ASSUME Len(f) # size
                   PROVE  next.file = [bytes |-> f, at |-> size + 4, good |-> TRUE]
      OBVIOUS
    <3>2. (Len(f) # size) = TRUE /\ a = size + 4
      BY <3>1
    <3> HIDE DEF a
    <3> QED
      BY <2>2, <2>3, <3>2
  <2> HIDE DEF a
  <2> QED
    BY <2>3, <2>4, <2>5, <2>6, <2>7 DEF CutTaken, n
<1>10. ASSUME ~AtEnd(file), size >= p + 2, size <= p + 3 PROVE CutTaken(f, size, next, scan, p, v)
  <2> DEFINE a == IF Len(f) = size THEN size + 1 ELSE size + 4
             last == PastBytes(PastBytes(body, n), 2)
  <2>1. body = [bytes |-> f, at |-> a, good |-> Len(f) # size] /\ At(line, 0) = Dollar /\ len = n
    <3>1. size >= p + 1
      BY <1>10
    <3> QED
      BY <1>8, <1>10, <3>1
  <2>2. ~(len = Nothing \/ len < 0)
    BY <1>1, <2>1, MarksAre
  <2>3. next = [tokens |-> Append(scan.tokens, Bytes(body, n)), file |-> last, stopped |-> "no"]
    BY <1>6, <1>10, <2>1, <2>2
  <2>4. a > size /\ a \in Nat
    OBVIOUS
  <2> HIDE DEF body
  <2>5. ASSUME Len(f) = size PROVE AtEnd(last) \/ last.at > size
    <3>1. body \in Files(f) /\ body.at = a
      BY <2>1, <2>4 DEF Files
    <3> HIDE DEF a
    <3>2. PastBytes(body, n) \in Files(f) /\ PastBytes(body, n).at >= body.at
      BY <1>1, <3>1, PastBytesIs
    <3>3. last \in Files(f) /\ last.at >= PastBytes(body, n).at
      <4> DEFINE mid == PastBytes(body, n)
      <4>1. mid \in Files(f) /\ 2 \in Nat
        BY <3>2
      <4> HIDE DEF mid
      <4>2. PastBytes(mid, 2) \in Files(f) /\ PastBytes(mid, 2).at >= mid.at
        BY <4>1, PastBytesIs
      <4> QED
        BY <4>2 DEF mid
    <3>4. PastBytes(body, n).at \in Nat /\ last.at \in Nat
      BY <3>2, <3>3 DEF Files
    <3> HIDE DEF last
    <3> QED
      BY <2>4, <3>1, <3>2, <3>3, <3>4
  <2>6. ASSUME Len(f) # size
        PROVE  /\ AtEnd(last) \/ last.at > size
               /\ n <= 4 => last = [bytes |-> f, at |-> (size + 4) + n + 2, good |-> TRUE]
    <3>1. (Len(f) # size) = TRUE /\ a = size + 4 /\ size + 4 \in Nat
      BY <2>6
    <3>2. body = [bytes |-> f, at |-> size + 4, good |-> TRUE]
      BY <2>1, <3>1
    <3>3. /\ (size + 4) + n + 2 <= Len(f) => last = [bytes |-> f, at |-> (size + 4) + n + 2, good |-> TRUE]
          /\ last.at >= size + 4
      BY <1>1, <3>1, <3>2, PastToken
    <3>4. size + 10 <= Len(f)
      BY <2>6 DEF AfterCut
    <3>5. n <= 4 => (size + 4) + n + 2 <= Len(f)
      BY <1>1, <3>4
    <3>6. last.at > size
      <4>1. last \in Files(f)
        <5> DEFINE mid == PastBytes(body, n)
        <5>1. body \in Files(f)
          BY <3>2, <3>1 DEF Files
        <5>2. mid \in Files(f) /\ 2 \in Nat
          BY <1>1, <5>1, PastBytesIs
        <5> HIDE DEF mid
        <5>3. PastBytes(mid, 2) \in Files(f)
          BY <5>2, PastBytesIs
        <5> QED
          BY <5>3 DEF mid
      <4>2. last.at \in Nat
        BY <4>1 DEF Files
      <4> HIDE DEF last
      <4> QED
        BY <3>3, <4>2
    <3> QED
      BY <3>3, <3>5, <3>6
  <2> HIDE DEF last
  <2>7. next.stopped = "no" /\ next.file = last
    BY <2>3
  <2>8. ~(size < p + 2) /\ ~(size >= p + n + 4)
    BY <1>1, <1>10
  <2>9. Len(f) # size /\ n <= 4 =>
          \E e \in size + 1 .. size + 10 :
            next.file = [bytes |-> f, at |-> e, good |-> TRUE] /\ (n <= 1 => e <= size + 7 /\ e # size + 4)
    <3>1. SUFFICES ASSUME Len(f) # size, n <= 4
                   PROVE  \E e \in size + 1 .. size + 10 :
                            next.file = [bytes |-> f, at |-> e, good |-> TRUE] /\ (n <= 1 => e <= size + 7 /\ e # size + 4)
      OBVIOUS
    <3> DEFINE x == (size + 4) + n + 2
    <3>2. x \in size + 1 .. size + 10 /\ (n <= 1 => x <= size + 7 /\ x # size + 4)
      BY <1>1, <3>1
    <3>3. next.file = [bytes |-> f, at |-> x, good |-> TRUE]
      BY <2>6, <2>7, <3>1
    <3> HIDE DEF x
    <3> QED
      BY <3>2, <3>3
  <2> QED
    BY <2>5, <2>6, <2>7, <2>8, <2>9 DEF CutTaken, n
<1>11. ASSUME ~AtEnd(file), size >= p + 4 PROVE CutTaken(f, size, next, scan, p, v)
  <2> DEFINE last == PastBytes(PastBytes(body, n), 2)
  <2>1. /\ At(line, 0) = Dollar /\ len = n
        /\ body = [bytes |-> f, at |-> p + 4, good |-> TRUE]
    <3>1. p + 4 <= Len(f) /\ size >= p + 1 /\ size >= p + 2 /\ size >= p + 3 /\ size >= p + 4
      BY <1>1, <1>11
    <3>2. f[p + 1] = Dollar /\ f[p + 2] = n /\ f[p + 3] = CR /\ f[p + 4] = LF /\ Dollar \in {Star, Dollar}
      BY <1>3, <3>1
    <3>3. /\ ~AtEnd(file) /\ At(Line(file), 0) = Dollar /\ NumberIn(Tail(Line(file))) = n
          /\ PastLine(file) = [bytes |-> f, at |-> p + 4, good |-> TRUE]
      <4>1. file \in Files(f) /\ file.at = p /\ file.good /\ n \in NumberSymbols
        BY <1>1, <1>4
      <4> QED
        <5> HIDE DEF file, n
        <5>1. /\ file \in Files(f) /\ file.good /\ file.at + 4 <= Len(f)
              /\ f[file.at + 1] = Dollar /\ f[file.at + 1] \in {Star, Dollar} /\ f[file.at + 2] \in NumberSymbols
              /\ f[file.at + 3] = CR /\ f[file.at + 4] = LF
          BY <3>1, <3>2, <4>1
        <5>2. /\ ~AtEnd(file) /\ At(Line(file), 0) = Dollar /\ NumberIn(Tail(Line(file))) = f[file.at + 2]
              /\ PastLine(file) = [bytes |-> f, at |-> file.at + 4, good |-> TRUE]
          BY <5>1, MarkHere
        <5> QED
          BY <3>2, <4>1, <5>2
    <3> QED
      BY <3>3
  <2>2. ~(len = Nothing \/ len < 0)
    BY <1>1, <2>1, MarksAre
  <2>3. next = [tokens |-> Append(scan.tokens, Bytes(body, n)), file |-> last, stopped |-> "no"]
    BY <1>6, <1>11, <2>1, <2>2
  <2>4. /\ (p + 4) + n + 2 <= Len(f) => last = [bytes |-> f, at |-> (p + 4) + n + 2, good |-> TRUE]
        /\ (p + 4) + n + 2 > Len(f) => AtEnd(last)
    <3>1. p + 4 \in Nat /\ n \in Nat /\ f \in Text
      BY <1>1
    <3> DEFINE whole == [bytes |-> f, at |-> p + 4, good |-> TRUE]
               past  == PastBytes(PastBytes(whole, n), 2)
    <3>2. /\ (p + 4) + n + 2 <= Len(f) => past = [bytes |-> f, at |-> (p + 4) + n + 2, good |-> TRUE]
          /\ (p + 4) + n + 2 > Len(f) => AtEnd(past)
      BY ONLY <3>1, PastToken
    <3>3. last = past
      BY <2>1
    <3> HIDE DEF past, last
    <3> QED
      BY <3>2, <3>3
  <2>5. size >= p + n + 4 => Bytes(body, n) = v
    <3>1. SUFFICES ASSUME size >= p + n + 4 PROVE Bytes(body, n) = v
      OBVIOUS
    <3> DEFINE m == Len(f)
    <3>0. p \in Nat /\ n \in Nat /\ size \in Nat /\ m \in Nat /\ p + n + 4 <= size /\ size <= m
      BY <1>1, <3>1
    <3>2. p + 4 \in Nat /\ (p + 4) + n <= Len(f)
      <4> HIDE DEF m
      <4>1. p + 4 \in Nat /\ (p + 4) + n <= m
        BY ONLY <3>0
      <4> QED
        BY <4>1 DEF m
    <3>3. \A j \in 1 .. n : f[(p + 4) + j] = v[j]
      <4>1. ASSUME NEW j \in 1 .. n PROVE f[(p + 4) + j] = v[j]
        <5>1. (p + 4) + j \in 1 .. size
          <6>1. j \in Int /\ 1 <= j /\ j <= n
            OBVIOUS
          <6> QED
            BY ONLY <3>0, <6>1
        <5>2. f[p + 4 + j] = full[p + 4 + j] /\ full[p + 4 + j] = v[j]
          BY <1>1, <1>2, <5>1
        <5> QED
          BY <5>1, <5>2
      <4> QED
        BY <4>1
    <3> HIDE DEF body
    <3>4. Bytes([bytes |-> f, at |-> p + 4, good |-> TRUE], Len(v)) = v
      BY <3>2, <3>3, BytesRead DEF n
    <3> QED
      BY <2>1, <3>4 DEF n
  <2> HIDE DEF body, last
  <2>6. next.stopped = "no" /\ next.file = last /\ next.tokens = Append(scan.tokens, Bytes(body, n))
    BY <2>3
  <2>7. AtEnd(last) \/ last.at > size
    <3>1. CASE (p + 4) + n + 2 <= Len(f)
      <4>1. last.at = (p + 4) + n + 2
        BY <2>4, <3>1
      <4>2. (p + 4) + n + 2 > size
        BY <1>1, <1>5
      <4> QED
        BY <4>1, <4>2
    <3>2. CASE (p + 4) + n + 2 > Len(f)
      BY <2>4, <3>2
    <3> QED
      BY <1>1, <3>1, <3>2
  <2>8. Len(f) # size /\ n <= 4 =>
          \E e \in size + 1 .. size + 10 :
            next.file = [bytes |-> f, at |-> e, good |-> TRUE] /\ (n <= 1 => e <= size + 7 /\ e # size + 4)
    <3>1. SUFFICES ASSUME Len(f) # size, n <= 4
                   PROVE  \E e \in size + 1 .. size + 10 :
                            next.file = [bytes |-> f, at |-> e, good |-> TRUE] /\ (n <= 1 => e <= size + 7 /\ e # size + 4)
      OBVIOUS
    <3> DEFINE x == (p + 4) + n + 2
    <3>2. size + 10 <= Len(f)
      BY <3>1 DEF AfterCut
    <3>3. x \in size + 1 .. size + 10 /\ (n <= 1 => x <= size + 7 /\ x # size + 4) /\ x <= Len(f)
      <4>1. /\ p \in Int /\ n \in Int /\ size \in Int /\ Len(f) \in Int
            /\ p + 4 <= size /\ size < p + n + 6 /\ n <= 4 /\ size + 10 <= Len(f)
        BY <1>1, <1>5, <1>11, <3>1, <3>2
      <4>2. x = p + n + 6
        <5>1. (p + 4) + n + 2 = p + n + 6
          BY ONLY <4>1
        <5> QED
          BY <5>1
      <4> HIDE DEF x
      <4> QED
        BY ONLY <4>1, <4>2
    <3>4. next.file = [bytes |-> f, at |-> x, good |-> TRUE]
      BY <2>4, <2>6, <3>3
    <3> HIDE DEF x
    <3> QED
      BY <3>3, <3>4
  <2>9. ~(size < p + 2)
    BY <1>11
  <2> QED
    BY <2>5, <2>6, <2>7, <2>8, <2>9 DEF CutTaken, n
<1>12. size < p + 2 \/ (size >= p + 2 /\ size <= p + 3) \/ size >= p + 4
  OBVIOUS
<1> QED
  BY <1>7, <1>9, <1>10, <1>11, <1>12 DEF next

\* In the header and the first length behind a cut, the reader finds a length
\* nowhere but at its beginning.
LEMMA NoLength ==
  ASSUME NEW f \in Text, NEW size \in Nat, AfterCut(f, size), Len(f) # size,
         NEW e \in size + 1 .. size + 7, e # size + 4,
         NEW scan \in LogScans(f), scan.stopped = "no", scan.file = [bytes |-> f, at |-> e, good |-> TRUE]
  PROVE  /\ Token(scan).stopped = "break" /\ Token(scan).tokens = scan.tokens
         /\ \E x \in size + 1 .. size + 8 : Token(scan).file = [bytes |-> f, at |-> x, good |-> TRUE]
<1> DEFINE file == scan.file
           q    == IF e <= size + 3 THEN size + 3 ELSE size + 7
           l    == Line(file)
           x    == q + 1
           next == Token(scan)
<1>1. /\ size + 10 <= Len(f) /\ f[size + 2] \in NumberSymbols
      /\ f[size + 3] = CR /\ f[size + 4] = LF /\ f[size + 6] \in NumberSymbols
      /\ f[size + 7] = CR /\ f[size + 8] = LF /\ Len(f) \in Nat
  BY DEF AfterCut, Text
<1>2. /\ Dollar # CR /\ Dollar # LF /\ CR # LF /\ \A n \in NumberSymbols : n # LF /\ n # Dollar
      /\ Nothing # Dollar
  BY MarksAre, RespAssumption
<1>3. file \in Files(f) /\ file.at = e /\ file.good /\ e \in Nat
  <2>1. [bytes |-> f, at |-> e, good |-> TRUE] \in Files(f)
    BY DEF Files
  <2> QED
    BY <2>1
<1>4. q \in e .. Len(f) - 1 /\ f[q + 1] = LF /\ x \in size + 1 .. size + 8 /\ q < Len(f)
  <2>1. CASE e <= size + 3
    <3>1. q = size + 3 /\ q + 1 = size + 4
      BY <2>1
    <3> HIDE DEF q
    <3> QED
      <4>1. /\ q \in Int /\ e <= q /\ q <= Len(f) - 1 /\ q < Len(f)
            /\ size + 1 <= q + 1 /\ q + 1 <= size + 8
        <5>1. /\ q \in Int /\ size \in Int /\ e \in Int /\ Len(f) \in Int
              /\ q = size + 3 /\ e <= size + 3 /\ size + 10 <= Len(f)
          BY <1>1, <2>1, <3>1
        <5> QED
          BY ONLY <5>1
      <4>2. f[q + 1] = LF
        BY <1>1, <3>1
      <4> HIDE DEF x
      <4>3. x = q + 1
        BY DEF x
      <4> QED
        BY <1>1, <4>1, <4>2, <4>3
  <2>2. CASE ~(e <= size + 3)
    <3>1. q = size + 7 /\ q + 1 = size + 8
      BY <2>2
    <3> HIDE DEF q
    <3> QED
      BY <1>1, <2>2, <3>1
  <2> QED
    BY <2>1, <2>2
<1>5. \A j \in e .. q - 1 : f[j + 1] # LF
  <2>1. ASSUME NEW j \in e .. q - 1 PROVE f[j + 1] # LF
    <3>1. j + 1 = size + 2 \/ j + 1 = size + 3 \/ j + 1 = size + 6 \/ j + 1 = size + 7
      <4>1. CASE e <= size + 3
        BY <4>1
      <4>2. CASE ~(e <= size + 3)
        BY <4>2
      <4> QED
        BY <4>1, <4>2
    <3> QED
      BY <1>1, <1>2, <3>1
  <2> QED
    BY <2>1
<1>6. f[e + 1] # Dollar
  <2>1. \/ e + 1 = size + 2 \/ e + 1 = size + 3 \/ e + 1 = size + 4
        \/ e + 1 = size + 6 \/ e + 1 = size + 7 \/ e + 1 = size + 8
    <3>1. e \in Int /\ size \in Int /\ size + 1 <= e /\ e <= size + 7 /\ e # size + 4
      OBVIOUS
    <3> QED
      BY ONLY <3>1
  <2> QED
    BY <1>1, <1>2, <2>1
<1> HIDE DEF q, file
<1>7. ~AtEnd(file) /\ EndOfLine(file) = q
  <2>1. e \in Nat /\ q \in e .. Len(f) - 1 /\ f[q + 1] = LF
    BY <1>3, <1>4
  <2>2. file \in Files(f) /\ file.at = e /\ file.good
    BY <1>3
  <2> QED
    BY ONLY f \in Text, <1>5, <2>1, <2>2, LineFound
<1>8. /\ l \in Text /\ \A j \in 1 .. Len(l) : l[j] = f[e + j]
      /\ PastLine(file) = [bytes |-> f, at |-> q + 1, good |-> q < Len(f)]
  BY <1>3, <1>7, LineIs
<1> HIDE DEF l
<1>9. At(l, 0) # Dollar
  <2>1. CASE Len(l) = 0
    <3>1. At(l, 0) = Nothing
      BY <2>1 DEF At
    <3> QED
      BY <1>2, <3>1
  <2>2. CASE Len(l) # 0
    <3>1. 1 \in 1 .. Len(l) /\ 0 \in 0 .. Len(l) - 1 /\ 0 + 1 = 1
      BY <1>8, <2>2 DEF Text
    <3>2. At(l, 0) = l[1]
      BY <3>1 DEF At
    <3> QED
      BY <1>6, <1>8, <3>1, <3>2
  <2> QED
    BY <2>1, <2>2
<1>10. PastLine(file) = [bytes |-> f, at |-> x, good |-> TRUE]
  <2>1. (q < Len(f)) = TRUE
    BY <1>4
  <2> QED
    BY <1>8, <2>1
<1>11. next = [tokens |-> scan.tokens, file |-> PastLine(file), stopped |-> "break"]
  BY <1>7, <1>9, TokenCases DEF file, l
<1> HIDE DEF next, x
<1>12. next.stopped = "break" /\ next.tokens = scan.tokens /\ next.file = [bytes |-> f, at |-> x, good |-> TRUE]
  BY <1>10, <1>11
<1> QED
  BY <1>4, <1>12 DEF next

\* What the reader has of a record that was cut in its c-th token: it has left
\* the stream behind the cut; the tokens in front of the cut are there if it
\* is a record at all; one that was cut in its last token is a record if the
\* length is there, and this one if the bytes are; and what it has taken
\* instead of short tokens ends before the record behind the cut does.
CutRead(s, f, r, off, size, c) ==
  LET m == Len(r) IN
  /\ AtEnd(s.file) \/ s.file.at > size
  /\ IsRecord(s, m) => Len(s.tokens) = m /\ \A i \in 1 .. c - 1 : s.tokens[i] = r[i]
  /\ c = m => (IsRecord(s, m) <=> size >= off[m - 1] + 2)
  /\ c = m /\ size >= off[m] - 2 => s.tokens = r
  /\ c < m /\ Len(f) = size => ~IsRecord(s, m)
  /\ Len(f) # size /\ Short(r) =>
       /\ c < m => ~IsRecord(s, m)
       /\ \E e \in size + 1 .. size + 10 : s.file = [bytes |-> f, at |-> e, good |-> TRUE]

LEMMA CutScan ==
  ASSUME NEW r \in Records, NEW full \in Text, NEW off, ArrayAt(full, r, off), NEW size \in Nat, 4 <= size,
         NEW f \in Text, Begins(f, 0, full, size), AfterCut(f, size),
         NEW c \in 1 .. Len(r), off[c - 1] <= size, size < off[c]
  PROVE  /\ 0 \in 0 .. Len(f) /\ ~AtEnd(Opened(f, 0)) /\ CountAt(f, 0) = Len(r) /\ ~NoHeader(f, 0)
         /\ CutRead(ScanAt(f, 0), f, r, off, size, c)
<1> DEFINE m    == Len(r)
           file == [bytes |-> f, at |-> 4, good |-> TRUE]
           s    == ScanAt(f, 0)
<1>1. r \in Seq(Strings) /\ m \in NumberSymbols /\ m \in Nat /\ Len(f) \in Nat /\ size <= Len(f)
  BY DEF Records, Text, Begins
<1>2. /\ 0 \in 0 .. Len(f) /\ ~AtEnd(Opened(f, 0)) /\ CountAt(f, 0) = m /\ ~NoHeader(f, 0)
      /\ PastLine(Opened(f, 0)) = [bytes |-> f, at |-> 0 + 4, good |-> TRUE]
  <2>1. 0 \in Nat
    OBVIOUS
  <2> QED
    BY <1>1, <2>1, HeaderRead
<1>3. 0 + 4 = 4 /\ file \in Files(f)
  BY DEF Files
<1>4. s = Tokens(file, m)
  BY <1>2, <1>3 DEF ScanAt
<1> HIDE DEF s, file
<1>5. PICK h : Scanning(h, f, file, m) /\ h[m] = Tokens(file, m)
  BY <1>1, <1>3, TokenChain
<1> DEFINE a == h[c - 1]
           b == h[c]
           v == r[c]
           p == off[c - 1]
<1>6. s = h[m]
  BY <1>4, <1>5
<1>7. c \in 1 .. m /\ c - 1 \in 0 .. m /\ c \in 0 .. m /\ m \in c .. m /\ m \in c - 1 .. m /\ c \in Nat /\ c - 1 \in Nat /\ c <= m
  BY <1>1
<1> HIDE DEF m
<1>8. p \in Nat /\ off[c] \in Nat /\ off[c] = p + Len(v) + 6 /\ Len(v) \in Nat /\ v \in Strings /\ BulkAt(full, p, v)
  BY <1>1, <1>7, PlacesGrow DEF m
<1>9. a \in LogScans(f) /\ b \in LogScans(f) /\ s \in LogScans(f) /\ b = Token(a)
  BY <1>5, <1>6, <1>7 DEF Scanning
<1>10. ReadUpTo(a, f, p, r, c - 1)
  <2>1. ReadUpTo(h[c - 1], f, 0 + off[c - 1], r, c - 1)
    <3>1. Scanning(h, f, [bytes |-> f, at |-> 0 + 4, good |-> TRUE], Len(r))
      BY <1>3, <1>5 DEF file, m
    <3>2. 0 \in Nat /\ c - 1 \in 0 .. Len(r)
      BY <1>7 DEF m
    <3> QED
      BY <1>1, <3>1, <3>2, PrefixRead
  <2>2. 0 + off[c - 1] = p
    BY <1>8
  <2> QED
    BY <2>1, <2>2
<1>11. /\ a.stopped = "no" /\ a.file = [bytes |-> f, at |-> p, good |-> TRUE]
       /\ Len(a.tokens) = c - 1 /\ \A j \in 1 .. c - 1 : a.tokens[j] = r[j]
       /\ a.tokens \in Seq(Seq(LogBytes))
  BY <1>9, <1>10 DEF ReadUpTo, LogScans
<1>12. p <= size /\ size < p + Len(v) + 6
  BY <1>8
<1>13. Onward(b, s) /\ Onward(a, s) /\ Len(b.tokens) <= c
  <2>1. c \in 0 .. m /\ m \in c .. m /\ c - 1 \in 0 .. m /\ m \in c - 1 .. m
    BY <1>7
  <2>2. Onward(h[c], h[m])
    BY <1>1, <1>5, <2>1, ScanGoesOn DEF m
  <2>3. Onward(h[c - 1], h[m])
    BY <1>1, <1>5, <2>1, ScanGoesOn DEF m
  <2>4. Len(h[c].tokens) <= c
    BY <1>1, <1>5, <2>1, ScanCounts DEF m
  <2> QED
    BY <1>6, <2>2, <2>3, <2>4
<1> HIDE DEF a, b, v, p
<1>14. CutTaken(f, size, b, a, p, v)
  <2>1. CutTaken(f, size, Token(a), a, p, v)
    BY <1>8, <1>9, <1>11, <1>12, CutToken
  <2> QED
    BY <1>9, <2>1
<1>15. /\ b.stopped = "no" => Len(b.tokens) = (c - 1) + 1
  <2>1. Token(a).stopped = "no" => Len(Token(a).tokens) = Len(a.tokens) + 1
    BY <1>9, TokenIs
  <2> QED
    BY <1>9, <1>11, <2>1
<1>16. /\ b.file.at \in Nat /\ s.file.at \in Nat /\ b.tokens \in Seq(Seq(LogBytes)) /\ s.tokens \in Seq(Seq(LogBytes))
       /\ b.stopped \in {"no", "break", "throw"}
       /\ b.file.bytes = f
  BY <1>9 DEF LogScans, Files
<1>17. /\ s.file.at >= b.file.at /\ (AtEnd(b.file) => AtEnd(s.file) /\ s.tokens = b.tokens)
       /\ b.stopped # "no" => s = b
  BY <1>13 DEF Onward
<1>18. AtEnd(s.file) \/ s.file.at > size
  BY <1>14, <1>16, <1>17 DEF CutTaken
<1>19. IsRecord(s, m) => Len(s.tokens) = m /\ \A i \in 1 .. c - 1 : s.tokens[i] = r[i]
  <2>1. Extends(s.tokens, a.tokens)
    BY <1>13 DEF Onward
  <2>2. \A i \in 1 .. c - 1 : s.tokens[i] = a.tokens[i]
    BY <1>11, <2>1 DEF Extends
  <2> QED
    BY <1>11, <2>2 DEF IsRecord
<1>20. size < p + 2 => b.stopped # "no" /\ s = b /\ Len(s.tokens) = c - 1
  BY <1>11, <1>14, <1>17 DEF CutTaken
<1>21. size >= p + 2 => b.stopped = "no" /\ Len(b.tokens) = c
  <2>1. (c - 1) + 1 = c
    BY <1>7
  <2> QED
    BY <1>14, <1>15, <2>1 DEF CutTaken
<1>22. c = m => (IsRecord(s, m) <=> size >= off[m - 1] + 2)
  <2>1. SUFFICES ASSUME c = m PROVE IsRecord(s, m) <=> size >= p + 2
    BY DEF p
  <2>2. s = b
    BY <1>6, <2>1 DEF b
  <2>3. CASE size >= p + 2
    <3>1. s.stopped # "throw" /\ Len(s.tokens) = m
      BY <1>21, <2>1, <2>2, <2>3
    <3> QED
      BY <2>3, <3>1 DEF IsRecord
  <2>4. CASE size < p + 2
    <3>1. Len(s.tokens) # m
      BY <1>7, <1>20, <2>1, <2>4
    <3> QED
      BY <1>8, <2>4, <3>1 DEF IsRecord
  <2> QED
    BY <1>8, <2>3, <2>4
<1>23. c = m /\ size >= off[m] - 2 => s.tokens = r
  <2>1. SUFFICES ASSUME c = m, size >= off[m] - 2 PROVE s.tokens = r
    OBVIOUS
  <2>2. s = b
    BY <1>6, <2>1 DEF b
  <2>3. size >= p + Len(v) + 4
    BY <1>8, <2>1
  <2>4. b.tokens = Append(a.tokens, v)
    BY <1>14, <2>3 DEF CutTaken
  <2> DEFINE ts == a.tokens
             us == s.tokens
  <2>5. ts \in Seq(Seq(LogBytes)) /\ Len(ts) = c - 1 /\ \A j \in 1 .. c - 1 : ts[j] = r[j]
    BY <1>11
  <2>6. us = Append(ts, v) /\ us \in Seq(Seq(LogBytes))
    BY <1>16, <2>2, <2>4
  <2> HIDE DEF ts, us
  <2>7. Len(us) = c /\ us[c] = v /\ \A j \in 1 .. c - 1 : us[j] = ts[j]
    <3> DEFINE vs == Append(ts, v)
    <3>1. Len(vs) = Len(ts) + 1 /\ vs[Len(ts) + 1] = v /\ \A j \in 1 .. Len(ts) : vs[j] = ts[j]
      BY <2>5
    <3>2. Len(ts) + 1 = c
      BY <1>7, <2>5
    <3> HIDE DEF vs
    <3>3. vs = us
      BY <2>6 DEF vs
    <3> QED
      BY <2>5, <3>1, <3>2, <3>3
  <2>8. \A j \in 1 .. c : us[j] = r[j]
    <3>1. \A j \in 1 .. c : j \in 1 .. c - 1 \/ j = c
      BY <1>7
    <3> QED
      BY <2>5, <2>7, <3>1 DEF v
  <2>9. r \in Seq(Strings) /\ Len(r) = c
    BY <1>1, <2>1 DEF m
  <2>10. us = r
    BY <2>6, <2>7, <2>8, <2>9, SeqEqual
  <2> QED
    BY <2>10 DEF us
<1>24. c < m /\ Len(f) = size => ~IsRecord(s, m)
  <2>1. SUFFICES ASSUME c < m, Len(f) = size PROVE Len(s.tokens) # m
    BY DEF IsRecord
  <2>2. AtEnd(b.file)
    <3>1. CASE b.file.at > size
      BY <1>16, <2>1, <3>1 DEF AtEnd
    <3> QED
      BY <1>14, <3>1 DEF CutTaken
  <2>3. Len(s.tokens) <= c /\ Len(s.tokens) \in Nat
    BY <1>13, <1>16, <1>17, <2>2
  <2> QED
    BY <1>1, <1>7, <2>1, <2>3
<1>25. ASSUME Len(f) # size, Short(r)
       PROVE  /\ c < m => ~IsRecord(s, m)
              /\ \E e \in size + 1 .. size + 10 : s.file = [bytes |-> f, at |-> e, good |-> TRUE]
  <2>1. Len(v) <= 4 /\ (c < m => Len(v) <= 1)
    <3>1. Len(r[m]) <= 4 /\ \A i \in 1 .. m - 1 : Len(r[i]) <= 1
      BY <1>25 DEF Short, m
    <3>2. c < m => c \in 1 .. m - 1
      BY <1>1, <1>7
    <3>3. CASE c < m
      BY <1>8, <3>1, <3>2, <3>3 DEF v
    <3>4. CASE c = m
      BY <1>8, <3>1, <3>4 DEF v
    <3> QED
      BY <1>1, <1>7, <3>3, <3>4
  <2>2. PICK e \in size + 1 .. size + 10 :
          /\ b.file = [bytes |-> f, at |-> e, good |-> TRUE]
          /\ Len(v) <= 1 => e <= size + 7 /\ (size >= p + 2 => e # size + 4)
    BY <1>14, <1>25, <2>1 DEF CutTaken
  <2>3. CASE c = m
    <3>1. s = b
      BY <1>6, <2>3 DEF b
    <3>2. ~(c < m)
      BY <1>1, <2>3
    <3> QED
      BY <2>2, <3>1, <3>2
  <2>4. CASE c < m /\ size < p + 2
    <3>1. s = b /\ Len(s.tokens) # m
      BY <1>1, <1>7, <1>20, <2>4
    <3> QED
      BY <2>2, <3>1 DEF IsRecord
  <2>5. CASE c < m /\ size >= p + 2
    <3>1. e \in size + 1 .. size + 7 /\ e # size + 4
      BY <2>1, <2>2, <2>5
    <3>2. b.stopped = "no" /\ Len(b.tokens) = c
      BY <1>21, <2>5
    <3> DEFINE d == h[c + 1]
    <3>3. c + 1 \in 1 .. m /\ (c + 1) - 1 = c /\ c + 1 \in 0 .. m /\ m \in c + 1 .. m
      BY <1>1, <1>7, <2>5
    <3>4. d = Token(b)
      BY <1>5, <3>3 DEF Scanning, b
    <3>5. d.stopped # "no" => s = d
      <4>1. Onward(h[c + 1], h[m])
        BY <1>1, <1>5, <3>3, ScanGoesOn
      <4> QED
        BY <1>6, <4>1 DEF Onward
    <3> HIDE DEF d
    <3>6. b.file = [bytes |-> f, at |-> e, good |-> TRUE]
      BY <2>2
    <3>7. /\ Token(b).stopped = "break" /\ Token(b).tokens = b.tokens
          /\ \E x \in size + 1 .. size + 8 : Token(b).file = [bytes |-> f, at |-> x, good |-> TRUE]
      BY ONLY f \in Text, size \in Nat, AfterCut(f, size), <1>9, <1>25, <3>1, <3>2, <3>6, NoLength
    <3>8. s = d /\ d.tokens = b.tokens
      BY <3>4, <3>5, <3>7
    <3>9. Len(s.tokens) # m
      BY <1>1, <1>7, <2>5, <3>2, <3>8
    <3>10. \E x \in size + 1 .. size + 10 : s.file = [bytes |-> f, at |-> x, good |-> TRUE]
      <4>1. PICK x \in size + 1 .. size + 8 : Token(b).file = [bytes |-> f, at |-> x, good |-> TRUE]
        BY <3>7
      <4>2. x \in size + 1 .. size + 10
        OBVIOUS
      <4> QED
        BY <3>4, <3>8, <4>1, <4>2
    <3> QED
      BY <3>9, <3>10 DEF IsRecord
  <2>6. c = m \/ (c < m /\ size < p + 2) \/ (c < m /\ size >= p + 2)
    BY <1>1, <1>7, <1>8
  <2> QED
    BY <2>3, <2>4, <2>5, <2>6
<1>26. CutRead(s, f, r, off, size, c)
  BY <1>18, <1>19, <1>22, <1>23, <1>24, <1>25 DEF CutRead, m
<1> QED
  BY <1>2, <1>26 DEF s, m

\* The place behind a token grows with the token.
LEMMA PlacesInOrder ==
  ASSUME NEW b \in Seq(Strings), NEW full \in Text, NEW off, ArrayAt(full, b, off),
         NEW i \in 0 .. Len(b), NEW j \in i .. Len(b)
  PROVE  off[i] \in Nat /\ off[j] \in Nat /\ off[i] <= off[j]
<1> DEFINE m == Len(b)
           T == {n \in Nat : i + n <= m => off[i + n] \in Nat /\ off[i] <= off[i + n]}
<1>1. m \in Nat /\ i \in Nat /\ j \in Nat /\ off[i] \in Nat /\ off[j] \in Nat
  <2>1. m \in Nat /\ i \in 0 .. m /\ j \in 0 .. m /\ off \in [0 .. m -> Nat]
    BY DEF ArrayAt
  <2> HIDE DEF m
  <2> QED
    BY <2>1
<1>2. 0 \in T
  BY <1>1
<1>3. ASSUME NEW n \in Nat, n \in T PROVE n + 1 \in T
  <2>1. SUFFICES ASSUME i + (n + 1) <= m PROVE off[i + (n + 1)] \in Nat /\ off[i] <= off[i + (n + 1)]
    OBVIOUS
  <2> DEFINE k == i + (n + 1)
  <2>2. k \in 1 .. m /\ k - 1 = i + n /\ i + n <= m
    BY <1>1, <2>1
  <2> DEFINE x == off[k]  y == off[k - 1]  z == Len(b[k])
  <2>3. off[i] <= off[i + n]
    BY <1>3, <2>2
  <2> HIDE DEF k
  <2>4. x \in Nat /\ y \in Nat /\ x = y + z + 6 /\ z \in Nat
    BY <2>2, PlacesGrow
  <2>5. off[i] <= y
    BY <2>2, <2>3
  <2> HIDE DEF x, y, z
  <2>6. off[i] <= x
    BY <1>1, <2>4, <2>5
  <2> QED
    BY <2>4, <2>6 DEF x, k
<1> HIDE DEF T
<1>4. j - i \in Nat /\ i + (j - i) = j
  BY <1>1
<1>5. j - i \in T
  BY <1>2, <1>3, <1>4, SetInduction
<1> QED
  BY <1>1, <1>4, <1>5 DEF T

\* The tokens in front of the cut end in front of it.
LEMMA SparedIs ==
  ASSUME NEW r \in Records, NEW off, ArrayAt(RecordBytes(r), r, off), NEW size \in Nat, NEW i \in Spared(r, size)
  PROVE  i \in 1 .. Len(r) /\ off[i] <= size
<1> DEFINE m == Len(r)
           t == SubSeq(r, 1, i)
<1>1. r \in Seq(Strings) /\ m \in Nat /\ i \in 1 .. m /\ Len(RecordBytes(t)) <= size
  BY DEF Records, Spared
<1>2. t \in Seq(Strings) /\ Len(t) = i /\ \A j \in 1 .. i : t[j] = r[j]
  BY <1>1
<1> HIDE DEF t
<1>3. PICK o : ArrayAt(RecordBytes(t), t, o)
  BY <1>2, ArrayLaidOut DEF RecordBytes
<1> DEFINE U == {n \in Nat : n <= i => o[n] = off[n]}
<1>4. /\ o \in [0 .. i -> Nat] /\ o[0] = 4 /\ off[0] = 4 /\ Len(RecordBytes(t)) = o[i]
      /\ \A n \in 1 .. i : o[n] = o[n - 1] + Len(t[n]) + 6
      /\ \A n \in 1 .. m : off[n] = off[n - 1] + Len(r[n]) + 6
  BY <1>2, <1>3 DEF ArrayAt
<1>5. 0 \in U
  BY <1>4
<1>6. ASSUME NEW n \in Nat, n \in U PROVE n + 1 \in U
  <2>1. SUFFICES ASSUME n + 1 <= i PROVE o[n + 1] = off[n + 1]
    OBVIOUS
  <2>2. n + 1 \in 1 .. i /\ n + 1 \in 1 .. m /\ (n + 1) - 1 = n /\ n <= i
    BY <1>1, <2>1
  <2>3. o[n + 1] = o[n] + Len(t[n + 1]) + 6 /\ off[n + 1] = off[n] + Len(r[n + 1]) + 6
    BY <1>4, <2>2
  <2>4. t[n + 1] = r[n + 1] /\ o[n] = off[n]
    BY <1>2, <1>6, <2>2
  <2> QED
    BY <2>3, <2>4
<1> HIDE DEF U
<1>7. i \in Nat /\ i \in U
  <2>1. i \in Nat
    BY <1>1
  <2> QED
    BY <1>5, <1>6, <2>1, SetInduction
<1> QED
  BY <1>1, <1>4, <1>7 DEF U

\* Where the last token of a record stands.
LEMMA LastIs ==
  ASSUME NEW r \in Records, NEW off, ArrayAt(RecordBytes(r), r, off)
  PROVE  LET m == Len(r) IN
         /\ m \in 1 .. m /\ off[m - 1] \in Nat /\ off[m] \in Nat /\ off[m - 1] >= 4
         /\ LastTo(r) = off[m] - 2 /\ LastFrom(r) = off[m - 1] + 2 /\ Len(RecordBytes(r)) = off[m]
<1> DEFINE m == Len(r)  full == RecordBytes(r)
<1>1. r \in Seq(Strings) /\ r # << >> /\ m \in Nat /\ full \in Text
  BY StarFirst DEF Records
<1>2. m >= 1
  <2>1. SUFFICES ASSUME m = 0 PROVE FALSE
    BY <1>1
  <2>2. r = << >>
    BY <1>1, <2>1
  <2> QED
    BY <1>1, <2>2
<1>3. Len(full) = off[m] /\ off[0] = 4
  BY DEF ArrayAt
<1>4. m \in 1 .. m /\ 0 \in 0 .. m /\ m - 1 \in 0 .. m
  BY <1>1, <1>2
<1> HIDE DEF full
<1> DEFINE x == off[m]  y == off[m - 1]  z == Len(r[m])
<1>5. x \in Nat /\ y \in Nat /\ z \in Nat /\ x = y + z + 6
  BY <1>1, <1>4, PlacesGrow DEF full
<1>6. y >= 4
  <2>1. 0 \in 0 .. Len(r) /\ m - 1 \in 0 .. Len(r)
    BY <1>4
  <2>2. off[0] <= off[m - 1]
    BY <1>1, <2>1, PlacesInOrder DEF full
  <2> QED
    BY <1>3, <2>2
<1>7. LastTo(r) = x - 2 /\ LastFrom(r) = (x - 2) - z - 2
  BY <1>3 DEF LastTo, LastFrom, full
<1> HIDE DEF x, y, z
<1>8. (x - 2) - z - 2 = y + 2
  BY <1>5
<1> QED
  BY <1>3, <1>4, <1>5, <1>6, <1>7, <1>8 DEF x, y, full

\* What is found of a record that was cut, and where the reader goes on.
CutFound(ts, f, r, size) ==
  /\ Len(ts) = Len(r) /\ \A i \in Spared(r, size) : ts[i] = r[i]
  /\ Len(f) = size => (\A i \in 1 .. Len(r) - 1 : ts[i] = r[i]) /\ (size >= LastTo(r) => ts = r)
  /\ Len(f) # size /\ Short(r) /\ size >= 4 => size >= LastFrom(r)

Outcome(g, f, r, size, q) ==
  /\ IF Len(f) = size THEN q = size ELSE q \in size + 1 .. Len(f)
  /\ Len(f) # size /\ Short(r) /\ size >= 4 => q <= size + 10
  /\ \/ g[0] \in {g[q], << >> \o g[q]} /\ size < LastFrom(r)
     \/ \E ts \in Seq(Seq(LogBytes)) : g[0] = <<ts>> \o g[q] /\ CutFound(ts, f, r, size)

LEMMA ScanIs ==
  ASSUME NEW f \in Text, 0 \in 0 .. Len(f), ~AtEnd(Opened(f, 0)), ~NoHeader(f, 0)
  PROVE  ScanAt(f, 0) \in LogScans(f)
<1>1. CountAt(f, 0) \in Nat
  BY CountIs
<1>2. PastLine(Opened(f, 0)) \in Files(f)
  BY NextPlace
<1>3. PICK h : Scanning(h, f, PastLine(Opened(f, 0)), CountAt(f, 0)) /\ h[CountAt(f, 0)] = ScanAt(f, 0)
  BY <1>1, <1>2, TokenChain DEF ScanAt
<1>4. CountAt(f, 0) \in 0 .. CountAt(f, 0)
  BY <1>1
<1> QED
  BY <1>3, <1>4 DEF Scanning

\* From what a scan has left, the place to go on at.
LEMMA GoingOn ==
  ASSUME NEW f \in Text, NEW g, Loads(g, f), ~AtEnd(Opened(f, 0)), ~NoHeader(f, 0), 0 \in 0 .. Len(f)
  PROVE  g[0] = FoundAt(f, 0) \o g[Place(ScanAt(f, 0).file)]
<1> DEFINE s == ScanAt(f, 0)
<1>1. g[0] = FoundAt(f, 0) \o IF GoesOn(s, CountAt(f, 0)) THEN g[Place(s.file)] ELSE << >>
  BY DEF Loads, LoadStep
<1>2. s.file.bytes = f
  BY ScanIs DEF LogScans, Files
<1> HIDE DEF s
<1>3. CASE GoesOn(s, CountAt(f, 0))
  BY <1>1, <1>3 DEF s
<1>4. CASE ~GoesOn(s, CountAt(f, 0))
  <2>1. Place(s.file) = Len(f)
    BY <1>2, <1>4 DEF GoesOn, Place
  <2>2. g[Len(f)] = << >>
    BY LoadAtEnd
  <2> QED
    BY <1>1, <1>4, <2>1, <2>2 DEF s
<1> QED
  BY <1>3, <1>4

LEMMA CutLate ==
  ASSUME NEW r \in Records, NEW off, ArrayAt(RecordBytes(r), r, off),
         NEW size \in 4 .. Len(RecordBytes(r)) - 1,
         NEW f \in Text, Begins(f, 0, RecordBytes(r), size), AfterCut(f, size), NEW g, Loads(g, f)
  PROVE  \E q : Outcome(g, f, r, size, q)
<1> DEFINE m    == Len(r)
           full == RecordBytes(r)
           s    == ScanAt(f, 0)
           q    == Place(s.file)
<1>1. r \in Seq(Strings) /\ full \in Text /\ Len(full) \in Nat /\ Len(f) \in Nat /\ m \in Nat /\ size <= Len(f)
  BY StarFirst DEF Records, Text, Begins
<1>2. /\ m \in 1 .. m /\ off[m - 1] \in Nat /\ off[m] \in Nat
      /\ LastTo(r) = off[m] - 2 /\ LastFrom(r) = off[m - 1] + 2 /\ Len(full) = off[m]
  BY LastIs
<1> HIDE DEF full
<1>3. size \in Nat /\ 4 <= size /\ size < off[m]
  BY <1>1, <1>2 DEF full
<1>4. PICK c \in 1 .. m : off[c - 1] <= size /\ size < off[c]
  <2>1. off \in [0 .. m -> Nat] /\ off[0] = 4
    BY DEF ArrayAt
  <2>2. size + 1 \in Nat /\ off[0] < size + 1 /\ size + 1 <= off[m]
    BY <1>2, <1>3, <2>1
  <2>3. PICK c \in 1 .. m : off[c - 1] < size + 1 /\ size + 1 <= off[c]
    BY <1>1, <2>1, <2>2, Located
  <2>4. c - 1 \in 0 .. m /\ c \in 0 .. m
    BY <1>1
  <2>5. off[c - 1] \in Nat /\ off[c] \in Nat
    BY <2>1, <2>4
  <2>6. off[c - 1] <= size /\ size < off[c]
    BY <1>3, <2>3, <2>5
  <2> QED
    BY <2>6
<1>5. /\ 0 \in 0 .. Len(f) /\ ~AtEnd(Opened(f, 0)) /\ CountAt(f, 0) = m /\ ~NoHeader(f, 0)
      /\ CutRead(s, f, r, off, size, c)
  BY <1>1, <1>3, <1>4, CutScan DEF full
<1>6. s \in LogScans(f)
  BY <1>5, ScanIs
<1>7. g[0] = FoundAt(f, 0) \o g[q] /\ FoundAt(f, 0) = IF IsRecord(s, m) THEN <<s.tokens>> ELSE << >>
  BY <1>5, GoingOn DEF FoundAt
<1> HIDE DEF s, m
<1>8. s.file.bytes = f /\ s.file.at \in Nat /\ s.tokens \in Seq(Seq(LogBytes))
  BY <1>6 DEF LogScans, Files
<1>9. IF Len(f) = size THEN q = size ELSE q \in size + 1 .. Len(f)
  <2>1. AtEnd(s.file) \/ s.file.at > size
    BY <1>5 DEF CutRead
  <2>2. CASE AtEnd(s.file)
    <3>1. q = Len(f)
      BY <1>8, <2>2 DEF Place
    <3> HIDE DEF q
    <3> QED
      BY <1>1, <1>3, <3>1
  <2>3. CASE ~AtEnd(s.file)
    <3>1. q = s.file.at /\ s.file.at < Len(f)
      BY <1>1, <1>8, <2>3 DEF Place, AtEnd
    <3>2. s.file.at > size
      BY <2>1, <2>3
    <3> HIDE DEF q
    <3> QED
      BY <1>1, <1>3, <1>8, <3>1, <3>2
  <2> QED
    BY <2>2, <2>3
<1>10. Len(f) # size /\ Short(r) /\ size >= 4 => q <= size + 10
  <2>1. SUFFICES ASSUME Len(f) # size, Short(r) PROVE q <= size + 10
    OBVIOUS
  <2>2. PICK e \in size + 1 .. size + 10 : s.file = [bytes |-> f, at |-> e, good |-> TRUE]
    BY <1>5, <2>1 DEF CutRead
  <2>3. s.file.at = e /\ s.file.good = TRUE
    BY <2>2
  <2>4. e >= Len(f) => q = Len(f)
    BY <1>8, <2>3 DEF Place, AtEnd
  <2>5. e < Len(f) => q = e
    BY <1>1, <1>8, <2>3 DEF Place, AtEnd
  <2> HIDE DEF q
  <2> QED
    BY <1>1, <1>3, <2>4, <2>5
<1> HIDE DEF q
<1>11. ASSUME ~IsRecord(s, m)
       PROVE  g[0] = << >> \o g[q] /\ size < LastFrom(r)
  <2>1. g[0] = << >> \o g[q]
    BY <1>7, <1>11
  <2>2. CASE c = m
    <3>1. ~(size >= off[m - 1] + 2)
      BY <1>5, <1>11, <2>2 DEF CutRead, m
    <3> QED
      BY <1>2, <1>3, <2>1, <3>1 DEF m
  <2>3. CASE c # m
    <3>1. c \in 0 .. m /\ m - 1 \in c .. m
      BY <1>1, <2>3 DEF m
    <3>2. off[c] \in Nat /\ off[c] <= off[m - 1]
      BY <1>1, <3>1, PlacesInOrder DEF full, m
    <3>3. size < off[m - 1] + 2
      BY <1>2, <1>3, <1>4, <3>2 DEF m
    <3> QED
      BY <1>2, <2>1, <3>3 DEF m
  <2> QED
    BY <2>2, <2>3
<1>12. ASSUME IsRecord(s, m)
       PROVE  g[0] = <<s.tokens>> \o g[q] /\ CutFound(s.tokens, f, r, size)
  <2>1. g[0] = <<s.tokens>> \o g[q]
    BY <1>7, <1>12
  <2> DEFINE ts == s.tokens
  <2>2. Len(ts) = m /\ \A i \in 1 .. c - 1 : ts[i] = r[i]
    BY <1>5, <1>12 DEF CutRead, m
  <2>3. ASSUME NEW i \in Spared(r, size) PROVE ts[i] = r[i]
    <3>1. i \in 1 .. m /\ off[i] <= size
      BY <1>3, SparedIs DEF m
    <3>2. i < c
      <4>1. SUFFICES ASSUME i >= c PROVE FALSE
        BY <1>1, <3>1
      <4>2. c \in 0 .. m /\ i \in c .. m
        BY <1>1, <3>1, <4>1 DEF m
      <4>3. off[c] \in Nat /\ off[i] \in Nat /\ off[c] <= off[i]
        BY <1>1, <4>2, PlacesInOrder DEF full, m
      <4> QED
        BY <1>3, <1>4, <3>1, <4>3
    <3> QED
      BY <1>1, <2>2, <3>1, <3>2
  <2>4. ASSUME Len(f) = size
        PROVE  (\A i \in 1 .. m - 1 : ts[i] = r[i]) /\ (size >= LastTo(r) => ts = r)
    <3>1. c = m
      <4>1. ~(c < m)
        BY <1>5, <1>12, <2>4 DEF CutRead, m
      <4> QED
        BY <1>1, <4>1 DEF m
    <3>2. size >= off[m] - 2 => ts = r
      BY <1>5, <3>1 DEF CutRead, m
    <3> QED
      BY <1>2, <2>2, <3>1, <3>2 DEF m
  <2>5. ASSUME Len(f) # size, Short(r) PROVE size >= LastFrom(r)
    <3>1. c = m
      <4>1. ~(c < m)
        BY <1>5, <1>12, <2>5 DEF CutRead, m
      <4> QED
        BY <1>1, <4>1 DEF m
    <3>2. size >= off[m - 1] + 2
      BY <1>5, <1>12, <3>1 DEF CutRead, m
    <3> QED
      BY <1>2, <3>2 DEF m
  <2> HIDE DEF ts
  <2>6. CutFound(ts, f, r, size)
    BY <2>2, <2>3, <2>4, <2>5 DEF CutFound, m
  <2> QED
    BY <2>1, <2>6 DEF ts
<1>13. \/ g[0] \in {g[q], << >> \o g[q]} /\ size < LastFrom(r)
       \/ \E ts \in Seq(Seq(LogBytes)) : g[0] = <<ts>> \o g[q] /\ CutFound(ts, f, r, size)
  BY <1>8, <1>11, <1>12
<1> QED
  BY <1>9, <1>10, <1>13 DEF Outcome

LEMMA CutEarly ==
  ASSUME NEW r \in Records, NEW off, ArrayAt(RecordBytes(r), r, off), NEW size \in 1 .. 3,
         NEW f \in Text, Begins(f, 0, RecordBytes(r), size), AfterCut(f, size), NEW g, Loads(g, f)
  PROVE  \E q : Outcome(g, f, r, size, q)
<1> DEFINE m    == Len(r)
           full == RecordBytes(r)
           top  == Opened(f, 0)
           file == PastLine(top)
           a    == IF Len(f) = size THEN size + 1 ELSE size + 4
<1>1. /\ full \in Text /\ Len(f) \in Nat /\ m \in Nat /\ m \in NumberSymbols /\ size <= Len(f)
      /\ \A j \in 1 .. size : f[0 + j] = full[j]
      /\ full[1] = Star /\ full[2] = m /\ full[3] = CR
  BY StarFirst DEF Records, Text, Begins
<1>2. /\ m >= 1 /\ size < LastFrom(r)
      /\ \A i \in 1 .. m : off[i] \in Nat /\ off[i] >= 4
  <2>1. m \in 1 .. m /\ off[m - 1] \in Nat /\ off[m - 1] >= 4 /\ LastFrom(r) = off[m - 1] + 2
    BY LastIs
  <2>2. ASSUME NEW i \in 1 .. m PROVE off[i] \in Nat /\ off[i] >= 4
    <3>1. 0 \in 0 .. m /\ i \in 0 .. m /\ off[0] = 4
      BY <1>1 DEF ArrayAt
    <3>2. r \in Seq(Strings)
      BY DEF Records
    <3>3. off[0] \in Nat /\ off[i] \in Nat /\ off[0] <= off[i]
      BY <1>1, <3>1, <3>2, PlacesInOrder
    <3> QED
      BY <3>1, <3>3
  <2> QED
    BY <1>1, <2>1, <2>2
<1> HIDE DEF full, m
<1>3. /\ 0 \in 0 .. Len(f) /\ top \in Files(f) /\ top.at = 0 /\ top.good /\ ~AtEnd(top)
  BY <1>1, OpenedIs
<1>4. /\ size >= 0 + 1 => f[0 + 1] = Star
      /\ size >= 0 + 2 => f[0 + 2] = m
      /\ size >= 0 + 3 => f[0 + 3] = CR
  <2>1. size >= 2 => 2 \in 1 .. size
    OBVIOUS
  <2>2. size >= 3 => 3 \in 1 .. size
    OBVIOUS
  <2>3. 1 \in 1 .. size
    OBVIOUS
  <2> QED
    BY <1>1, <2>1, <2>2, <2>3
<1> HIDE DEF top
<1>5. /\ PastLine(top) = [bytes |-> f, at |-> IF Len(f) = size THEN size + 1 ELSE size + 4, good |-> Len(f) # size]
      /\ size >= 0 + 1 => At(Line(top), 0) = Star
      /\ size = 0 + 1 => NumberIn(Tail(Line(top))) = Nothing
      /\ size >= 0 + 2 => NumberIn(Tail(Line(top))) = m
  <2>1. size \in 0 .. 0 + 3 /\ 0 \in Nat /\ Star \in {Star, Dollar} /\ m \in NumberSymbols
    BY <1>1
  <2> QED
    BY <1>1, <1>3, <1>4, <2>1, CutLine
<1>6. /\ file = [bytes |-> f, at |-> a, good |-> Len(f) # size] /\ a \in Nat /\ a > size
      /\ At(Line(top), 0) = Star
      /\ size = 1 => NumberIn(Tail(Line(top))) = Nothing
      /\ size >= 2 => NumberIn(Tail(Line(top))) = m
  BY <1>5
<1>7. file \in Files(f) /\ file.bytes = f /\ file.at = a /\ (file.good <=> Len(f) # size)
  <2> DEFINE good == Len(f) # size
  <2>1. good \in BOOLEAN
    OBVIOUS
  <2>2. file = [bytes |-> f, at |-> a, good |-> good] /\ a \in Nat
    BY <1>6
  <2> HIDE DEF good, file, a
  <2>3. file \in Files(f) /\ file.bytes = f /\ file.at = a /\ file.good = good
    BY <2>1, <2>2 DEF Files
  <2> QED
    BY <2>3 DEF good
<1> HIDE DEF file
<1>8. CASE size = 1
  <2> DEFINE q == Place(file)
  <2>1. CountAt(f, 0) = Nothing
    BY <1>6, <1>8 DEF CountAt, top
  <2>2. g[0] = g[q]
    <3>1. g[0] = LoadStep(g, f, 0)
      BY <1>3 DEF Loads
    <3> QED
      BY <1>3, <2>1, <3>1 DEF LoadStep, NoHeader, top, file
  <2>3. IF Len(f) = size THEN q = size ELSE q \in size + 1 .. Len(f)
    <3>1. CASE Len(f) = size
      <4>1. AtEnd(file)
        BY <1>7, <3>1 DEF AtEnd
      <4>2. q = Len(f)
        BY <1>7, <4>1 DEF Place
      <4> QED
        BY <3>1, <4>2
    <3>2. CASE Len(f) # size
      <4>1. size + 10 <= Len(f) /\ a = size + 4
        BY <3>2 DEF AfterCut
      <4>2. ~AtEnd(file)
        BY <1>1, <1>7, <3>2, <4>1 DEF AtEnd
      <4>3. q = size + 4
        BY <1>7, <4>1, <4>2 DEF Place
      <4> HIDE DEF q
      <4> QED
        BY <1>1, <3>2, <4>1, <4>3
    <3> QED
      BY <3>1, <3>2
  <2>4. ~(size >= 4)
    OBVIOUS
  <2> HIDE DEF q
  <2>5. Outcome(g, f, r, size, q)
    BY <1>2, <2>2, <2>3, <2>4 DEF Outcome
  <2> QED
    BY <2>5
<1>9. CASE size >= 2
  <2> DEFINE s == ScanAt(f, 0)
             q == Place(s.file)
  <2>1. CountAt(f, 0) = m
    BY <1>6, <1>9 DEF CountAt, top
  <2>2. ~NoHeader(f, 0)
    BY <1>1, <2>1, MarksAre DEF NoHeader
  <2>3. s = Tokens(file, m)
    BY <2>1 DEF ScanAt, file, top
  <2>4. s \in LogScans(f)
    BY <1>3, <2>2, ScanIs DEF top
  <2>5. g[0] = FoundAt(f, 0) \o g[q] /\ FoundAt(f, 0) = IF IsRecord(s, m) THEN <<s.tokens>> ELSE << >>
    BY <1>3, <2>1, <2>2, GoingOn DEF FoundAt, top
  <2> HIDE DEF s
  <2>6. PICK h : Scanning(h, f, file, m) /\ h[m] = Tokens(file, m)
    BY <1>1, <1>7, TokenChain
  <2>7. Onward(h[0], h[m])
    <3>1. 0 \in 0 .. m /\ m \in 0 .. m
      BY <1>1
    <3> QED
      BY <1>1, <2>6, <3>1, ScanGoesOn
  <2>8. h[0].file = file /\ h[0].tokens = << >> /\ h[m] = s
    <3>1. h[0] = [tokens |-> << >>, file |-> file, stopped |-> "no"]
      BY <2>6 DEF Scanning
    <3> QED
      BY <2>3, <2>6, <3>1
  <2>9. s.file.at >= file.at /\ (AtEnd(file) => AtEnd(s.file) /\ s.tokens = << >>)
    BY <2>7, <2>8 DEF Onward
  <2>10. s.file.bytes = f /\ s.file.at \in Nat /\ s.tokens \in Seq(Seq(LogBytes))
    BY <2>4 DEF LogScans, Files
  <2>11. s.file.at > size
    BY <1>6, <1>7, <2>9, <2>10
  <2>12. IF Len(f) = size THEN q = size ELSE q \in size + 1 .. Len(f)
    <3>1. CASE Len(f) = size
      <4>1. AtEnd(s.file)
        BY <2>10, <2>11, <3>1 DEF AtEnd
      <4>2. q = Len(f)
        BY <2>10, <4>1 DEF Place
      <4> QED
        BY <3>1, <4>2
    <3>2. CASE Len(f) # size
      <4>1. size + 10 <= Len(f)
        BY <3>2 DEF AfterCut
      <4>2. CASE AtEnd(s.file)
        <5>1. q = Len(f)
          BY <2>10, <4>2 DEF Place
        <5> HIDE DEF q
        <5> QED
          BY <1>1, <3>2, <4>1, <5>1
      <4>3. CASE ~AtEnd(s.file)
        <5>1. q = s.file.at /\ s.file.at < Len(f)
          BY <1>1, <2>10, <4>3 DEF Place, AtEnd
        <5> HIDE DEF q
        <5> QED
          BY <1>1, <2>10, <2>11, <3>2, <5>1
      <4> QED
        BY <4>2, <4>3
    <3> QED
      BY <3>1, <3>2
  <2> HIDE DEF q
  <2>13. ASSUME IsRecord(s, m) PROVE CutFound(s.tokens, f, r, size)
    <3>1. Len(s.tokens) = m
      BY <2>13 DEF IsRecord
    <3>2. Spared(r, size) = {}
      <4>1. SUFFICES ASSUME NEW i \in Spared(r, size) PROVE FALSE
        OBVIOUS
      <4>2. size \in Nat
        OBVIOUS
      <4>3. i \in 1 .. m /\ off[i] <= size
        BY <4>2, SparedIs DEF m
      <4>4. off[i] \in Nat /\ off[i] >= 4
        BY <1>2, <4>3
      <4> QED
        BY <4>3, <4>4
    <3>3. Len(f) # size
      <4>1. SUFFICES ASSUME Len(f) = size PROVE FALSE
        OBVIOUS
      <4>2. AtEnd(file)
        BY <1>7, <4>1 DEF AtEnd
      <4>3. Len(s.tokens) = 0
        BY <2>9, <4>2
      <4> QED
        BY <1>1, <1>2, <3>1, <4>3
    <3>4. ~(size >= 4)
      OBVIOUS
    <3> QED
      BY <3>1, <3>2, <3>3, <3>4 DEF CutFound, m
  <2>14. \/ g[0] \in {g[q], << >> \o g[q]} /\ size < LastFrom(r)
         \/ \E ts \in Seq(Seq(LogBytes)) : g[0] = <<ts>> \o g[q] /\ CutFound(ts, f, r, size)
    <3>1. CASE IsRecord(s, m)
      BY <2>5, <2>10, <2>13, <3>1
    <3>2. CASE ~IsRecord(s, m)
      <4>1. g[0] = << >> \o g[q]
        BY <2>5, <3>2
      <4> QED
        BY <1>2, <4>1
    <3> QED
      BY <3>1, <3>2
  <2>15. ~(size >= 4)
    OBVIOUS
  <2>16. Outcome(g, f, r, size, q)
    BY <2>12, <2>14, <2>15 DEF Outcome
  <2> QED
    BY <2>16
<1> QED
  BY <1>8, <1>9

LEMMA CutOutcome ==
  ASSUME NEW r \in Records, NEW size \in 1 .. Len(RecordBytes(r)) - 1, NEW behind \in Seq(Records)
  PROVE  LET f == LogOf(r, size, behind) IN
         /\ f \in Text /\ size \in Nat /\ (Len(f) = size <=> behind = << >>)
         /\ \E g, start, q : /\ Loads(g, f) /\ Load(f) = g[0]
                             /\ BehindAt(f, size, behind, start) /\ Outcome(g, f, r, size, q)
<1> DEFINE f == LogOf(r, size, behind)
<1>1. /\ RecordBytes(r) \in Text /\ Len(RecordBytes(r)) \in Nat /\ size \in 1 .. Len(RecordBytes(r)) /\ size \in Nat
  BY StarFirst
<1>2. /\ f \in Text /\ Begins(f, 0, RecordBytes(r), size) /\ size <= Len(f)
      /\ \E start : BehindAt(f, size, behind, start)
      /\ AfterCut(f, size)
      /\ Len(f) = size <=> behind = << >>
  BY <1>1, LogIs
<1> HIDE DEF f
<1>3. PICK start : BehindAt(f, size, behind, start)
  BY <1>2
<1>4. PICK g : Loads(g, f) /\ Load(f) = g[0]
  BY <1>2, LoadIs
<1>5. PICK off : ArrayAt(RecordBytes(r), r, off)
  <2>1. r \in Seq(Strings)
    BY DEF Records
  <2> QED
    BY <2>1, ArrayLaidOut DEF RecordBytes
<1>6. \E q : Outcome(g, f, r, size, q)
  <2>1. CASE size \in 1 .. 3
    BY <1>2, <1>4, <1>5, <2>1, CutEarly
  <2>2. CASE size \notin 1 .. 3
    <3>1. size \in 4 .. Len(RecordBytes(r)) - 1
      BY <1>1, <2>2
    <3> QED
      BY <1>2, <1>4, <1>5, <3>1, CutLate
  <2> QED
    BY <2>1, <2>2
<1> QED
  BY <1>1, <1>2, <1>3, <1>4, <1>6 DEF f

\* A log that was not cut gives back its records.
LEMMA WholeLoad ==
  ASSUME NEW r \in Records, NEW behind \in Seq(Records)
  PROVE  Load(LogOf(r, Len(RecordBytes(r)), behind)) = <<r>> \o behind
<1> DEFINE full == RecordBytes(r)
           size == Len(full)
           f    == LogOf(r, size, behind)
<1>1. full \in Text /\ size \in Nat /\ size >= 10
  BY StarFirst
<1>2. size \in 1 .. size
  BY <1>1
<1>3. /\ f \in Text /\ Begins(f, 0, full, size) /\ size <= Len(f)
      /\ \E start : BehindAt(f, size, behind, start)
      /\ Len(f) = size <=> behind = << >>
  BY <1>2, LogIs
<1> HIDE DEF f
<1>4. PICK start : BehindAt(f, size, behind, start)
  BY <1>3
<1>5. PICK g : Loads(g, f) /\ Load(f) = g[0]
  BY <1>3, LoadIs
<1>6. Holds(f, 0, full)
  BY <1>3 DEF Begins, Holds
<1> HIDE DEF full, size
<1>7. g[0] = <<r>> \o IF size < Len(f) THEN g[size] ELSE << >>
  <2>1. LoadStep(g, f, 0) = <<r>> \o IF 0 + Len(full) < Len(f) THEN g[0 + Len(full)] ELSE << >>
    <3>1. 0 \in Nat
      OBVIOUS
    <3> QED
      BY <1>3, <1>6, <3>1, RecordRead DEF full
  <2>2. 0 + Len(full) = size
    BY <1>1 DEF size
  <2>3. 0 \in 0 .. Len(f)
    BY <1>3 DEF Text
  <2>4. g[0] = LoadStep(g, f, 0)
    BY <1>5, <2>3 DEF Loads
  <2> QED
    BY <2>1, <2>2, <2>4
<1>8. g[size] = behind
  <2>1. start[0] = size /\ 0 \in 0 .. Len(behind)
    BY <1>4 DEF BehindAt
  <2>2. g[start[0]] = RestOf(behind, 0)
    BY <1>1, <1>3, <1>4, <1>5, <2>1, RestRead
  <2>3. RestOf(behind, 0) = behind
    BY DEF RestOf
  <2> QED
    BY <2>1, <2>2, <2>3
<1>9. Len(f) \in Nat
  BY <1>3 DEF Text
<1> QED
  BY <1>1, <1>3, <1>5, <1>7, <1>8, <1>9 DEF f, size, full

\* From a place behind the cut on there are the last of the records, and all
\* but one from a place inside of the first.
LEMMA BehindCut ==
  ASSUME NEW f \in Text, NEW g, Loads(g, f), NEW size \in Nat, NEW behind \in Seq(Records), behind # << >>,
         NEW start, BehindAt(f, size, behind, start), NoStars(behind), Len(f) # size, NEW r, NEW q, Outcome(g, f, r, size, q)
  PROVE  \E k \in 1 .. Len(behind) : g[q] = RestOf(behind, k) /\ (Short(r) /\ size >= 4 => k = 1)
<1>1. q \in size + 1 .. Len(f) /\ (Short(r) /\ size >= 4 => q <= size + 10)
  BY DEF Outcome
<1>2. PICK k \in 1 .. Len(behind) : g[q] = RestOf(behind, k) /\ (q <= start[1] => k = 1)
  BY <1>1, RestFrom
<1>3. q <= size + 10 => q <= start[1]
  <2>1. 1 \in 1 .. Len(behind) /\ 1 - 1 = 0 /\ 1 \in 0 .. Len(behind)
    <3>1. SUFFICES ASSUME Len(behind) = 0 PROVE FALSE
      OBVIOUS
    <3>2. behind = << >>
      BY <3>1
    <3> QED
      BY <3>2
  <2> DEFINE b == behind[1]
  <2>2. b \in Records
    BY <2>1
  <2>3. start[1] = start[1 - 1] + Len(RecordBytes(b)) /\ start[0] = size
    BY <2>1 DEF BehindAt
  <2> HIDE DEF b
  <2>4. Len(RecordBytes(b)) \in Nat /\ Len(RecordBytes(b)) >= 10
    BY <2>2, StarFirst
  <2>5. start[1] >= size + 10 /\ start[1] \in Nat
    BY <2>1, <2>3, <2>4
  <2>6. q \in Nat
    <3>1. Len(f) \in Nat
      BY DEF Text
    <3> QED
      BY <1>1, <3>1
  <2> QED
    BY <2>5, <2>6
<1> QED
  BY <1>1, <1>2, <1>3

\* Of a record that was cut short, at whatever byte, the reader takes nothing,
\* or all of its tokens but for the bytes of the last one, for records of any
\* strings: AofManager.cpp:46-75.
THEOREM CutDamage == Spec => []CutDamagesLastToken
<1>1. Computed => CutDamagesLastToken
  <2>1. SUFFICES ASSUME Computed, input.family = "log", output # None, input.behind = << >>
                 PROVE  LET r == input.record IN
                        \/ output = << >> /\ input.size < LastFrom(r)
                        \/ /\ Len(output) = 1 /\ Len(output[1]) = Len(r)
                           /\ \A i \in 1 .. Len(r) - 1 : output[1][i] = r[i]
                           /\ input.size >= LastTo(r) => output[1] = r
    BY DEF CutDamagesLastToken
  <2> DEFINE r == input.record  size == input.size  behind == input.behind  f == LogOf(r, size, behind)
  <2>2. input \in LogInputs /\ output = LogResult(input)
    BY <2>1, InputOfFamily DEF Computed
  <2>3. r \in Records /\ behind \in Seq(Records) /\ size \in 1 .. Len(RecordBytes(r))
    BY <2>2, LogInputsAssumption
  <2>4. output = Load(f)
    BY <2>2 DEF LogResult, LogOf
  <2>5. behind = << >>
    BY <2>1
  <2> HIDE DEF r, size, behind, f
  <2>6. SUFFICES \/ output = << >> /\ size < LastFrom(r)
                 \/ /\ Len(output) = 1 /\ Len(output[1]) = Len(r)
                    /\ \A i \in 1 .. Len(r) - 1 : output[1][i] = r[i]
                    /\ size >= LastTo(r) => output[1] = r
    BY DEF r, size
  <2>7. CASE size = Len(RecordBytes(r))
    <3>1. output = <<r>> \o << >>
      BY <2>3, <2>4, <2>5, <2>7, WholeLoad DEF f
    <3>2. output = <<r>>
      BY <3>1
    <3> QED
      BY <3>2
  <2>8. CASE size # Len(RecordBytes(r))
    <3>1. Len(RecordBytes(r)) \in Nat
      BY <2>3, StarFirst
    <3>2. size \in 1 .. Len(RecordBytes(r)) - 1
      BY <2>3, <2>8, <3>1
    <3>3. /\ f \in Text /\ size \in Nat /\ Len(f) = size
          /\ \E g, start, q : Loads(g, f) /\ Load(f) = g[0] /\ BehindAt(f, size, behind, start) /\ Outcome(g, f, r, size, q)
      BY <2>3, <2>5, <3>2, CutOutcome DEF f
    <3>4. PICK g, start, q : Loads(g, f) /\ Load(f) = g[0] /\ Outcome(g, f, r, size, q)
      BY <3>3
    <3>5. g[q] = << >>
      <4>1. q = Len(f)
        BY <3>3, <3>4 DEF Outcome
      <4> QED
        BY <3>3, <3>4, <4>1, LoadAtEnd
    <3>6. CASE g[0] \in {g[q], << >> \o g[q]} /\ size < LastFrom(r)
      <4>1. output = << >>
        BY <2>4, <3>4, <3>5, <3>6
      <4> QED
        BY <3>6, <4>1
    <3>7. CASE \E ts \in Seq(Seq(LogBytes)) : g[0] = <<ts>> \o g[q] /\ CutFound(ts, f, r, size)
      <4>1. PICK ts \in Seq(Seq(LogBytes)) : g[0] = <<ts>> \o g[q] /\ CutFound(ts, f, r, size)
        BY <3>7
      <4>2. output = <<ts>>
        BY <2>4, <3>4, <3>5, <4>1
      <4>3. Len(ts) = Len(r) /\ (\A i \in 1 .. Len(r) - 1 : ts[i] = r[i]) /\ (size >= LastTo(r) => ts = r)
        BY <3>3, <4>1 DEF CutFound
      <4>4. Len(output) = 1 /\ output[1] = ts
        BY <4>2
      <4> QED
        BY <4>3, <4>4
    <3> QED
      BY <3>4, <3>6, <3>7 DEF Outcome
  <2> QED
    BY <2>7, <2>8
<1> QED
  BY <1>1, AlwaysComputed, PTL

\* A log gives back its records, and what one of them costs that was cut short
\* is at least one of those behind it, at most one that nobody wrote is found
\* in front of the rest, and short tokens cost no more than one, for any
\* records: AofManager.cpp:46-75.
THEOREM CutCosts == Spec => []CutCostsOneMore
<1>1. Computed => CutCostsOneMore
  <2>1. SUFFICES ASSUME Computed, input.family = "log", output # None
                 PROVE  LET r       == input.record
                            Rest(k) == SubSeq(input.behind, k + 1, Len(input.behind))
                        IN IF input.size = Len(RecordBytes(r)) THEN output = <<r>> \o input.behind
                           ELSE input.behind # << >> /\ NoStars(input.behind) =>
                             \E k \in 1 .. Len(input.behind) :
                               /\ \/ output = Rest(k) /\ input.size < LastFrom(r)
                                  \/ /\ output # << >> /\ Tail(output) = Rest(k) /\ Len(output[1]) = Len(r)
                                     /\ \A i \in Spared(r, input.size) : output[1][i] = r[i]
                               /\ Short(r) /\ input.size >= 4 =>
                                    k = 1 /\ (input.size < LastFrom(r) => output = Rest(k))
    BY DEF CutCostsOneMore
  <2> DEFINE r == input.record  size == input.size  behind == input.behind  f == LogOf(r, size, behind)
  <2>2. input \in LogInputs /\ output = LogResult(input)
    BY <2>1, InputOfFamily DEF Computed
  <2>3. r \in Records /\ behind \in Seq(Records) /\ size \in 1 .. Len(RecordBytes(r))
    BY <2>2, LogInputsAssumption
  <2>4. output = Load(f)
    BY <2>2 DEF LogResult, LogOf
  <2> HIDE DEF r, size, behind, f
  <2>5. CASE size = Len(RecordBytes(r))
    <3>1. output = <<r>> \o behind
      BY <2>3, <2>4, <2>5, WholeLoad DEF f
    <3> QED
      BY <2>5, <3>1 DEF r, size, behind
  <2>6. CASE size # Len(RecordBytes(r))
    <3>1. SUFFICES ASSUME behind # << >>, NoStars(behind)
                   PROVE  \E k \in 1 .. Len(behind) :
                            /\ \/ output = RestOf(behind, k) /\ size < LastFrom(r)
                               \/ /\ output # << >> /\ Tail(output) = RestOf(behind, k) /\ Len(output[1]) = Len(r)
                                  /\ \A i \in Spared(r, size) : output[1][i] = r[i]
                            /\ Short(r) /\ size >= 4 =>
                                 k = 1 /\ (size < LastFrom(r) => output = RestOf(behind, k))
      BY <2>6 DEF r, size, behind, RestOf
    <3>2. size \in 1 .. Len(RecordBytes(r)) - 1
      <4>1. Len(RecordBytes(r)) \in Nat
        BY <2>3, StarFirst
      <4> QED
        BY <2>3, <2>6, <4>1
    <3>3. /\ f \in Text /\ size \in Nat /\ Len(f) # size
          /\ \E g, start, q : Loads(g, f) /\ Load(f) = g[0] /\ BehindAt(f, size, behind, start) /\ Outcome(g, f, r, size, q)
      BY <2>3, <3>1, <3>2, CutOutcome DEF f
    <3>4. PICK g, start, q : Loads(g, f) /\ Load(f) = g[0] /\ BehindAt(f, size, behind, start) /\ Outcome(g, f, r, size, q)
      BY <3>3
    <3>5. PICK k \in 1 .. Len(behind) : g[q] = RestOf(behind, k) /\ (Short(r) /\ size >= 4 => k = 1)
      BY <2>3, <3>1, <3>3, <3>4, BehindCut
    <3> DEFINE rest == RestOf(behind, k)
    <3>6. rest \in Seq(Records)
      <4>1. k + 1 \in Nat /\ Len(behind) \in Nat
        BY <2>3
      <4> QED
        BY <2>3, <4>1 DEF RestOf
    <3> HIDE DEF rest
    <3>7. g[q] = rest /\ output = g[0]
      BY <2>4, <3>4, <3>5 DEF rest
    <3>8. CASE g[0] \in {g[q], << >> \o g[q]} /\ size < LastFrom(r)
      <4>1. output = rest
        <5>1. << >> \o rest = rest
          BY <3>6
        <5> QED
          BY <3>7, <3>8, <5>1
      <4> QED
        BY <3>5, <3>8, <4>1 DEF rest
    <3>9. CASE \E ts \in Seq(Seq(LogBytes)) : g[0] = <<ts>> \o g[q] /\ CutFound(ts, f, r, size)
      <4>1. PICK ts \in Seq(Seq(LogBytes)) : g[0] = <<ts>> \o g[q] /\ CutFound(ts, f, r, size)
        BY <3>9
      <4>2. output = <<ts>> \o rest
        BY <3>7, <4>1
      <4> DEFINE S == {ts} \cup Records
                 o == <<ts>> \o rest
      <4>3. <<ts>> \in Seq(S) /\ rest \in Seq(S)
        BY <3>6
      <4> HIDE DEF S
      <4>4. o \in Seq(S) /\ Len(o) = 1 + Len(rest) /\ o[1] = ts /\ Len(rest) \in Nat
            /\ \A i \in 1 .. Len(rest) : o[1 + i] = rest[i]
        BY <4>3
      <4> HIDE DEF o
      <4>5. o # << >>
        <5>1. SUFFICES ASSUME o = << >> PROVE FALSE
          OBVIOUS
        <5>2. Len(o) = Len(<< >>) /\ Len(<< >>) = 0
          BY <5>1
        <5> QED
          BY <4>4, <5>2
      <4> DEFINE t == Tail(o)
      <4>6. t \in Seq(S) /\ Len(t) = Len(o) - 1 /\ \A i \in 1 .. Len(t) : t[i] = o[i + 1]
        BY <4>4, <4>5, HeadTailProperties
      <4> HIDE DEF t
      <4>7. t = rest
        <5>1. Len(t) = Len(rest)
          BY <4>4, <4>6
        <5>2. \A i \in 1 .. Len(rest) : t[i] = rest[i]
          <6>1. ASSUME NEW i \in 1 .. Len(rest) PROVE t[i] = rest[i]
            <7>1. i + 1 = 1 + i
              OBVIOUS
            <7>2. t[i] = o[i + 1]
              BY <4>6, <5>1
            <7> QED
              BY <4>4, <7>1, <7>2
          <6> QED
            BY <6>1
        <5> QED
          BY <4>3, <4>6, <5>1, <5>2, SeqEqual
      <4>8. Len(ts) = Len(r) /\ (\A i \in Spared(r, size) : ts[i] = r[i])
            /\ (Short(r) /\ size >= 4 => size >= LastFrom(r))
        BY <3>3, <4>1 DEF CutFound
      <4>9. LastFrom(r) \in Int
        <5>1. PICK off : ArrayAt(RecordBytes(r), r, off)
          <6>1. r \in Seq(Strings)
            BY <2>3 DEF Records
          <6> QED
            BY <6>1, ArrayLaidOut DEF RecordBytes
        <5>2. off[Len(r) - 1] \in Nat /\ LastFrom(r) = off[Len(r) - 1] + 2
          BY <2>3, <5>1, LastIs
        <5> QED
          BY <5>2
      <4>10. Short(r) /\ size >= 4 => ~(size < LastFrom(r))
        BY <3>3, <4>8, <4>9
      <4>11. output # << >> /\ Tail(output) = RestOf(behind, k) /\ output[1] = ts
        BY <4>2, <4>4, <4>5, <4>7 DEF o, t, rest
      <4> QED
        BY <3>5, <4>8, <4>10, <4>11
    <3> QED
      BY <3>4, <3>8, <3>9 DEF Outcome
  <2> QED
    BY <2>5, <2>6
<1> QED
  BY <1>1, AlwaysComputed, PTL
=============================================================================
