--------------------------- MODULE CommandParser ---------------------------
(***************************************************************************)
(* CommandParser::execute past the authentication: the tokens of a         *)
(* command, checked and converted to its arguments, what the command does  *)
(* to the store, what it answers, what of it is logged and how many reads  *)
(* or writes the metrics count.                                            *)
(*                                                                         *)
(* A command is the record Decode makes of a name (in upper case, as it is *)
(* compared) and the tokens behind it.  SETEX decodes to SET with EX,      *)
(* which is what it does and logs, and INCR and DECR to INCRBY.  The       *)
(* commands of the server itself (AUTH, PING, INFO, QUIT, BGREWRITEAOF)    *)
(* are not here.                                                           *)
(***************************************************************************)
EXTENDS StoreOps

CONSTANT EX   \* the word EX, in any spelling

-----------------------------------------------------------------------------
(* From tokens to a command                                                *)

\* Error replies, as commands that only answer.
Wrong(why) == [cmd |-> "error", why |-> why]

\* The number of tokens behind the name that each command accepts.
ArityOK(name, n) ==
  CASE name \in {"GET", "LPOP", "RPOP", "LLEN", "HLEN", "HGETALL", "EXISTS",
                 "TTL", "INCR", "DECR"} -> n = 1
    [] name \in {"HGET", "HDEL", "HEXISTS", "EXPIRE", "INCRBY"} -> n = 2
    [] name \in {"SETEX", "HSET", "LRANGE"} -> n = 3
    [] name \in {"MGET", "DEL"} -> n >= 1
    [] name \in {"SET", "LPUSH", "RPUSH"} -> n >= 2
    [] name = "MSET" -> n >= 2 /\ n % 2 = 0
    [] OTHER -> name \in {"DBSIZE", "FLUSHDB"}

\* SET k v EX seconds; any other option, or EX without seconds, is ignored.
WithEx(a) == Len(a) >= 4 /\ a[3] = EX

\* The tokens std::stoll must convert before anything is done.
Numerals(name, a) ==
  CASE name = "SETEX" -> {a[2]}
    [] name = "SET" /\ WithEx(a) -> {a[4]}
    [] name \in {"INCRBY", "EXPIRE"} -> {a[2]}
    [] name = "LRANGE" -> {a[2], a[3]}
    [] OTHER -> {}

\* The command that a name and the tokens behind it make.
Decode(name, a) ==
  CASE ~ArityOK(name, Len(a)) -> Wrong("arity")
    [] ArityOK(name, Len(a)) /\ \E n \in Numerals(name, a) : Stoll(n) = None -> Wrong("integer")
    [] OTHER ->
       CASE name = "SET"    -> [cmd |-> "SET", key |-> a[1], val |-> a[2],
                                ttl |-> IF WithEx(a) THEN Stoll(a[4]) ELSE None]
         [] name = "SETEX"  -> [cmd |-> "SET", key |-> a[1], val |-> a[3], ttl |-> Stoll(a[2])]
         [] name = "MSET"   -> [cmd |-> "MSET",
                                pairs |-> [i \in 1 .. Len(a) \div 2 |-> <<a[2 * i - 1], a[2 * i]>>]]
         [] name \in {"DEL", "MGET"} -> [cmd |-> name, keys |-> a]
         [] name = "EXPIRE" -> [cmd |-> "EXPIRE", key |-> a[1], ttl |-> Stoll(a[2])]
         [] name = "INCR"   -> [cmd |-> "INCRBY", key |-> a[1], delta |-> 1]
         [] name = "DECR"   -> [cmd |-> "INCRBY", key |-> a[1], delta |-> -1]
         [] name = "INCRBY" -> [cmd |-> "INCRBY", key |-> a[1], delta |-> Stoll(a[2])]
         [] name = "HSET"   -> [cmd |-> "HSET", key |-> a[1], field |-> a[2], val |-> a[3]]
         [] name \in {"HGET", "HDEL", "HEXISTS"} -> [cmd |-> name, key |-> a[1], field |-> a[2]]
         [] name \in {"LPUSH", "RPUSH"} -> [cmd |-> name, key |-> a[1], vals |-> Tail(a)]
         [] name = "LRANGE" -> [cmd |-> name, key |-> a[1], start |-> Stoll(a[2]), stop |-> Stoll(a[3])]
         [] name \in {"DBSIZE", "FLUSHDB"} -> [cmd |-> name]
         [] OTHER -> [cmd |-> name, key |-> a[1]]

-----------------------------------------------------------------------------
(* What a command does to the store                                        *)

AfterCommand(st, c, now) ==
  CASE c.cmd = "SET"    -> AfterSet(st, c.key, c.val, c.ttl, now)
    [] c.cmd = "MSET"   -> SetAll(st, c.pairs, now)
    [] c.cmd = "GET"    -> AfterGet(st, c.key, now)
    [] c.cmd = "MGET"   -> GetAll(st, c.keys, now)
    [] c.cmd = "DEL"    -> DelAll(st, c.keys)
    [] c.cmd = "EXPIRE" -> AfterExpire(st, c.key, c.ttl, now)
    [] c.cmd = "TTL"    -> IF Expired(st.str[c.key], now) THEN AfterErase(st, c.key) ELSE st
    [] c.cmd = "INCRBY" -> AfterIncr(st, c.key, c.delta, now)
    [] c.cmd = "HSET"   -> AfterHSet(st, c.key, c.field, c.val)
    [] c.cmd = "HDEL"   -> AfterHDel(st, c.key, c.field)
    [] c.cmd = "LPUSH"  -> LPushAll(st, c.key, c.vals)
    [] c.cmd = "RPUSH"  -> RPushAll(st, c.key, c.vals)
    [] c.cmd = "LPOP"   -> AfterLPop(st, c.key)
    [] c.cmd = "RPOP"   -> AfterRPop(st, c.key)
    [] c.cmd = "FLUSHDB" -> EmptyStore
    [] OTHER            -> st

-----------------------------------------------------------------------------
(* What it answers                                                         *)

Bulk(v)    == IF v = None THEN <<"null">> ELSE <<"bulk", v>>
Count(n)   == <<"int", n>>
Flag(b)    == <<"int", IF b THEN 1 ELSE 0>>
Array(s)   == <<"array", s>>   \* None for a null among the items
Status     == <<"ok">>
Failure(w) == <<"error", w>>

DbSize(st, now) ==
    Cardinality({k \in Keys : Live(st.str[k], now)})
  + Cardinality({k \in Keys : st.hash[k] # None})
  + Cardinality({k \in Keys : st.list[k] # None})

Reply(st, c, now) ==
  CASE c.cmd = "error"  -> Failure(c.why)
    [] c.cmd \in {"SET", "MSET", "FLUSHDB"} -> Status
    [] c.cmd = "GET"    -> Bulk(GetReply(st, c.key, now))
    [] c.cmd = "MGET"   -> Array([i \in DOMAIN c.keys |-> GetReply(st, c.keys[i], now)])
    [] c.cmd = "DEL"    -> Count(Cardinality({k \in ToSet(c.keys) : DelReply(st, k)}))
    [] c.cmd = "EXISTS" -> Flag(ExistsReply(st, c.key, now))
    [] c.cmd = "EXPIRE" -> Flag(ExpireReply(st, c.key, now))
    [] c.cmd = "TTL"    -> Count(TtlReply(st, c.key, now))
    [] c.cmd = "INCRBY" -> LET r == IncrReply(st, c.key, c.delta, now)
                           IN IF r.ok THEN Count(r.val) ELSE Failure("integer")
    [] c.cmd = "HSET"   -> Flag(HGetReply(st, c.key, c.field) = None)
    [] c.cmd = "HGET"   -> Bulk(HGetReply(st, c.key, c.field))
    [] c.cmd \in {"HDEL", "HEXISTS"} -> Flag(HGetReply(st, c.key, c.field) # None)
    [] c.cmd = "HLEN"   -> Count(HLenReply(st, c.key))
    [] c.cmd = "HGETALL" -> Array(FlattenSeq(SetToSeq(HGetAllReply(st, c.key))))
    [] c.cmd \in {"LPUSH", "RPUSH"} -> Count(Len(ListOf(st, c.key)) + Len(c.vals))
    [] c.cmd = "LPOP"   -> Bulk(LPopReply(st, c.key))
    [] c.cmd = "RPOP"   -> Bulk(RPopReply(st, c.key))
    [] c.cmd = "LLEN"   -> Count(Len(ListOf(st, c.key)))
    [] c.cmd = "LRANGE" -> Array(LRange(ListOf(st, c.key), c.start, c.stop))
    [] c.cmd = "DBSIZE" -> Count(DbSize(st, now))

-----------------------------------------------------------------------------
(* What is logged and counted                                              *)

WriteCommands == {"SET", "MSET", "DEL", "EXPIRE", "INCRBY", "HSET", "HDEL",
                  "LPUSH", "RPUSH", "LPOP", "RPOP", "FLUSHDB"}

\* Mutant: HSET is logged only when the field is new.
LoggedIfNew(st, c, now) ==
  /\ c.cmd \in WriteCommands
  /\ c.cmd = "HSET" => HGetReply(st, c.key, c.field) = None

\* A command that found nothing to change is not logged; SET, MSET, HSET,
\* the pushes and FLUSHDB always are.
Logged(st, c, now) ==
  /\ c.cmd \in WriteCommands
  /\ c.cmd = "DEL"    => \E i \in DOMAIN c.keys : DelReply(st, c.keys[i])
  /\ c.cmd = "EXPIRE" => ExpireReply(st, c.key, now)
  /\ c.cmd = "INCRBY" => IncrReply(st, c.key, c.delta, now).ok
  /\ c.cmd = "HDEL"   => HGetReply(st, c.key, c.field) # None
  /\ c.cmd = "LPOP"   => LPopReply(st, c.key) # None
  /\ c.cmd = "RPOP"   => RPopReply(st, c.key) # None

\* The calls of on_write_op and on_read_op.
WriteOps(st, c, now) ==
  CASE c.cmd = "MSET" -> Len(c.pairs)
    [] c.cmd \in {"LPUSH", "RPUSH"} -> Len(c.vals)
    [] c.cmd = "INCRBY" -> IF IncrReply(st, c.key, c.delta, now).ok THEN 1 ELSE 0
    [] OTHER -> IF c.cmd \in WriteCommands THEN 1 ELSE 0

ReadOps(c) ==
  CASE c.cmd = "MGET" -> Len(c.keys)
    [] c.cmd \in {"GET", "HGET", "HEXISTS", "HLEN", "HGETALL", "LLEN", "LRANGE",
                  "EXISTS", "TTL"} -> 1
    [] OTHER -> 0
=============================================================================
