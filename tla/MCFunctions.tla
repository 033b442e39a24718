----------------------------- MODULE MCFunctions -----------------------------
(* Values for the constants of ServerFunctions that a .cfg cannot write.   *)
EXTENDS ServerFunctions, MCStoreOps

CONSTANTS x, y   \* characters with no meaning of their own

MCStollOfAll == EX :> None @@ MCStollOf
MCNumberSymbols == -12 .. 40

SeqsUpTo(S, n) == UNION {[1 .. m -> S] : m \in 0 .. n}

MCRangeInputs ==
  [family : {"lrange"}, list : SeqsUpTo({0, 1}, 3), start : -5 .. 5, stop : -5 .. 5]

-----------------------------------------------------------------------------
(* Commands on small stores                                                *)

K1 == CHOOSE k \in Keys : TRUE

\* The arguments each command is given, besides those that are too many or
\* too few.
ArgumentsOf ==
  [ SET     |-> {<<k, v>> : k \in {K1}, v \in {0, word}} \cup {<<K1, 0, EX>>, <<K1, 0, word, 1>>}
                  \cup {<<K1, 0, EX, n>> : n \in {-1, 0, 1, word}},
    SETEX   |-> {<<K1, n, 0>> : n \in {-1, 1, word}},
    GET     |-> {<<k>> : k \in Keys},
    MGET    |-> {<<k, j>> : k, j \in Keys},
    MSET    |-> {<<k, 0, j, word>> : k, j \in Keys},
    DEL     |-> {<<k, j>> : k, j \in Keys},
    EXISTS  |-> {<<K1>>},
    EXPIRE  |-> {<<K1, n>> : n \in {-1, 0, 1, word}},
    TTL     |-> {<<K1>>},
    INCR    |-> {<<K1>>},
    DECR    |-> {<<K1>>},
    INCRBY  |-> {<<K1, n>> : n \in {1, word, digits}},
    HSET    |-> {<<K1, f, 0>> : f \in Fields},
    HGET    |-> {<<K1, f>> : f \in Fields},
    HDEL    |-> {<<K1, f>> : f \in Fields},
    HEXISTS |-> {<<K1, f>> : f \in Fields},
    HLEN    |-> {<<K1>>},
    HGETALL |-> {<<K1>>},
    LPUSH   |-> {<<K1, 0, word>>},
    RPUSH   |-> {<<K1, 0, word>>},
    LPOP    |-> {<<K1>>},
    RPOP    |-> {<<K1>>},
    LLEN    |-> {<<K1>>},
    LRANGE  |-> {<<K1, 0, -1>>, <<K1, 1, word>>},
    DBSIZE  |-> {<< >>},
    FLUSHDB |-> {<< >>} ]

\* One argument less, and one more.
AroundArity(name) ==
  LET more == IF name \in {"DEL", "MGET"} THEN K1 ELSE 0
  IN UNION {{a, Append(a, more)} \cup (IF a = << >> THEN {} ELSE {Front(a)}) : a \in ArgumentsOf[name]}

Entry(v, at) == [value |-> v, expires_at |-> at, last_accessed |-> 0]

\* One key has anything in its three maps, the others a string or nothing.
SmallStores ==
  {[str |-> s, hash |-> [k \in Keys |-> IF k = K1 THEN h ELSE None],
               list |-> [k \in Keys |-> IF k = K1 THEN l ELSE None]] :
     s \in {g \in [Keys -> {None, Entry(0, None), Entry(word, None), Entry(1, Now), Entry(1, Now + 1)}] :
              \A k \in Keys \ {K1} : g[k] \in {None, Entry(0, None)}},
     h \in {None} \cup {[NoFields EXCEPT ![f] = word] : f \in Fields},
     l \in {None, <<0>>, <<1, word>>}}

MCCommandInputs ==
  UNION {[family : {"command"}, name : {n}, args : AroundArity(n), store : SmallStores] :
           n \in DOMAIN ArgumentsOf}

-----------------------------------------------------------------------------
(* Requests                                                                *)

Payloads == SeqsUpTo({x, CR, LF, Star}, 2) \cup {<<x, Blank, Quote>>, <<Dollar, 1, CR, LF>>}

\* The first symbols of a request in the form of an array.
MCArrayInputs ==
  UNION {[family : {"array"}, tokens : {t}, size : 0 .. Len(serialize_array(t))] :
           t \in {<<p>> : p \in Payloads} \cup (Payloads \X {<< >>, <<x>>, <<CR, LF>>})}

\* Arrays that no serializer writes.
MalformedText(count, len, next) ==
  <<Star, count>> \o End \o <<Dollar, len>> \o End \o <<x>> \o End \o <<Dollar, next>> \o End

MCTextInputs ==
  [family : {"text"},
   text : {MalformedText(count, len, next) : count \in -1 .. 3, len \in -12 .. 3, next \in -12 .. 2}]

\* Words between quotes, with one or two spaces between them.
MCQuotedInputs ==
  LET QuotedBy(q) == [quote : {q}, word : SeqsUpTo({x, Blank, Star} \cup ({Quote, Tick} \ {q}), 2) \ {<< >>}]
      words     == QuotedBy(Quote) \cup QuotedBy(Tick)
  IN [family : {"quoted"}, words : {<<w>> : w \in words} \cup (words \X words), gap : 1 .. 2]

-----------------------------------------------------------------------------
(* Replies and the log                                                     *)

MCReplyInputs ==
  LET bulks   == {<< >>, <<x>>, <<CR, LF>>, <<Dollar, -1, CR, LF>>}
      replies == {<<"ok", <<x>>>>, <<"error", <<x, Blank, y>>>>, <<"int", 7>>, <<"null">>}
                   \cup {<<"bulk", b>> : b \in bulks}
                   \cup {<<"array", a>> : a \in SeqsUpTo(bulks \cup {Nothing}, 2)}
  IN [family : {"replies"}, first : replies, second : replies]

\* A record that was cut, and what was appended behind it.
MCLogInputs ==
  LET words   == {<<x>>, <<LF>>, <<x, y>>, <<Dollar, 1>>}
      records == {<<<<x>>, w>> : w \in words} \cup {<<v, <<y>>, w>> : v \in words, w \in words} \cup {<<<<y>>>>}
  IN UNION {[family : {"log"}, record : {r}, size : 1 .. Len(RecordBytes(r)),
             behind : {<< >>} \cup {<<s, <<<<y>>, <<x>>>>>> : s \in records}] : r \in records}
=============================================================================
