--------------------------- MODULE ServerFunctions ---------------------------
(***************************************************************************)
(* The functions of the server that keep no state, each against what it    *)
(* promises: LRANGE, the commands of CommandParser on a store, the parser  *)
(* and the serializer of RESP, and the reader of the log.  A behaviour     *)
(* chooses an input and applies the function to it.                        *)
(*                                                                         *)
(* The inputs are parameters.  What is assumed of them is all that the     *)
(* properties need, and what their callers give them.                      *)
(***************************************************************************)
EXTENDS CommandParser, AofFormat

CONSTANTS
  RangeInputs,      \* lists and indices
  CommandInputs,    \* commands and the stores they find
  ArrayInputs,      \* requests in the form of an array, and how much of them is there
  TextInputs,       \* text that is read as an array, whatever it is
  QuotedInputs,     \* words between quotes
  ReplyInputs,      \* pairs of replies
  LogInputs,        \* records, how much of them is there, and what follows them
  Now               \* the time of the commands

VARIABLES input, output
vars == <<input, output>>

-----------------------------------------------------------------------------
(* LRANGE                                                                  *)

ASSUME RangeInputsAssumption ==
  RangeInputs \subseteq [family : {"lrange"}, list : Lists, start : Int, stop : Int]

ComputeRange ==
  /\ input.family = "lrange"
  /\ output' = LRange(input.list, input.start, input.stop)

\* The position, from 0, that an index of the command names.
PositionOf(i, len) == IF i < 0 THEN len + i ELSE i

\* README.md:227, LRANGE with positive and negative indices: the reply has
\* the elements whose position is between those the two indices name, in the
\* order of the list; clamping loses none and never reads outside the deque.
LRangeIsSlice ==
  input.family = "lrange" /\ output # None =>
    LET l      == input.list
        start  == PositionOf(input.start, Len(l))
        stop   == PositionOf(input.stop, Len(l))
        Within == {i \in 1 .. Len(l) : start <= i - 1 /\ i - 1 <= stop}
        first  == CHOOSE i \in Within : \A j \in Within : i <= j
    IN /\ Len(output) = Cardinality(Within)
       /\ \A i \in 1 .. Len(output) : output[i] = l[first + i - 1]

-----------------------------------------------------------------------------
(* Commands                                                                *)

\* What the i-th token behind a name has to be.
TokenType(name, i) ==
  CASE name \in {"DEL", "MGET"} -> Keys
    [] name = "MSET" -> IF i % 2 = 1 THEN Keys ELSE Values
    [] name \in {"DBSIZE", "FLUSHDB"} -> Values
    [] OTHER -> IF i = 1 THEN Keys
                ELSE IF i = 2 /\ name \in {"HSET", "HGET", "HDEL", "HEXISTS"} THEN Fields ELSE Values

\* Any number of tokens, and if it is one that the command accepts they are
\* of their types; a store as the methods leave it, without empty containers.
ASSUME CommandInputsAssumption ==
  /\ Now \in Nat
  /\ \A i \in CommandInputs :
       /\ i.family = "command"
       /\ i.args \in Seq(Keys \cup Fields \cup Values)
       /\ ArityOK(i.name, Len(i.args)) => \A n \in DOMAIN i.args : i.args[n] \in TokenType(i.name, n)
       /\ i.store \in Stores
       /\ \A k \in Keys : i.store.hash[k] # NoFields /\ i.store.list[k] # << >>

ComputeCommand ==
  /\ input.family = "command"
  /\ LET c == Decode(input.name, input.args) IN
     output' = [command |-> c,
                after   |-> AfterCommand(input.store, c, Now),
                reply   |-> Reply(input.store, c, Now),
                logged  |-> Logged(input.store, c, Now),
                writes  |-> WriteOps(input.store, c, Now),
                reads   |-> ReadOps(c)]

Executed == input.family = "command" /\ output # None

\* What clients can read of a store.
Readings(st) ==
  [strings |-> [k \in Keys |-> GetReply(st, k, Now)],
   ttls    |-> [k \in Keys |-> TtlReply(st, k, Now)],
   hashes  |-> [k \in Keys |-> HGetAllReply(st, k)],
   lists   |-> [k \in Keys |-> ListOf(st, k)],
   exist   |-> [k \in Keys |-> ExistsReply(st, k, Now)]]

\* The clock stands still: an entry that has expired shows in nothing but
\* what TTL says of a key that is a hash or a list as well.
Visible(st) == [Readings(st) EXCEPT !.ttls =
  [k \in Keys |-> IF Expired(st.str[k], Now) THEN TtlReply(AfterErase(st, k), k, Now) ELSE @[k]]]

\* Nothing that a client can read changes unless the command is logged and
\* counted as a write and as no read, and a command that answers an error has
\* changed nothing.
ChangesAreLogged ==
  Executed /\ Visible(output.after) # Visible(input.store) =>
    /\ output.logged /\ output.reply[1] # "error"
    /\ output.writes > 0 /\ output.reads = 0

\* The deadline fits the clock.
InTime(ttl) == ttl # None /\ ttl > 0 => Now + ttl * TicksPerSecond <= TimeMax

\* The reply r says what later commands find: it was given to c on the store
\* st, and the command left the store after.
Keeps(st, c, r, after) ==
  CASE c.cmd = "SET"    -> InTime(c.ttl) => GetReply(after, c.key, Now) = c.val
    [] c.cmd = "MSET"   -> \A k \in Keys :
                             LET Of == {i \in DOMAIN c.pairs : c.pairs[i][1] = k} IN
                             GetReply(after, k, Now) = IF Of = {} THEN GetReply(st, k, Now)
                                                       ELSE c.pairs[Max(Of)][2]
    [] c.cmd = "DEL"    -> /\ \A i \in DOMAIN c.keys : ~ExistsReply(after, c.keys[i], Now)
                           /\ r[2] >= Cardinality({k \in Keys : ExistsReply(st, k, Now)
                                                                /\ ~ExistsReply(after, k, Now)})
    [] c.cmd = "EXPIRE" -> r[2] = 1 /\ c.ttl > 0 /\ InTime(c.ttl) => TtlReply(after, c.key, Now) = c.ttl
    [] c.cmd = "INCRBY" -> r[1] = "int" => Stoll(GetReply(after, c.key, Now)) = r[2]
    [] c.cmd = "HSET"   -> HLenReply(after, c.key) = HLenReply(st, c.key) + r[2]
    [] c.cmd = "HDEL"   -> HLenReply(after, c.key) = HLenReply(st, c.key) - r[2]
    [] c.cmd \in {"LPUSH", "RPUSH"} -> Len(ListOf(after, c.key)) = r[2]
    [] c.cmd \in {"LPOP", "RPOP"} ->
         /\ r[1] = "null" <=> ListOf(st, c.key) = << >>
         /\ ListOf(after, c.key) = << >> =>
              (ExistsReply(after, c.key, Now) <=>
                 GetReply(after, c.key, Now) # None \/ HLenReply(after, c.key) > 0)
    [] c.cmd = "FLUSHDB" -> DbSize(after, Now) = 0
    [] OTHER -> Visible(after) = Visible(st)

\* What the reply to a command says is what later commands find.
RepliesAreTrue ==
  Executed => Keeps(input.store, output.command, output.reply, output.after)

-----------------------------------------------------------------------------
(* Requests                                                                *)

\* Strings whose length can be written.
Strings == {s \in Text : Len(s) \in NumberSymbols}

\* Some tokens, and a request that has no more bytes than a size can say.
ASSUME ArrayInputsAssumption ==
  \A i \in ArrayInputs :
    /\ i.family = "array"
    /\ i.tokens \in Seq(Strings) \ {<< >>} /\ Len(i.tokens) \in NumberSymbols
    /\ Len(serialize_array(i.tokens)) <= SizeMax
    /\ i.size \in 0 .. Len(serialize_array(i.tokens))

\* The first bytes of the request, which may be all of them.
Arrived(i) == SubSeq(serialize_array(i.tokens), 1, i.size)

ComputeArray ==
  /\ input.family = "array"
  /\ output' = parse_request(Arrived(input))

\* A request that the serializer wrote is read as the tokens it was written
\* from, whatever bytes they have, when no more than the end of its last line
\* is missing.  One cut earlier is never taken for an array, not even for one
\* of fewer strings: parse_request reads it as plain text.
RespRoundTrip ==
  input.family = "array" /\ output # None =>
    output = IF input.size >= Len(serialize_array(input.tokens)) - 2
             THEN input.tokens ELSE parse_plain_text(Arrived(input))

\* Whatever begins like an array.  A number is an int, so adding one to a
\* place in the text stays below the greatest size, and subtracting it from
\* a size that has wrapped stays above any place.
ASSUME TextInputsAssumption ==
  \A i \in TextInputs :
    /\ i.family = "text"
    /\ i.text \in Text /\ i.text # << >> /\ i.text[1] = Star
    /\ \A n \in NumberSymbols : Len(i.text) + n <= SizeMax /\ Len(i.text) - n <= SizeMax

ComputeText ==
  /\ input.family = "text"
  /\ output' = ArrayScan(input.text)

\* RespParser.cpp:64: whatever lengths a request gives, the parser stays
\* inside of it, and takes no more tokens than the request announces.
ReadsInside ==
  input.family = "text" /\ output # None =>
    LET count == NumberLine(input.text, 1) IN
    /\ output.at \in 0 .. Len(input.text)
    /\ Len(output.tokens) <= IF count = Nothing \/ count < 0 THEN 0 ELSE count

\* Words that are not empty and have neither line ends nor the quote that is
\* put around them.
ASSUME QuotedInputsAssumption ==
  \A i \in QuotedInputs :
    /\ i.family = "quoted"
    /\ i.words \in Seq([quote : {Quote, Tick}, word : Text]) \ {<< >>}
    /\ \A n \in DOMAIN i.words :
         /\ i.words[n].word # << >>
         /\ Range(i.words[n].word) \cap {CR, LF, i.words[n].quote} = {}
    /\ i.gap \in Nat \ {0}

Between(w) == <<w.quote>> \o w.word \o <<w.quote>>

\* The words, each but the first behind a gap.
Quoted(words, gap) ==
  Between(words[1])
    \o FlattenSeq([i \in 1 .. Len(words) - 1 |-> [j \in 1 .. gap |-> Blank] \o Between(words[i + 1])])

ComputeQuoted ==
  /\ input.family = "quoted"
  /\ output' = parse_request(Quoted(input.words, input.gap) \o End)

\* In plain text any word that is not empty can be sent between quotes, with
\* spaces and quotes of the other kind in it.
QuotedTextRoundTrip ==
  input.family = "quoted" /\ output # None =>
    output = [i \in DOMAIN input.words |-> input.words[i].word]

-----------------------------------------------------------------------------
(* Replies                                                                 *)

\* The replies of the server: the text of a status or an error is one line.
Lines   == {l \in Text : LF \notin Range(l)}
Replies ==
       {"ok", "error"} \X Lines \cup {"int"} \X NumberSymbols \cup {<<"null">>}
  \cup {"bulk"} \X Strings
  \cup {"array"} \X {a \in Seq(Strings \cup {Nothing}) : Len(a) \in NumberSymbols}

ASSUME ReplyInputsAssumption ==
  ReplyInputs \subseteq [family : {"replies"}, first : Replies, second : Replies]

ComputeReplies ==
  /\ input.family = "replies"
  /\ output' = Serialize(input.first) \o Serialize(input.second)

\* A client of RESP2: the reply at p and the place behind it.
UpToCrLf(s, p) == SubSeq(s, p + 1, NextCrLf(s, p))

ReadBulk(s, p) ==
  LET n == s[p + 2]  from == p + 4 IN
  IF n = -1 THEN [value |-> Nothing, next |-> from]
  ELSE [value |-> SubSeq(s, from + 1, from + n), next |-> from + n + 2]

ReadItems(s, p, n) ==
  LET item[i \in 0 .. n] ==
        IF i = 0 THEN [value |-> << >>, next |-> p]
        ELSE LET b == ReadBulk(s, item[i - 1].next)
             IN [value |-> Append(item[i - 1].value, b.value), next |-> b.next]
  IN item[n]

ReadReply(s, p) ==
  LET line  == UpToCrLf(s, p + 1)
      next  == NextCrLf(s, p + 1) + 2
      items == ReadItems(s, next, line[1])
      bulk  == ReadBulk(s, p)
  IN CASE s[p + 1] = Plus   -> [reply |-> <<"ok", line>>, next |-> next]
       [] s[p + 1] = Minus  -> [reply |-> <<"error", line>>, next |-> next]
       [] s[p + 1] = Colon  -> [reply |-> <<"int", line[1]>>, next |-> next]
       [] s[p + 1] = Star   -> [reply |-> <<"array", items.value>>, next |-> items.next]
       [] s[p + 1] = Dollar ->
            [reply |-> IF bulk.value = Nothing THEN <<"null">> ELSE <<"bulk", bulk.value>>,
             next |-> bulk.next]

\* Two replies sent one behind the other are read as those two, whatever
\* bytes the strings in them have.
PipelinedRepliesAreFramed ==
  input.family = "replies" /\ output # None =>
    LET first  == ReadReply(output, 0)
        second == ReadReply(output, first.next)
    IN /\ first.reply = input.first
       /\ second.reply = input.second
       /\ second.next = Len(output)

-----------------------------------------------------------------------------
(* The log                                                                 *)

\* A record, how much of it was written before a cut, and the records that
\* were appended behind it.
Records == {r \in Seq(Strings) : r # << >> /\ Len(r) \in NumberSymbols}

ASSUME LogInputsAssumption ==
  \A i \in LogInputs :
    /\ i.family = "log"
    /\ i.record \in Records /\ i.behind \in Seq(Records)
    /\ i.size \in 1 .. Len(RecordBytes(i.record))

ComputeLog ==
  /\ input.family = "log"
  /\ output' = Load(SubSeq(RecordBytes(input.record), 1, input.size)
                      \o FlattenSeq([i \in DOMAIN input.behind |-> RecordBytes(input.behind[i])]))

\* The bytes of the last token end before the last CRLF.  Its length is
\* there, with or without its CRLF, from LastFrom on.
LastTo(r)   == Len(RecordBytes(r)) - 2
LastFrom(r) == LastTo(r) - Len(r[Len(r)]) - 2

\* AofManager.cpp:46-75: of a record that was cut short the reader takes
\* nothing, or all of its tokens but for the bytes of the last one, and that
\* one as well when it is only the end of the line that is missing.
CutDamagesLastToken ==
  input.family = "log" /\ output # None /\ input.behind = << >> =>
    LET r == input.record IN
    \/ output = << >> /\ input.size < LastFrom(r)
    \/ /\ Len(output) = 1 /\ Len(output[1]) = Len(r)
       /\ \A i \in 1 .. Len(r) - 1 : output[1][i] = r[i]
       /\ input.size >= LastTo(r) => output[1] = r

\* No string in the records has the character that a header begins with.
NoStars(records) == \A n \in DOMAIN records : \A i \in DOMAIN records[n] : Star \notin Range(records[n][i])

\* What is missing of a token in front of the last is no more than the header
\* that follows, without its line end, and what is missing of the last one no
\* more than any record.
Short(r) == (\A i \in 1 .. Len(r) - 1 : Len(r[i]) <= 1) /\ Len(r[Len(r)]) <= 4

\* The tokens that stand whole in front of the cut.
Spared(r, size) == {i \in 1 .. Len(r) : Len(RecordBytes(SubSeq(r, 1, i))) <= size}

\* AofManager.cpp:46-75: the reader takes what stands behind a cut for what
\* is missing.  The log gives back its records; one that was cut costs at
\* least one of those behind it, and from some record on they are all read
\* again.  Before these at most one record is found that nobody wrote, with
\* the tokens in front of the cut and others, and there is one if the last
\* length was written.  Short records cost one more only.
CutCostsOneMore ==
  input.family = "log" /\ output # None =>
    LET r       == input.record
        Rest(k) == SubSeq(input.behind, k + 1, Len(input.behind))
    IN IF input.size = Len(RecordBytes(r)) THEN output = <<r>> \o input.behind
       ELSE input.behind # << >> /\ NoStars(input.behind) =>
         \E k \in 1 .. Len(input.behind) :
           /\ \/ output = Rest(k) /\ input.size < LastFrom(r)
              \/ /\ output # << >> /\ Tail(output) = Rest(k) /\ Len(output[1]) = Len(r)
                 /\ \A i \in Spared(r, input.size) : output[1][i] = r[i]
           /\ Short(r) /\ input.size >= 4 => k = 1 /\ (input.size < LastFrom(r) => output = Rest(k))

-----------------------------------------------------------------------------

Inputs == RangeInputs \cup CommandInputs \cup ArrayInputs \cup TextInputs
            \cup QuotedInputs \cup ReplyInputs \cup LogInputs

Init == input \in Inputs /\ output = None

Next ==
  /\ output = None
  /\ \/ ComputeRange \/ ComputeCommand
     \/ ComputeArray \/ ComputeText \/ ComputeQuoted
     \/ ComputeReplies \/ ComputeLog
  /\ UNCHANGED input

Spec == Init /\ [][Next]_vars
=============================================================================
