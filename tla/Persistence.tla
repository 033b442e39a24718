---------------------------- MODULE Persistence ----------------------------
(***************************************************************************)
(* The append-only file: CommandParser executes the commands that write,   *)
(* AofManager logs them, rewrites the log and replays it at the next start *)
(* of the server, and the process may die between any two of these steps   *)
(* or in the middle of an append.                                          *)
(*                                                                         *)
(* The reactor is the only thread that executes commands and it finishes   *)
(* one before it reads the next, so the methods of the store are single    *)
(* steps here.  The janitor erases strings meanwhile and logs nothing.     *)
(*                                                                         *)
(* A command is what CommandParser has decoded.  Writes to the file may    *)
(* fail, as on a full disk, and nobody looks whether they did; those that  *)
(* succeed survive the process once they are flushed.                      *)
(***************************************************************************)
EXTENDS CommandParser

CONSTANTS
  Commands,        \* the commands clients send
  Inputs,          \* the values they store
  TTLs,            \* the TTLs they give, in seconds
  Deltas,          \* the deltas they give INCRBY
  Spellings,       \* "upper", "lower": how they type the command's name
  Torn,            \* the word an argument becomes when the log is cut in it
  WritesFail,      \* whether writes to files may fail
  RemoveOutcomes,  \* whether remove succeeds after a rename that failed
  ClockBound,      \* bound: the clock stops here
  LogBound,        \* bound: no command is executed with a log of this length
  ListBound        \* bound: no push is executed on a list of this length

ASSUME PersistenceAssumption ==
  /\ Inputs \subseteq Values /\ Deltas \subseteq Numbers /\ TTLs \subseteq Int
  /\ Torn \in Words \ Inputs /\ WritesFail \in BOOLEAN
  /\ Spellings \subseteq {"upper", "lower"} /\ RemoveOutcomes \subseteq BOOLEAN
  /\ IsFiniteSet(Keys) /\ IsFiniteSet(Fields)
  /\ ClockBound \in Nat /\ LogBound \in Nat /\ ListBound \in Nat

OneOrTwo(S) == {<<x>> : x \in S} \cup (S \X S)

AllWrites ==
       [cmd : {"SET"}, key : Keys, val : Inputs, ttl : TTLs \cup {None}]
  \cup [cmd : {"MSET"}, pairs : OneOrTwo(Keys \X Inputs)]
  \cup [cmd : {"DEL"}, keys : OneOrTwo(Keys)]
  \cup [cmd : {"EXPIRE"}, key : Keys, ttl : TTLs]
  \cup [cmd : {"INCRBY"}, key : Keys, delta : Deltas]
  \cup [cmd : {"HSET"}, key : Keys, field : Fields, val : Inputs]
  \cup [cmd : {"HDEL"}, key : Keys, field : Fields]
  \cup [cmd : {"LPUSH", "RPUSH"}, key : Keys, vals : OneOrTwo(Inputs)]
  \cup [cmd : {"LPOP", "RPOP"}, key : Keys]
  \cup [cmd : {"FLUSHDB"}]

Writes == {c \in AllWrites : c.cmd \in Commands}

VARIABLES
  store,    \* the store, empty while the process is down
  clock,    \* steady_clock
  pc,       \* the process: down, idle, in append, or in rewrite
  pending,  \* the record append is about to write
  log,      \* the records of the file, whole or cut short
  tmp,      \* the file rewrite writes; None outside of it: one that is left
            \* behind is never read, and overwritten by the next rewrite
  failbit,  \* file_ has failed and writes nothing until it is opened again
  gap       \* history: a write that failed has left something out of the log

vars == <<store, clock, pc, pending, log, tmp, failbit, gap>>

Init ==
  /\ store = EmptyStore
  /\ clock = 0
  /\ pc = "down"
  /\ pending = None
  /\ log = << >>
  /\ tmp = None
  /\ failbit = FALSE
  /\ gap = FALSE

-----------------------------------------------------------------------------
(* The record of a command, and appending it                               *)

\* The names a command may be logged under: as the client typed it, but for
\* FLUSHDB, and for the SET with a TTL that a client has sent as SETEX.
NamesLogged(c, spelling) ==
  CASE c.cmd = "FLUSHDB" -> {"upper"}
    [] c.cmd = "SET" /\ c.ttl # None -> {spelling, "upper"}
    [] OTHER -> {spelling}

RecordOf(c, name) == [command |-> c, cut |-> "no", spelling |-> name]

\* How far the bytes of a record that was cut short reach: not into its last
\* token; into it; behind the first digits of the seconds of an EXPIRE; over
\* all of it but for the end of its line.
Cuts == {"early", "last", "digits", "tail"}

\* The numbers that remain of a number cut behind one of its digits.
LeadingDigits(n) ==
  LET without[i \in 0 .. 18] == IF i = 0 THEN n ELSE without[i - 1] \div 10
  IN {m \in 1 .. n : \E i \in 1 .. 18 : m = without[i]}

Leading(n) == LeadingDigits(n) \cup {-m : m \in LeadingDigits(-n)}

CutRecords(r) ==
  {[r EXCEPT !.cut = c] : c \in Cuts \ {"digits"}} \cup
  IF r.command.cmd # "EXPIRE" THEN {}
  ELSE {[r EXCEPT !.cut = "digits", !.command.ttl = m] : m \in Leading(r.command.ttl)}

\* The reactor goes on, and the client gets its answer.
Appended ==
  /\ pc = "append"
  /\ pending' = None
  /\ pc' = "idle"
  /\ UNCHANGED <<store, clock, tmp>>

\* append writes the record and flushes it.
AppendRecord ==
  /\ Appended
  /\ ~failbit
  /\ log' = Append(log, pending)
  /\ UNCHANGED <<failbit, gap>>

\* A write that fails leaves nothing of the record in the file or its first
\* bytes, and the stream in a state in which no later append writes.
AppendFails ==
  /\ Appended
  /\ \/ failbit /\ UNCHANGED log
     \/ ~failbit /\ WritesFail
        /\ log' \in {log} \cup {Append(log, r) : r \in CutRecords(pending)}
  /\ failbit' = TRUE
  /\ gap' = TRUE

-----------------------------------------------------------------------------
(* Replaying the log                                                       *)

Replayed == {"SET", "DEL", "EXPIRE", "HSET", "HDEL", "LPUSH", "RPUSH", "FLUSHDB"}

\* What load_into_store does with a record it has read: names are compared as
\* they were typed, and only the key and the value of SET count.
Replay(st, r, now) ==
  LET c == r.command IN
  IF r.spelling # "upper" \/ c.cmd \notin Replayed THEN st
  ELSE IF c.cmd = "SET" THEN AfterSet(st, c.key, c.val, None, now)
  ELSE AfterCommand(st, c, now)

\* A record with fewer tokens than its header says is not replayed.
Skipped(r) == [r EXCEPT !.command = Wrong("skipped")]

\* What is replayed of a record cut in its last token, which the reader pads
\* or fills with what follows: a value is another value, a key or a field is
\* none that is in use, the seconds of an EXPIRE begin with no digit and stoll
\* throws, those of a SET are not looked at.
Garbled(r) ==
  CASE r.command.cmd = "HSET" \/ (r.command.cmd = "SET" /\ r.command.ttl = None) ->
         [r EXCEPT !.command.val = Torn]
    [] r.command.cmd = "SET" /\ r.command.ttl # None -> r
    [] r.command.cmd \in {"LPUSH", "RPUSH"} ->
         [r EXCEPT !.command.vals = [@ EXCEPT ![Len(@)] = Torn]]
    [] r.command.cmd = "DEL" -> [r EXCEPT !.command.keys = Front(@)]
    [] OTHER -> [r EXCEPT !.command = Wrong("garbled")]

\* Mutant: a record is replayed with the arguments that could be read.
ReadableUncounted(l) ==
  LET Args(c) == CASE c.cmd \in {"LPUSH", "RPUSH"} -> [c EXCEPT !.vals = <<Head(@)>>]
                   [] c.cmd = "DEL" -> [c EXCEPT !.keys = <<Head(@)>>]
                   [] OTHER -> c
  IN [i \in DOMAIN l |-> IF l[i].cut = "no" THEN l[i] ELSE [l[i] EXCEPT !.command = Args(@)]]

\* A record as the reader finds it.  One that has fewer tokens than its header
\* says is skipped; one cut in its last token is replayed garbled, and an
\* EXPIRE cut behind a digit with the seconds that remain.  In each
\* case the first line of the record behind it is taken for what is missing,
\* and that record is skipped.  (A cut in the header may spare the record
\* behind it, and one before a token of many bytes may take more of them:
\* neither is modelled here.  AofFormat reads the bytes.)
Found(l, i) ==
  LET behind == i > 1 /\ l[i - 1].cut # "no" IN
  CASE behind \/ l[i].cut = "early" -> Skipped(l[i])
    [] ~behind /\ l[i].cut = "last" -> Garbled(l[i])
    [] ~behind /\ l[i].cut \in {"no", "digits", "tail"} -> l[i]

Readable(l) == [i \in DOMAIN l |-> Found(l, i)]

ReplayAll(st, found, now) == FoldLeft(LAMBDA s, r : Replay(s, r, now), st, found)

Recovered(l, now) == ReplayAll(EmptyStore, Readable(l), now)

-----------------------------------------------------------------------------
(* Executing a command                                                     *)

\* Bound: also on what a restart would make of a list, which is longer when
\* a DEL could not be logged.
WithinListBound(c) ==
  c.cmd \in {"LPUSH", "RPUSH"} =>
    \A st \in {store, Recovered(log, clock)} : Len(ListOf(st, c.key)) < ListBound

Execute(c, spelling) ==
  /\ pc = "idle"
  /\ Len(log) < LogBound /\ WithinListBound(c)
  /\ store' = AfterCommand(store, c, clock)
  /\ IF Logged(store, c, clock)
     THEN pc' = "append" /\ \E name \in NamesLogged(c, spelling) : pending' = RecordOf(c, name)
     ELSE UNCHANGED <<pc, pending>>
  /\ UNCHANGED <<clock, log, tmp, failbit, gap>>

-----------------------------------------------------------------------------
(* Rewriting the log                                                       *)

\* A snapshot as commands: live strings without their TTL, then the hashes
\* field by field, then each list in one push.
SetOf(st, k)        == [cmd |-> "SET", key |-> k, val |-> st.str[k].value, ttl |-> None]
HSetOf(st, k, f)    == [cmd |-> "HSET", key |-> k, field |-> f, val |-> HGetReply(st, k, f)]
PushOf(st, k, push) == [cmd |-> push, key |-> k, vals |-> st.list[k]]

SetsOf(st, now)     == {SetOf(st, k) : k \in {j \in Keys : Live(st.str[j], now)}}
HSetsOf(st)         == {HSetOf(st, h[1], h[2]) :
                          h \in {g \in Keys \X Fields : HGetReply(st, g[1], g[2]) # None}}
PushesOf(st, push)  == {PushOf(st, k, push) : k \in {j \in Keys : ListOf(st, j) # << >>}}

Snapshot(st, now, push) ==
  LET all == SetToSeq(SetsOf(st, now)) \o SetToSeq(HSetsOf(st)) \o SetToSeq(PushesOf(st, push))
  IN [i \in DOMAIN all |-> RecordOf(all[i], "upper")]

\* Mutant: lists are pushed at the wrong end.
SnapshotReversed(st, now) == Snapshot(st, now, "LPUSH")

SnapshotRecords(st, now) == Snapshot(st, now, "RPUSH")

\* The new file is written, and nobody looks whether all of it is there: a
\* disk that fills up leaves its first records, the last of them cut or not.
WriteTmp ==
  /\ "BGREWRITEAOF" \in Commands
  /\ pc = "idle"
  /\ LET all == SnapshotRecords(store, clock) IN
     \/ tmp' = [records |-> all, whole |-> TRUE]
     \/ /\ WritesFail
        /\ \E n \in 1 .. Len(all) : \E short \in CutRecords(all[n]) \cup {None} :
             tmp' = [records |-> SubSeq(all, 1, n - 1) \o
                                   IF short = None THEN << >> ELSE <<short>>,
                     whole |-> FALSE]
  /\ pc' = "rename"
  /\ UNCHANGED <<store, clock, pending, log, failbit, gap>>

\* Mutant: the log is replaced under the open stream, which keeps its failbit.
RenameUnderOpenFile ==
  /\ pc \in {"rename", "retry"}
  /\ log' = tmp.records
  /\ gap' = ~tmp.whole
  /\ tmp' = None
  /\ pc' = "idle"
  /\ UNCHANGED <<store, clock, pending, failbit>>

\* The log is closed, replaced and opened again.
Rename ==
  /\ pc \in {"rename", "retry"}
  /\ log' = tmp.records
  /\ gap' = ~tmp.whole
  /\ tmp' = None
  /\ failbit' = FALSE
  /\ pc' = "idle"
  /\ UNCHANGED <<store, clock, pending>>

\* When rename fails the log is removed, and rename tried once more.  If
\* remove failed as well, so does the second rename.  The log is opened again
\* whatever became of it.
RenameFails ==
  /\ pc \in {"rename", "retry"}
  /\ \E removed \in IF pc = "rename" THEN RemoveOutcomes ELSE {FALSE} :
       IF removed
       THEN log' = << >> /\ pc' = "retry" /\ UNCHANGED <<tmp, failbit>>
       ELSE UNCHANGED log /\ pc' = "idle" /\ tmp' = None /\ failbit' = FALSE
  /\ UNCHANGED <<store, clock, pending, gap>>

-----------------------------------------------------------------------------
(* The janitor, time, and the life of the process                          *)

\* The janitor purges a string or evicts it.
Forget(k) ==
  /\ pc # "down"
  /\ store.str[k] # None
  /\ store' = AfterErase(store, k)
  /\ UNCHANGED <<clock, pc, pending, log, tmp, failbit, gap>>

Tick ==
  /\ clock < ClockBound
  /\ clock' = clock + 1
  /\ UNCHANGED <<store, pc, pending, log, tmp, failbit, gap>>

\* The process ends, in good order when it is idle.  In an append some of
\* the record's bytes may have reached the file.
Crash ==
  /\ pc # "down"
  /\ \/ UNCHANGED log
     \/ /\ pc = "append" /\ ~failbit
        /\ log' \in {Append(log, r) : r \in CutRecords(pending)}
  /\ store' = EmptyStore
  /\ pc' = "down"
  /\ pending' = None
  /\ tmp' = None
  /\ failbit' = FALSE
  /\ UNCHANGED <<clock, gap>>

\* main() opens the file for appending and replays it before it serves.
Start ==
  /\ pc = "down"
  /\ store' = Recovered(log, clock)
  /\ pc' = "idle"
  /\ gap' = FALSE
  /\ UNCHANGED <<clock, pending, log, tmp, failbit>>

-----------------------------------------------------------------------------
Next ==
  \/ \E c \in Writes, s \in Spellings : Execute(c, s)
  \/ AppendRecord \/ AppendFails
  \/ WriteTmp \/ Rename \/ RenameFails
  \/ \E k \in Keys : Forget(k)
  \/ Tick \/ Crash \/ Start

Spec == Init /\ [][Next]_vars

-----------------------------------------------------------------------------
(* Correctness                                                             *)

\* The seconds of an EXPIRE in the log: no more than a client gave.
Seconds == {s \in Int : s > 0 => \E ttl \in TTLs : s <= ttl}

\* What may stand in the log: what clients sent, and what a snapshot has,
\* where values may be those of a garbled record, and seconds what remains of
\* those a client sent.
Loggable == AllWrites
  \cup [cmd : {"EXPIRE"}, key : Keys, ttl : Seconds]
  \cup [cmd : {"SET"}, key : Keys, val : Values, ttl : {None}]
  \cup [cmd : {"HSET"}, key : Keys, field : Fields, val : Values]
  \cup [cmd : {"RPUSH"}, key : Keys, vals : Lists]

Records == [command : Loggable, cut : {"no"} \cup Cuts, spelling : {"upper", "lower"}]

\* The variables have their types; a record waits to be written exactly while
\* append runs, the file holds nothing but commands clients sent and those
\* of a snapshot, and a stream that fails means that something is missing.
TypeOK ==
  /\ store \in Stores
  /\ clock \in 0 .. ClockBound
  /\ pc \in {"down", "idle", "append", "rename", "retry"}
  /\ IF pc = "append" THEN pending \in Records ELSE pending = None
  /\ \A i \in DOMAIN log : log[i] \in Records
  /\ tmp # None => tmp.whole \in BOOLEAN /\ \A i \in DOMAIN tmp.records : tmp.records[i] \in Records
  /\ gap \in BOOLEAN /\ failbit \in BOOLEAN /\ (failbit => gap)

\* What clients can read: the live strings without their TTL, the hashes and
\* the lists.
Strings(st, now) == [k \in Keys |-> GetReply(st, k, now)]

Gives(back, st, now) ==
  /\ back.hash = st.hash
  /\ back.list = st.list
  /\ \A k \in Keys : GetReply(st, k, now) \in {None, GetReply(back, k, now)}

\* A record that was cut short has another behind it.
CutRecordBuried == \E i \in 1 .. Len(log) - 1 : log[i].cut # "no"

\* Between two commands, and while the log is being rewritten, a server that
\* stopped and started now would give back all that clients can read: every
\* hash and list as it is, every live string with its value.  A write that
\* failed spoils this only until the next start, or until a rewrite that is
\* written whole has taken the place of the log.
NothingIsLost ==
  pc \in {"idle", "rename"} /\ ~CutRecordBuried /\ ~gap =>
    Gives(Recovered(log, clock), store, clock)

\* A crash in the middle of an append loses the command or keeps it, with
\* all of its keys and values, unless it comes in the bytes of the last
\* argument.
CrashIsAtomic ==
  [][Crash /\ pc = "append" /\ ~CutRecordBuried
       /\ (log' # log => log'[Len(log')].cut \notin {"last", "digits"}) =>
       Recovered(log', clock) \in
         {Recovered(log, clock), Recovered(Append(log, pending), clock)}]_vars

\* BGREWRITEAOF: the new log gives back exactly what clients could read when
\* it was written, and nothing that had expired or been deleted.
RewriteIsExact ==
  [][WriteTmp /\ tmp'.whole =>
       LET back == Recovered(tmp'.records, clock) IN
       Gives(back, store, clock) /\ Strings(back, clock) = Strings(store, clock)]_vars

\* README.md:84-85: the log has every write, and the server is rebuilt from
\* it at start, whichever commands the clients used.
RestartRestores ==
  pc = "idle" => Gives(Recovered(log, clock), store, clock)
=============================================================================
