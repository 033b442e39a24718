# Formal models of the multithreaded key-value server

This directory holds TLA+ models of the server in `src/`, the TLC
configurations that check them on small instances, and TLAPS proofs of what was
worth stating for every instance. Line numbers are those of the sources;
`PROJECT.json` has, for each definition that models code, the lines it models.

## 1. The system

| Component | State | Operations | Talks to |
|---|---|---|---|
| `KeyValueStore` | 64 shards, each a `shared_mutex` and three maps: strings (value, deadline, last access), hashes, lists | per key: `set get del exists expire ttl incr_by hset hget hdel hexists hlen hgetall lpush rpush lpop rpop llen lrange`; over all shards: `size clear purge_expired_keys evict_lru_keys get_snapshot` | called by the reactor, the janitor, the replay and the rewrite of the log |
| janitor and `main()` | `g_running`, the janitor thread | every 100 ms: purge, size, maybe evict; start, signal, join, close | store, server, log |
| `ThreadPool` | queue, mutex, condition variable, stop flag, workers | `enqueue`, `enqueue_detach`, the worker's loop, the destructor | built by `main()`; the server only asks for its size |
| `AofManager` | the log file and its mutex | `append load_into_store rewrite flush_and_close` | store, file system |
| `CommandParser` | none | `execute`: one command to calls of the store, a record in the log, a reply | store, log, metrics, `RespParser` |
| `RespParser` | none | `parse_request`, serialisers | |
| `TcpServer` | sessions with their buffers, the listening socket | `start` (the poll loop), `stop` (from the signal handler) | `CommandParser` |
| `MetricsTracker` | relaxed atomic counters | counts, INFO | |
| `ServerConfig` | values read once | `load_from_file` | |

The reactor thread executes every command itself, one after another: the pool
is never given a task, although `TcpServer.hpp:38` and `README.md:76` say so.
Besides the reactor only the janitor uses the store, so the server's
concurrency is that of two threads. The store's interface and its tests are for
any number of threads, and so are its models.

What is hard in this code:

* **between two locks** - `get` and `ttl` release the shared lock before they
  take the exclusive one; `evict_lru_keys` erases what it sampled earlier; the
  five methods over all shards see each shard at another time;
* **time** - the clock is read before the lock is taken, TTLs run out between
  any two steps, deadlines wrap;
* **the condition variable** - a stop flag outside the mutex, spurious wakeups,
  one notification per task, tasks that enqueue tasks while the pool stops;
* **liveness of the janitor** - its purge and its eviction look at a part of the
  store only, and `main()` waits for it to end;
* **the reactor** - three tables (sessions, the array given to `poll`, the open
  descriptors) changed one after the other in five places, descriptors that the
  kernel gives out again, commands in pieces or several at once, clients that
  do not read or are gone, a signal handler that empties a table in use;
* **lengths and line ends** - of requests, of replies in a pipeline, of tokens in
  the log, given by whoever wrote them;
* **crashes and failing writes** - the store is changed before the log, the log
  may end in part of a record, the rewrite replaces it in several steps, and
  nobody looks whether a write succeeded.

`PROJECT.json`, under `hazards`, lists these places line by line with the
properties about them, or why there is none.

## 2. Modules

    StoreOps          what one critical section reads and leaves
     |- AtomicStore       abstract: a method on one key is one step
     |- KeyValueStore     the critical sections of any number of threads
     |   |- Janitor           ... as the server runs it: reactor, janitor, main()
     |   |- ShardWalks        ... with what was there while a walk went on
     |   '- EvictionOrder     ... with when each string was last used
     '- CommandParser     from tokens to the store, the answer and the log
         '- Persistence       commands, log, crash, replay, rewrite
    RespParser        requests and replies as text
     '- AofFormat         the bytes of the log and their reader
    ServerFunctions   CommandParser and AofFormat, and what their functions promise
    TcpServer         the reactor, its clients, and the signal
    ThreadPool        queue, mutex, condition variable, destructor
    MC*               constants, families and inputs for TLC

    StoreOps_proofs            the operators of StoreOps
     |- KeyValueStore_proofs       the store for any threads, and AtomicStore
     |   '- StoreUsers_proofs          Janitor, ShardWalks and EvictionOrder
     |- Persistence_proofs         what the log gives back
     '- ServerFunctions_proofs     commands, requests, replies, the bytes of the log
    TcpServer_proofs           the reactor
    ThreadPool_proofs          the pool
    Induction_proofs           under StoreOps_proofs and TcpServer_proofs

**StoreOps** has the sequential meaning of the methods. A key is in one shard
only, so the maps of all shards are three functions on the keys; `None` is
`std::nullopt` and "not in the map". Text that is the canonical decimal form of
a number is that number; any other text is a *word*, and `StollOf` says what
`std::stoll` makes of it. 64-bit arithmetic is modelled with its width
(`Wrap`, `WrapTime`): the integers of the runs are -2 .. 1.

**KeyValueStore** makes every critical section one step, since all accesses to a
shard are under its lock and no method holds two. A call is `Call` (arguments
bound, clock read), its sections and `Return`, with a program counter per
thread. `get` is `GetLookup`, then `GetTouch` (a hit refreshes its access time)
or `GetReap` (an expired entry is looked at again); `ttl` is `TtlLookup` and
`TtlReap`; the walks have a step per shard; `evict_lru_keys` samples shard by
shard, sorts in one of the orders `std::sort` may leave equal times in, and
erases one by one. The order in which a map is iterated is not known, so a walk
that stops early may have seen any part of the right size (`Windows`).

**AtomicStore** is what a caller of one key may rely on: the method takes effect
in one instant between call and return, with a clock reading from that
interval; expired entries may vanish at any time, several at once as a purge
takes them, and any string while an eviction runs. `Linearizable` is the
refinement mapping from `KeyValueStore` to it, as a property TLC checks.

**ShardWalks** and **EvictionOrder** add histories to the store, which no step
depends on, to say what the methods over all shards promise although they see
each shard at another time: what was there all the time since a walk was called
and what at some time since; when each string was last used, and which strings
an eviction is excused for - those used while it ran, whose sampled times are
old, and those of a shard that held more strings than it sampled.

**Janitor** composes the store with the janitor's loop and `main()`'s shutdown:
the threads of the store are the reactor and the janitor, whose calls are those
of its lambda.

**ThreadPool** splits what is done under the mutex where the stop flag is read,
for the destructor sets it without the mutex: a worker's wait is `Lock`, `Test`
(predicate), `Block` (release and sleep), wake-up, then `Pop` or `Exit`.

**CommandParser** is `execute` past the authentication: `Decode` checks and
converts the tokens, `AfterCommand`, `Reply`, `Logged`, `WriteOps` and `ReadOps`
say what the command does, answers, logs and counts. `SETEX`, `INCR` and `DECR`
decode to what they are short for. The first gate of `execute`, with `AUTH`,
`PING` and `QUIT`, is `Answer` in TcpServer.

**Persistence** runs these commands in the reactor: `Execute` changes the store
and decides what to log, `AppendRecord` writes the record and answers, and
`AppendFails` when the stream does; `Crash` may come between, and may leave part
of the record; `Start` replays the log by the rules of `load_into_store`;
`WriteTmp`, `Rename` and `RenameFails` are the rewrite, which may write too
little. `Forget` is the janitor, which logs nothing. A record is a command that
is whole or cut before its last token, in it or behind it: the reader skips it,
replays it garbled or takes it, and in each case loses the record behind it. What
is garbled depends on the command (`Garbled`, `Leading`): a value, a key, the
seconds of an EXPIRE, of which the first digits may be left; those of a SET are not
replayed anyway. A SET with a TTL is logged under the name the client typed or, when
it was sent as SETEX, under `SET` (`NamesLogged`).
That is what it does with short strings; with longer ones it may lose more, which
AofFormat has and Persistence has not.

**RespParser** and **AofFormat** are functions on sequences of symbols. The
characters the code looks for are model values, a number in digits is one
symbol, and two characters stand for all others. The parser's places are numbers
from 0 with `size_t` arithmetic where it matters (`Beyond`). AofFormat has what
`append` writes and, as functions of the stream's place and state, what
`getline` and `read` do to it in `load_into_store`. What `Load` makes of a cut
record is what Persistence's `Readable` says it is when the strings are short:
`CutDamagesLastToken` and `CutCostsOneMore`, whose last conjunct is about short
strings, and whose other ones say what may happen to any.

**ServerFunctions** applies each of these functions, and LRANGE and the commands,
to an input and says what the output must be, in definitions that do not follow
the code: the elements between two positions, the tokens that were serialized,
a client that reads RESP2, the records that were written. The inputs are
constants with an assumption each, as wide as the callers make it: any store
without empty containers, any tokens, any text that begins like an array. The
run gives them small sets (MCFunctions), the proofs none.

**TcpServer** is one thread, `pc` saying which of the nested loops it is in:
`Poll`, `AcceptOne`/`AcceptNone`, then per client `NothingThere`, `HangUp` or
`Receive`, per line `ServeLine` and `LinesDone`. Between any two steps clients
connect, send any part of their script, read, leave or break off. What is sent
is a sequence of words and ends of lines, cut at any word. `Signal` runs `stop`
where the constant `Interruptible` lets it; in the middle of a command it leads
to `undefined`, as the code's reference to the session is left dangling. At the head
of the loop it may come between the test of `is_running_` and `poll` (`tested`):
`poll` then reports descriptors that are closed, and the loop drops all clients
before it ends.
External, and modelled from how the code uses them: the lowest free descriptor
is the next one, `recv` returns what is there up to the size of the buffer,
`poll` reports what has arrived, a `send` is dropped when the client does not
read (a part of it that was written counts as dropped: the client can no longer
tell the answers apart) and kills the process, or is dropped, when the client has
broken off.

## 3. Runs

All runs with the bounds below finish in a few minutes; none relies on a state
constraint, only on guards named as bounds (`ClockBound`, `ListBound`,
`LogBound`, `MaxCalls`).

| Run | Instance | Shows |
|---|---|---|
| `store` | two threads, one key, two fields, two values, lists of two, times 0..2, TTLs 0 and 1; strings and containers in two families | `Linearizable`, `QueriesInvisible`, `NoEmptyContainers`, types |
| `shards` | two threads; either `set del size clear snapshot` on two keys in two shards and `hset` on the first, or `get`, `set` and evictions of one or two, on three strings in two shards of which a sample takes one each | `SizeBetween`, `ClearSparesNothing`, `SnapshotIsPlausible`, `EvictsLeastRecentlyUsed` |
| `functions` | lists up to three elements with indices -5..5; every command with right and wrong arity on the stores of two keys; requests of one or two tokens, whole and cut anywhere, given to `parse_request`; malformed arrays with lengths -12..3, quoted text; pairs of replies; logs of up to three records, the first cut at every byte | `LRangeIsSlice`, `ChangesAreLogged`, `RepliesAreTrue`, `RespRoundTrip`, `ReadsInside`, `QuotedTextRoundTrip`, `PipelinedRepliesAreFramed`, `CutDamagesLastToken`, `CutCostsOneMore` |
| `janitor` | reactor and janitor, purges, evictions with `max_keys` 1 and shutdown; either the string commands but INCRBY, and `ttl`, on one key, or `set get` on a key of each of two shards, or `set` with and without TTL on the two keys of one shard, where the purge looks at one string; fairness | the atomic store is implemented (`Linearizable`), `NobodyInsideWhenClosed`, `ExpiredIsPurged`, `LimitIsRestored`, `ShutdownCompletes` |
| `pool` | three workers, three calls, spurious wakeups | `TasksWakeWorkers`, `EachTaskOnce`, `PopFindsTask`, `DrainedWhenDestroyed`, `AcceptedIsFinished`, `DestructorReturnsOutsideWindow` |
| `restart` | the commands the replay knows, in four families: all to one key, strings or containers of two keys, a few to one key with writes that fail; logs of two records (and longer ones a rewrite leaves), TTLs 0, 1 and 10, which cut behind a digit is 1 | `NothingIsLost`, `CrashIsAtomic`, `RewriteIsExact`, types |
| `reactor` | two clients, one with a script of two commands, QUIT in a pipeline, AUTH, or a wrong password and half a command, the other with a line or nothing; two descriptors or one; three words per `recv`, two answers per socket; fairness | `SessionsArePolled`, `RepliesAreAnswers`, `AuthIsRequired`, `LinesAreAnswered`, `DeparturesAreNoticed`, `SignalEndsLoop`, types |

Why the bounds are enough. Keys do not interact, except in `del` and `size` over
maps and in the walks, so one key with two threads has all races of the methods
on one key; the walks get two keys in two shards, one already visited and one
still to come. Time needs three instants: before, at and after a deadline. A
counter needs its extremes one step from zero. Three strings in two shards give
an eviction every order of sampling, use and erasing, a sort of two, a sample
that leaves one out, and two evictions at once. A purge that looks at one string
of a shard of two stands for one that looks at 20 of more. INCRBY is in `store`
and left out of `janitor`: its one section is under the exclusive lock, as SET's
is. Two log records are one and the one behind it; what the replay does with a record depends only on the store the
ones before it left. The reactor looks at one client at a time: two give every
way an entry of its array can be erased before another or its descriptor used
again, scripts of four to five words with `recv`s of three give commands in
pieces and pieces of several commands. `SizeMax` in `functions` is any number no
text reaches.

In `store` the two families never meet because a call only looks at more than
one map in `del` and `exists` (both families) and `ttl` (run `janitor`). Symmetry
is used in `store` (threads, fields) and `shards` (threads) only: no definition
chooses among them there, and neither run has a liveness property.

`ttl` is not in `store`: it erases the entry it saw expired without looking
again (`KeyValueStore.cpp:127-131`), and with two client threads a value set in
between is lost. In the server this cannot happen, since no second thread
creates strings; `Linearizable` in `janitor` shows it, and section 4 proves it.

Fairness. `janitor`: the janitor's loop, its join and the sections of a call the
reactor has begun are weakly fair, as a thread that is not blocked gets to run
(locks are held for one section only). Clients, time and signals are not.
`reactor`: the thread of `main()` takes the loop's next step and ends; clients
need not do anything, a signal need not come, and `poll`, which waits until
something is ready or 50 ms have passed, is a step only when something is ready
or the flag is down.
`pool`: steps of threads that can take them are weakly fair, tasks end, and
spurious wakeups do not go on for ever. Workers contend for the mutex by `Lock`
under weak fairness only. Runs with `CHECK_DEADLOCK FALSE` are of systems that
end: a pool destroyed, a server closed, a bounded number of calls, a function
applied.

### Where the code does not do what is said of it

Each of these runs has one property, which TLC finds violated.

| Run | Said | Done |
|---|---|---|
| `pool_destructor` | the destructor wakes all sleepers and joins them (`ThreadPool.hpp:38-42`, `ThreadPool.cpp:70`) | it notifies without the mutex: a worker between test and wait sleeps for ever, and `join()` with it |
| `limit_of_hashes` | LRU eviction when `max_keys` is exceeded (`README.md:61,90`) | hashes and lists count, only strings are evicted |
| `restart_forgets_counters` | every write is logged and replayed (`README.md:84-85`) | INCR, DECR, INCRBY, MSET, LPOP, RPOP are logged and not replayed |
| `resp_arrays` | clients of RESP can be used (`README.md:180-204`), arrays are left to RespParser (`TcpServer.cpp:202`) | the buffer is cut at each newline and each line executed: one PING of redis-cli is answered three times |
| `stop_during_command` | `stop()` closes everything safely (`TcpServer.hpp:62`) | called in the signal handler while a command is executed, it destroys the session in use |

The same kind of disagreement, without a run of its own:

* the purge looks at the first 20 strings of a shard only
  (`KeyValueStore.cpp:349`), which may be live ones every time, though
  `README.md:60,89` promise that what has expired is purged. `ExpiredIsPurged`
  claims it of shards with no more strings than one purge looks at; without that
  condition it fails in the run `janitor`, where the purge looks at one string
  and a shard may hold two;
* INCRBY overflows without a check (`README.md:225` says there is one);
* lower-case commands are executed but not replayed (`RestartRestores` with
  both spellings);
* a record cut in its last token is replayed with a garbled argument, and an
  EXPIRE with part of its seconds, though the log is called atomic
  (`README.md:84`); a record behind a cut one is lost, and several behind a long string; a cut in a header may join with the header
  behind it; and when exactly the next record's header is missing of a string, the
  reader finds that record's tokens where the cut one's should be, and replays a
  command that nobody sent;
* a rewrite that could not write everything replaces the log and reports
  success; a failed append is answered OK;
* TTLs do not survive a restart or a rewrite;
* a signal before `start()` is lost, and the server then runs without a janitor;
* a client that breaks off while it is answered ends the server by SIGPIPE,
  with the log's stream not closed;
* FLUSHDB is appended and does not clean the log (`README.md:169`); DBSIZE
  counts a key once per map; TTL answers -2 for a key whose string expired though
  it is a hash too; "12abc" is a number for INCR; HSET takes one field, not
  several (`README.md:183`); an empty word between quotes is dropped.

## 4. Proofs

TLAPS checks what follows for every value of the constants that satisfies the
modules' named assumptions: `None` is none of the other values, `int64` has at
least -1, 0 and 1, every key has a shard, the pool has a worker, a `recv` takes at
least a byte, and so on. Each of them is evaluated by TLC in a passing run. What
a theorem assumes beyond them stands in its statement and is explained here.

**`StoreOps_proofs`** - what the others cite: each operator of `StoreOps` keeps
`Stores`, none makes an empty container, and none depends on access times
(`Timeless`, the lemmas `Same*`). `RangeIsSlice`: LRANGE returns exactly the
elements whose positions lie between those its indices name, for any list and
any indices.

**`KeyValueStore_proofs`** - `TypeCorrect`, `NoEmptyContainersKept`,
`QueriesInvisibleWithoutTtl`, `LinearizableWithoutTtl`. The inductive invariant
`IInv` adds to types and to `NoEmptyContainers` what ties a thread's program
counter to its request and its shard (`CallInv`): without it a section could be
taken with no request, or past the last shard. It also says that the time a call
has read is not after the clock: what a call found expired at its time is
expired now. The refinement goes section by section: each is an `Apply` of
AtomicStore, a `Lapse` of expired strings, an `Evict`, or a stutter, with the maps
seen through `Timeless`. What makes a query's second section a stutter or a lapse
is that its verdict still stands when it erases (`VerdictStands`): `get` looks
again under the exclusive lock, `ttl` does not, so the theorems for any number
of clients assume that `ttl` is not called. `clear`, which is not atomic, is
left out of the refinement; `ClearSpares` below says what it does promise.

**`StoreUsers_proofs`** - of the janitor: `JanitorTypeCorrect`, `NobodyInside`,
`ServerIsLinearizable`, `ServerQueriesInvisible`. `JanitorInv` adds to `IInv` that
the janitor is inside the store exactly while its loop waits for the call the
loop has made, that `size` has counted some number so far (so the excess handed to
`evict_lru_keys` is never below zero), and that nobody is inside once `main()` has
gone on. The last two theorems are those of the store **with** `ttl`, for
exactly one client, which is what the reactor thread is: between the two locks
of `ttl` only the janitor can run, it only takes strings away, and so a string
found expired is still that one or gone. Assumed: `Keys` is finite (`size` counts
them), and `Counts` has all of Nat (`evict_lru_keys` takes any `size_t`; in TLC's
runs the excess stays below their bound).

Of the walks and evictions: `SizeIsBetween`, `ClearSpares`, `SnapshotPlausible`,
`EvictionFollowsUse`, with any methods, `ttl` and `clear` included, and several walks
and evictions at once. The invariant of the walks: what is there now lies between
the two histories, and of the shards a walk has behind it, what was there all the
time has been counted, cleared or copied, and no more than was there at some
time. The invariant of an eviction: an entry's `last_accessed` is the time of
the call that last used it; the sample has every string of the shards visited
that is not excused, with that time; and the victims left are in the order of
their last use, and no string that is not excused was used before one of them
unless it goes first. The finiteness of `Keys` is assumed where something is
counted.

**`TcpServer_proofs`** - `TypeCorrect`, `PollingIsExact`,
`NobodyServedBeforeAuth`, `ClientsGetTheirAnswers`. The tables (`TypeInv`,
`TableInv`): entries of `poll_fds` have different descriptors, and these are those of
the sessions and of the open connections, by cases on accepting, dropping and
stopping. `ConnInv` and `BufferInv`: a connection has one descriptor at most, and a
session has buffered exactly the last bytes received on its connection,
whoever had the descriptor before. Then `AuthInv`: an authenticated session's
client has sent the password in the part already taken. `ReplyInv` compares each
inbox with `HeardAfter`, what the client should hear of the first *n* words it
sent; this is a recursive function of *n*, and that it grows by one answer with
each line, and with nothing else, is shown by induction.

**`Persistence_proofs`** - `TypeCorrect`, `CrashAtomic`, `RewriteExact`,
`NothingIsLostIfRestorable`. The replay is a fold over the log, DEL and the pushes
are folds over their arguments; each is first given its intermediate stores
(`Chain`), along which facts are carried by induction. `Covers` compares what a
restart gives back with what clients can read now: all of it, and what is more
is a string that has lost its deadline. A command executed now and replayed
later keeps it, time and the janitor only take from the store. `LogInv` is the
invariant: as long as no write is missing and no cut record lies under another, the
log - in an append, the log with the record on its way; in a rewrite, the file
about to take its place - covers the store. For rewrites, the snapshot is shown
to enumerate the strings, fields and lists, and its replay to give each back.
`NothingIsLostIfRestorable` assumes what the run `restart` does (`Restorable`), and
without any one of these the code does lose writes: only commands the replay
knows (`restart_forgets_counters` shows the others), in capitals, deadlines that
do not wrap, and a log that is not removed when `rename` fails. The other three
theorems assume none of them.

**`ServerFunctions_proofs`** - all nine properties of ServerFunctions, each for
every input its constants may have. Since a behaviour is one application of a
function, the invariant (`Computed`) says no more than that the output is the
function of the input, and the work is in lemmas about the functions.

* `RangeIsExact`, from `RangeIsSlice`.
* `ChangesLogged`, `RepliesTrue`: by the case of every command. `Decoded` says what
  the tokens become, the folds of MSET, DEL and the pushes are opened step by step.
  `RepliesTrue` assumes that `Fields` is finite, since HLEN counts; and where the
  property speaks of deadlines it is of those that fit the clock (`InTime`). Both
  rest on `StollAssumption`: no word is a number.
* `ScanStaysInside`: the place of the reader never leaves the text, by induction
  over the elements, although a negative length sets it back; a size that has
  wrapped is beyond any text (the numbers are small against `SizeMax`, as `int` is
  against `size_t`). `RequestsAreRead`: `ArrayAt` says where the strings of a
  serialized array stand, and the reader finds each where it stands. Of a request
  that lacks more than the end of its last line the array parser takes nothing, so
  that `parse_request` gives it to the one of plain text, which reads other tokens;
  the theorem says that, and the run `resp_arrays` what comes of it.
* `RepliesAreFramed`: a client's `ReadReply` is at the end of the first reply when
  it has read it. It assumes of statuses and errors that they are one line.
* `QuotedTextIsRead`: the characters between two quotes are appended one by one.
* `CutDamage`, `CutCosts`: the reader of the log. `LoadIs` gives `Load`, a recursive
  function from the end of the log back, the equation it satisfies at each place
  (`LoadStep`). `Token` is described by case (`TokenCases`); the scan of a record
  goes on from token to token (`ScanGoesOn`). Up to the cut everything is read as
  it was written (`PrefixRead`); the token of the cut is `CutToken`, the line it is
  in `CutLine`; from any place behind the cut on, the reader passes over the rest
  of the record it is in and reads all that follow (`RestFrom`). For the last
  step, `CutCostsOneMore` assumes that no string behind the cut has a star
  (`NoStars`): a line of a string that looks like a header is read as one, with
  whatever follows. A number in digits is one symbol, so a cut between the
  digits of a number is outside the model, of the runs and of the proofs.

**`ThreadPool_proofs`** - `TypeCorrect`, `TasksRunOnce`, `PopIsSafe`, `Drained`
and `WakesWorkers`. The invariants checked are not inductive. `IInv` adds who holds the
mutex, who sleeps, who has a task, that the flag is the owner's progress, and
`ExitInv`: once a worker has left, the queue is empty and nobody is about to
push. It holds because a worker leaves holding the mutex with the flag set, and
a push needs the mutex since before the flag was set. `WakesWorkers`, that there are
never more tasks queued than workers awake and threads about to notify while a
worker sleeps, adds `BlockInv`: a worker that goes to sleep has seen an empty queue
and holds the mutex. A push then adds a thread about to notify, a notification
trades it for a worker that wakes, and a pop takes a worker and a task.

**`Induction_proofs`** - the library's induction theorems take a predicate as
parameter, which the installed provers cannot instantiate. This module has them
for *sets*: a set of numbers with 0 and the successors of its members is Nat
(`SetInduction`, from the well-foundedness of inclusion on finite sets). From it
come the existence of recursive functions and the steps of a fold over 1 .. n.

Only model-checked:

* liveness (`janitor`, `pool`, `reactor`), which is beyond this prover:
  `ExpiredIsPurged`, `LimitIsRestored`, `ShutdownCompletes`, `AcceptedIsFinished`,
  `DestructorReturnsOutsideWindow`, `LinesAreAnswered`, `DeparturesAreNoticed`,
  `SignalEndsLoop`;
* the refinement of AtomicStore with several threads that call `ttl`, which the
  code does not have, and of `clear`, which is not atomic: neither is in a run or a
  theorem;
* the five disagreements of section 3, which TLC refutes.

Every invariant and every action property of the passing runs is a theorem.

## 5. Not modelled, and the plan

Not modelled: `ServerConfig`, the arguments of `main()`, the texts of INFO and
of errors and the counters only INFO reads; `send` writing part of an answer as
bytes; the Windows branches; loss of flushed data with the operating system; the
`future` of a task; exceptions of `bad_alloc`. A header of count 0 in the log,
which no writer leaves and whose replay is undefined, is left out of AofFormat.
`stop` is one step: where it runs between the reactor's accesses to a session,
the model says only that what follows is undefined.

A cut between the digits of a length is not modelled, as a number is one symbol.

What could follow:

1. What `ttl` may do with several clients, as a weaker promise of `AtomicStore`.
2. The purge over maps with a stable order of iteration.
3. Persistence under TcpServer: one command a step, to relate what a client was
   answered to what a restart gives back.
