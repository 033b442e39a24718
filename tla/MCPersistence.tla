--------------------------- MODULE MCPersistence ---------------------------
(* Values for the constants of Persistence that a .cfg cannot write, and    *)
(* the runs cut into families of clients: together they would store more    *)
(* than TLC can look at.                                                    *)
EXTENDS Persistence, MCStoreOps

CONSTANT k1   \* one of the keys

\* The commands load_into_store knows.
KnownCommands == {"SET", "DEL", "EXPIRE", "HSET", "HDEL", "LPUSH", "RPUSH",
                  "FLUSHDB", "BGREWRITEAOF"}

\* Neither the word EX nor what is left of an argument is a number.
StollOfAll == EX :> None @@ Torn :> None @@ MCStollOf

-----------------------------------------------------------------------------
VARIABLE family   \* what the clients send, chosen once

KeysOf(c) == CASE c.cmd = "DEL" -> {c.keys[i] : i \in DOMAIN c.keys}
               [] c.cmd = "FLUSHDB" -> {}
               [] OTHER -> {c.key}

\* Everything to one key, or some of the commands to all keys, or a few to
\* one key while writes may fail.
Sent ==
  [ one     |-> {c \in Writes : KeysOf(c) \subseteq {k1}},
    strings |-> {c \in Writes : c.cmd \in {"SET", "DEL", "EXPIRE", "FLUSHDB"}},
    data    |-> {c \in Writes : c.cmd \in {"DEL", "HSET", "HDEL", "LPUSH", "RPUSH"}},
    failing |-> [cmd : {"SET"}, key : {k1}, val : Inputs, ttl : {None}]
           \cup [cmd : {"DEL"}, keys : {<<k1>>}]
           \cup [cmd : {"RPUSH"}, key : {k1}, vals : {<<v>> : v \in Inputs}] ]

FamilyNext ==
  /\ \/ \E c \in Sent[family], s \in Spellings : Execute(c, s)
     \/ AppendRecord \/ AppendFails
     \/ WriteTmp \/ Rename \/ RenameFails
     \/ \E k \in Keys : Forget(k)
     \/ Tick \/ Crash \/ Start
  /\ family # "failing" => ~gap' /\ (tmp' # None => tmp'.whole)
  /\ UNCHANGED family

FamilyInit == Init /\ family \in DOMAIN Sent

FamilySpec == FamilyInit /\ [][FamilyNext]_<<vars, family>>
=============================================================================
