-------------------------- MODULE TcpServer_proofs --------------------------
(***************************************************************************)
(* The reactor, for any number of clients, descriptors and bytes.          *)
(*                                                                         *)
(* Its tables: sessions_, poll_fds, the open descriptors and the metrics   *)
(* name the same clients; a connection has one descriptor at most; and a   *)
(* session has buffered exactly the last bytes that were received on its   *)
(* connection.                                                             *)
(*                                                                         *)
(* What its clients are answered, whatever they send: nobody is served     *)
(* before AUTH, and the answers a client gets are those to its own lines,  *)
(* in order, however its bytes were cut.  The latter compares each session *)
(* with what its client should have heard, HeardAfter, which is recursive  *)
(* in the bytes: what is shown of it is shown by induction on their number.*)
(***************************************************************************)
EXTENDS TcpServer, Induction_proofs, SequenceTheorems

States == {"init", "built", "poll", "tested", "accept", "clients", "lines", "stopped", "ended",
           "killed", "undefined"}

Polled == [fd : Fds, revents : {"none", "in", "err"}]

TypeInv ==
  /\ pc \in States /\ running \in BOOLEAN /\ listening \in BOOLEAN
  /\ poll_fds \in Seq(Polled)
  /\ i \in Nat \ {0} /\ active = Len(poll_fds)
  /\ sessions \in [Fds -> Sessions \cup {None}]
  /\ file \in [Fds -> Connections \cup {None, "elsewhere"}]
  /\ backlog \in Seq(Connections)
  /\ peer \in [Connections -> {"new", "open", "closed", "reset"}]
  /\ script \in [Connections -> Seq(Words)]
  /\ sent \in [Connections -> Nat] /\ taken \in [Connections -> Nat]
  /\ \A c \in Connections : taken[c] <= sent[c] /\ sent[c] <= Len(script[c])
  /\ inbox \in [Connections -> Seq(Replies)]
  /\ unread \in [Connections -> Nat] /\ overrun \in [Connections -> BOOLEAN]

TableInv ==
  /\ \A m, n \in DOMAIN poll_fds : poll_fds[m].fd = poll_fds[n].fd => m = n
  /\ \A fd \in Fds : sessions[fd] # None <=> file[fd] \in Connections
  /\ listening => running
  /\ Serving => running \/ signal = "serving"
  /\ pc \in {"init", "built"} => ~running /\ poll_fds = << >>
  /\ pc = "lines" => running /\ i <= Len(poll_fds)
  /\ ~running => /\ \A fd \in Fds : sessions[fd] = None
                 /\ \A n \in DOMAIN poll_fds : file[poll_fds[n].fd] = None
  /\ running => \A fd \in Fds : sessions[fd] # None <=>
                                  \E n \in DOMAIN poll_fds : poll_fds[n].fd = fd

\* The descriptor that accept takes is a free one.
LEMMA LowestFree ==
  ASSUME NEW fs, fs \subseteq Nat, fs # {}
  PROVE  Min(fs) \in fs
<1>1. \E n \in fs : \A m \in fs : n <= m
  BY LeastNumber
<1> QED
  BY <1>1 DEF Min

\* What erasing one entry of an array leaves, as poll_fds.erase does.
LEMMA Removed ==
  ASSUME NEW S, NEW s \in Seq(S), NEW n \in 1 .. Len(s)
  PROVE  /\ RemoveAt(s, n) \in Seq(S)
         /\ Len(RemoveAt(s, n)) = Len(s) - 1
         /\ \A m \in 1 .. Len(s) - 1 : RemoveAt(s, n)[m] = IF m < n THEN s[m] ELSE s[m + 1]
<1> DEFINE a == SubSeq(s, 1, n - 1)
           z == SubSeq(s, n + 1, Len(s))
<1>1. \A m \in 1 .. Len(s) : s[m] \in S
  OBVIOUS
<1>2. /\ a \in Seq(S) /\ Len(a) = n - 1
      /\ \A m \in 1 .. n - 1 : a[m] = s[m]
  BY <1>1, SubSeqProperties
<1>3. /\ z \in Seq(S) /\ Len(z) = Len(s) - n
      /\ \A m \in 1 .. Len(s) - n : z[m] = s[n + m]
  BY <1>1, SubSeqProperties
<1> HIDE DEF a, z
<1>4. /\ a \o z \in Seq(S) /\ Len(a \o z) = Len(s) - 1
      /\ \A m \in 1 .. Len(s) - 1 : (a \o z)[m] = IF m <= n - 1 THEN a[m] ELSE z[m - (n - 1)]
  <2>1. /\ a \o z \in Seq(S) /\ Len(a \o z) = Len(a) + Len(z)
        /\ \A m \in 1 .. Len(a) + Len(z) :
             (a \o z)[m] = IF m <= Len(a) THEN a[m] ELSE z[m - Len(a)]
    BY <1>2, <1>3, ConcatProperties
  <2>2. Len(a) + Len(z) = Len(s) - 1 /\ Len(a) = n - 1
    BY <1>2, <1>3
  <2> QED
    BY <2>1, <2>2
<1>5. \A m \in 1 .. Len(s) - 1 : (a \o z)[m] = IF m < n THEN s[m] ELSE s[m + 1]
  <2> TAKE m \in 1 .. Len(s) - 1
  <2>1. CASE m < n
    BY <1>2, <1>4, <2>1
  <2>2. CASE ~(m < n)
    <3>1. m - (n - 1) \in 1 .. Len(s) - n /\ n + (m - (n - 1)) = m + 1
      BY <2>2
    <3> QED
      BY <1>3, <1>4, <2>2, <3>1
  <2> QED
    BY <2>1, <2>2
<1> QED
  BY <1>4, <1>5 DEF RemoveAt, a, z

\* CommandParser::execute answers one of the replies, or nothing.
LEMMA AnswerType ==
  ASSUME NEW tokens, NEW auth \in BOOLEAN, NEW pass
  PROVE  Answer(tokens, auth, pass) \in
           [reply : Replies \cup {None}, auth : BOOLEAN, close : BOOLEAN]
BY DEF Answer, Replies

\* Before main() does anything the types hold and the table is empty.
LEMMA InitTypes == Init => TypeInv /\ TableInv
<1> SUFFICES ASSUME Init PROVE TypeInv /\ TableInv
  OBVIOUS
<1> USE TcpServerAssumption DEF Init
<1>1. TypeInv
  <2>1. script \in [Connections -> Seq(Words)]
    OBVIOUS
  <2>2. \A c \in Connections : Len(script[c]) \in Nat
    BY <2>1
  <2>3. /\ << >> \in Seq(Polled) /\ Len(<< >>) = 0 /\ << >> \in Seq(Connections)
        /\ << >> \in Seq(Replies)
    OBVIOUS
  <2>4. poll_fds \in Seq(Polled) /\ active = Len(poll_fds) /\ backlog \in Seq(Connections)
    BY <2>3
  <2>5. inbox \in [Connections -> Seq(Replies)]
    BY <2>3
  <2>6. file \in [Fds -> Connections \cup {None, "elsewhere"}]
    OBVIOUS
  <2>7. pc \in States /\ i \in Nat \ {0}
    BY DEF States
  <2>10. running \in BOOLEAN /\ listening \in BOOLEAN
    BY Zenon
  <2>8. /\ sessions \in [Fds -> Sessions \cup {None}]
        /\ peer \in [Connections -> {"new", "open", "closed", "reset"}]
    OBVIOUS
  <2>9. /\ sent \in [Connections -> Nat] /\ taken \in [Connections -> Nat]
        /\ \A c \in Connections : taken[c] <= sent[c] /\ sent[c] <= Len(script[c])
        /\ unread \in [Connections -> Nat] /\ overrun \in [Connections -> BOOLEAN]
    BY <2>2
  <2> QED
    BY <2>1, <2>4, <2>5, <2>6, <2>7, <2>8, <2>9, <2>10 DEF TypeInv
<1>2. TableInv
  BY DEF TableInv, Serving
<1> QED
  BY <1>1, <1>2

-----------------------------------------------------------------------------
(* The steps that change the table                                         *)

\* What stop leaves.
LEMMA StopTypes ==
  ASSUME TypeInv, Stop
  PROVE  /\ running' \in BOOLEAN /\ listening' \in BOOLEAN
         /\ backlog' \in Seq(Connections)
         /\ sessions' \in [Fds -> Sessions \cup {None}]
         /\ file' \in [Fds -> Connections \cup {None, "elsewhere"}]
<1>1. CASE running
  <2>1. running' \in BOOLEAN /\ listening' \in BOOLEAN
    BY <1>1, Zenon DEF Stop, CloseAll
  <2>2. /\ backlog' = << >> /\ sessions' = [fd \in Fds |-> None]
        /\ file' = [fd \in Fds |-> IF sessions[fd] # None THEN None ELSE file[fd]]
    BY <1>1 DEF Stop, CloseAll
  <2> QED
    BY <2>1, <2>2 DEF TypeInv
<1>2. CASE ~running
  BY <1>2, Zenon DEF Stop, TypeInv
<1> QED
  BY <1>1, <1>2

\* poll writes revents and nothing else.
LEMMA PollTypes ==
  ASSUME TypeInv, Poll
  PROVE  /\ poll_fds' \in Seq(Polled) /\ Len(poll_fds') = Len(poll_fds)
         /\ \A n \in DOMAIN poll_fds : poll_fds'[n].fd = poll_fds[n].fd
<1>1. poll_fds' = [n \in DOMAIN poll_fds |->
                     [poll_fds[n] EXCEPT !.revents = Event(file[poll_fds[n].fd])]]
  BY DEF Poll
<1>2. \A c : Event(c) \in {"none", "in", "err"}
  BY DEF Event
<1>3. DOMAIN poll_fds = 1 .. Len(poll_fds) /\ Len(poll_fds) \in Nat
  BY DEF TypeInv
<1>4. \A n \in 1 .. Len(poll_fds) :
        /\ [poll_fds[n] EXCEPT !.revents = Event(file[poll_fds[n].fd])] \in Polled
        /\ [poll_fds[n] EXCEPT !.revents = Event(file[poll_fds[n].fd])].fd = poll_fds[n].fd
  <2> TAKE n \in 1 .. Len(poll_fds)
  <2>1. poll_fds[n] \in Polled
    BY DEF TypeInv
  <2> QED
    BY <1>2, <2>1 DEF Polled
<1>5. poll_fds' = [n \in 1 .. Len(poll_fds) |->
                     [poll_fds[n] EXCEPT !.revents = Event(file[poll_fds[n].fd])]]
  BY <1>1, <1>3
<1>6. poll_fds' \in Seq(Polled) /\ Len(poll_fds') = Len(poll_fds)
  BY <1>3, <1>4, <1>5
<1> QED
  BY <1>3, <1>4, <1>5, <1>6

\* The entry the loop is at.
LEMMA AtEntry ==
  ASSUME TypeInv, i <= Len(poll_fds)
  PROVE  i \in 1 .. Len(poll_fds) /\ poll_fds[i] \in Polled /\ Fd \in Fds
<1>1. i \in 1 .. Len(poll_fds) /\ poll_fds \in Seq(Polled)
  BY DEF TypeInv
<1>2. poll_fds[i] \in Polled
  BY <1>1
<1> QED
  BY <1>1, <1>2 DEF Fd, Polled

\* Closing a client keeps the types, and the metrics count the entries.
LEMMA DropTypes ==
  ASSUME TypeInv, i <= Len(poll_fds), Drop
  PROVE  /\ poll_fds' \in Seq(Polled) /\ active' = Len(poll_fds')
         /\ sessions' \in [Fds -> Sessions \cup {None}]
         /\ file' \in [Fds -> Connections \cup {None, "elsewhere"}]
<1>1. i \in 1 .. Len(poll_fds)
  BY AtEntry
<1>2. /\ poll_fds' = RemoveAt(poll_fds, i) /\ active' = active - 1
      /\ file' = [file EXCEPT ![Fd] = None] /\ sessions' = [sessions EXCEPT ![Fd] = None]
  BY DEF Drop
<1>3. RemoveAt(poll_fds, i) \in Seq(Polled) /\ Len(RemoveAt(poll_fds, i)) = Len(poll_fds) - 1
  BY <1>1, Removed DEF TypeInv
<1> QED
  BY <1>2, <1>3 DEF TypeInv

\* accept opens one free descriptor on the client at the head of the queue.
LEMMA AcceptTypes ==
  ASSUME TypeInv, AcceptOne
  PROVE  /\ poll_fds' \in Seq(Polled) /\ active' = Len(poll_fds')
         /\ sessions' \in [Fds -> Sessions \cup {None}]
         /\ file' \in [Fds -> Connections \cup {None, "elsewhere"}]
         /\ backlog' \in Seq(Connections)
         /\ \E fd \in FreeFds :
              /\ poll_fds' = Append(poll_fds, [fd |-> fd, revents |-> "none"])
              /\ sessions' = [sessions EXCEPT ![fd] = NewSession]
              /\ file' = [file EXCEPT ![fd] = Head(backlog)]
<1> DEFINE fd == Min(FreeFds)
<1>1. fd \in FreeFds
  <2>1. FreeFds \subseteq Nat /\ FreeFds # {}
    BY TcpServerAssumption DEF AcceptOne, FreeFds, Fds
  <2> QED
    BY <2>1, LowestFree
<1> HIDE DEF fd
<1>2. /\ poll_fds' = Append(poll_fds, [fd |-> fd, revents |-> "none"])
      /\ sessions' = [sessions EXCEPT ![fd] = NewSession]
      /\ file' = [file EXCEPT ![fd] = Head(backlog)]
      /\ backlog' = Tail(backlog) /\ active' = active + 1 /\ backlog # << >>
  BY DEF AcceptOne, fd
<1>3. fd \in Fds /\ [fd |-> fd, revents |-> "none"] \in Polled
  BY <1>1 DEF FreeFds, Polled
<1>4. NewSession \in Sessions
  BY DEF NewSession, Sessions
<1>5. Head(backlog) \in Connections /\ Tail(backlog) \in Seq(Connections)
  BY <1>2 DEF TypeInv
<1>6. poll_fds' \in Seq(Polled) /\ active' = Len(poll_fds')
  BY <1>2, <1>3 DEF TypeInv
<1>7. /\ sessions' \in [Fds -> Sessions \cup {None}]
      /\ file' \in [Fds -> Connections \cup {None, "elsewhere"}]
  BY <1>2, <1>3, <1>4, <1>5 DEF TypeInv
<1> QED
  BY <1>1, <1>2, <1>5, <1>6, <1>7

\* After stop no session is left, and no descriptor that is still polled is open.
LEMMA StopTable ==
  ASSUME TypeInv, TableInv, Stop
  PROVE  /\ running' = FALSE /\ listening' = FALSE
         /\ \A fd \in Fds : sessions'[fd] = None /\ file'[fd] \notin Connections
         /\ \A n \in DOMAIN poll_fds : file'[poll_fds[n].fd] = None
<1>0. \A n \in DOMAIN poll_fds : poll_fds[n].fd \in Fds
  <2>1. \A n \in DOMAIN poll_fds : poll_fds[n] \in Polled
    BY DEF TypeInv
  <2> QED
    BY <2>1 DEF Polled
<1>1. CASE running
  <2>1. /\ running' = FALSE /\ listening' = FALSE /\ sessions' = [fd \in Fds |-> None]
        /\ file' = [fd \in Fds |-> IF sessions[fd] # None THEN None ELSE file[fd]]
    BY <1>1 DEF Stop, CloseAll
  <2> QED
    BY <1>0, <1>1, <2>1, TcpServerAssumption DEF TypeInv, TableInv
<1>2. CASE ~running
  <2>1. running' = running /\ listening' = listening /\ sessions' = sessions /\ file' = file
    BY <1>2 DEF Stop
  <2>2. \A fd \in Fds : sessions[fd] = None /\ file[fd] \notin Connections
    BY <1>2 DEF TableInv
  <2>3. running = FALSE /\ listening = FALSE
    BY <1>2 DEF TypeInv, TableInv
  <2>4. \A n \in DOMAIN poll_fds : file[poll_fds[n].fd] = None
    BY <1>2 DEF TableInv
  <2> QED
    BY <2>1, <2>2, <2>3, <2>4
<1> QED
  BY <1>1, <1>2

\* The conjuncts of TableInv on the descriptors.
LEMMA DropTable ==
  ASSUME TypeInv, TableInv, i <= Len(poll_fds), Drop, running' = running
  PROVE  /\ \A m, n \in DOMAIN poll_fds' : poll_fds'[m].fd = poll_fds'[n].fd => m = n
         /\ \A fd \in Fds : sessions'[fd] # None <=> file'[fd] \in Connections
         /\ ~running' => /\ \A fd \in Fds : sessions'[fd] = None
                         /\ \A n \in DOMAIN poll_fds' : file'[poll_fds'[n].fd] = None
         /\ running' => \A fd \in Fds : sessions'[fd] # None <=>
                                  \E n \in DOMAIN poll_fds' : poll_fds'[n].fd = fd
<1> DEFINE L == Len(poll_fds)
<1>1. i \in 1 .. L /\ Fd \in Fds /\ L \in Nat /\ DOMAIN poll_fds = 1 .. L
  BY AtEntry DEF TypeInv
<1>2. /\ DOMAIN poll_fds' = 1 .. L - 1
      /\ \A m \in 1 .. L - 1 : poll_fds'[m] = IF m < i THEN poll_fds[m] ELSE poll_fds[m + 1]
  <2>1. poll_fds \in Seq(Polled) /\ poll_fds' = RemoveAt(poll_fds, i)
    BY DEF Drop, TypeInv
  <2>2. /\ RemoveAt(poll_fds, i) \in Seq(Polled) /\ Len(RemoveAt(poll_fds, i)) = L - 1
        /\ \A m \in 1 .. L - 1 :
             RemoveAt(poll_fds, i)[m] = IF m < i THEN poll_fds[m] ELSE poll_fds[m + 1]
    BY <1>1, <2>1, Removed
  <2> QED
    BY <2>1, <2>2
<1>3. \A fd \in Fds : /\ file'[fd] = IF fd = Fd THEN None ELSE file[fd]
                      /\ sessions'[fd] = IF fd = Fd THEN None ELSE sessions[fd]
  BY DEF Drop, TypeInv
<1>4. \A m, n \in 1 .. L : poll_fds[m].fd = poll_fds[n].fd => m = n
  BY <1>1 DEF TableInv
<1>5. poll_fds[i].fd = Fd
  BY DEF Fd
<1> HIDE DEF L
<1>6. \A m, n \in 1 .. L - 1 : poll_fds'[m].fd = poll_fds'[n].fd => m = n
  BY <1>1, <1>2, <1>4
<1>7. \A fd \in Fds : sessions'[fd] # None <=> file'[fd] \in Connections
  BY <1>3, TcpServerAssumption DEF TableInv
<1>8. ~running' => \A fd \in Fds : sessions'[fd] = None
  BY <1>3 DEF TableInv
<1>9. \A fd \in Fds : (\E n \in 1 .. L - 1 : poll_fds'[n].fd = fd) <=>
                        fd # Fd /\ \E n \in 1 .. L : poll_fds[n].fd = fd
  <2> TAKE fd \in Fds
  <2>1. ASSUME NEW n \in 1 .. L - 1, poll_fds'[n].fd = fd
        PROVE  fd # Fd /\ \E m \in 1 .. L : poll_fds[m].fd = fd
    <3>1. PICK m \in 1 .. L : m # i /\ poll_fds'[n] = poll_fds[m]
      <4>1. CASE n < i
        BY <1>1, <1>2, <4>1
      <4>2. CASE ~(n < i)
        <5>1. n + 1 \in 1 .. L /\ n + 1 # i /\ poll_fds'[n] = poll_fds[n + 1]
          BY <1>1, <1>2, <4>2
        <5> QED
          BY <5>1
      <4> QED
        BY <4>1, <4>2
    <3> QED
      BY <1>1, <1>4, <1>5, <2>1, <3>1
  <2>2. ASSUME fd # Fd, NEW n \in 1 .. L, poll_fds[n].fd = fd
        PROVE  \E m \in 1 .. L - 1 : poll_fds'[m].fd = fd
    <3>1. n # i
      BY <1>5, <2>2
    <3>2. CASE n < i
      BY <1>1, <1>2, <2>2, <3>2
    <3>3. CASE n > i
      <4>1. n - 1 \in 1 .. L - 1 /\ ~(n - 1 < i) /\ (n - 1) + 1 = n
        BY <1>1, <3>3
      <4>2. poll_fds'[n - 1] = poll_fds[n]
        BY <1>2, <4>1
      <4> QED
        BY <2>2, <4>1, <4>2
    <3> QED
      BY <1>1, <3>1, <3>2, <3>3
  <2> QED
    BY <2>1, <2>2
<1>10. running' => \A fd \in Fds : sessions'[fd] # None <=>
                                    \E n \in 1 .. L - 1 : poll_fds'[n].fd = fd
  <2>1. running => \A fd \in Fds : sessions[fd] # None <=> \E n \in 1 .. L : poll_fds[n].fd = fd
    BY <1>1 DEF TableInv
  <2> QED
    BY <1>3, <1>9, <2>1
<1>11. ~running' => \A n \in 1 .. L - 1 : file'[poll_fds'[n].fd] = None
  <2> SUFFICES ASSUME ~running, NEW n \in 1 .. L - 1 PROVE file'[poll_fds'[n].fd] = None
    OBVIOUS
  <2>1. PICK m \in 1 .. L : poll_fds'[n] = poll_fds[m]
    <3>1. CASE n < i
      BY <1>1, <1>2, <3>1
    <3>2. CASE ~(n < i)
      <4>1. n + 1 \in 1 .. L /\ poll_fds'[n] = poll_fds[n + 1]
        BY <1>1, <1>2, <3>2
      <4> QED
        BY <4>1
    <3> QED
      BY <3>1, <3>2
  <2>2. file[poll_fds[m].fd] = None /\ poll_fds[m] \in Polled
    <3>1. m \in DOMAIN poll_fds /\ poll_fds \in Seq(Polled)
      BY <1>1 DEF TypeInv
    <3> QED
      BY <3>1 DEF TableInv
  <2> QED
    BY <1>3, <2>1, <2>2 DEF Polled
<1> QED
  BY <1>2, <1>6, <1>7, <1>8, <1>10, <1>11

\* accept adds a client to the table on all its sides.
LEMMA AcceptTable ==
  ASSUME TypeInv, TableInv, AcceptOne
  PROVE  TableInv'
<1> DEFINE L == Len(poll_fds)
<1>1. L \in Nat /\ DOMAIN poll_fds = 1 .. L /\ poll_fds \in Seq(Polled)
  BY DEF TypeInv
<1>2. PICK fd \in FreeFds :
        /\ poll_fds' = Append(poll_fds, [fd |-> fd, revents |-> "none"])
        /\ sessions' = [sessions EXCEPT ![fd] = NewSession]
        /\ file' = [file EXCEPT ![fd] = Head(backlog)]
  BY AcceptTypes
<1>3. fd \in Fds /\ file[fd] = None
  BY DEF FreeFds
<1>4. Head(backlog) \in Connections /\ NewSession # None
  <2>1. backlog # << >> /\ backlog \in Seq(Connections)
    BY DEF AcceptOne, TypeInv
  <2>2. NewSession \in Sessions
    BY DEF NewSession, Sessions
  <2> QED
    BY <2>1, <2>2, TcpServerAssumption
<1>5. /\ UNCHANGED <<pc, running, listening, signal>> /\ pc = "accept" /\ running
  BY DEF AcceptOne, life, TableInv
<1>6. /\ DOMAIN poll_fds' = 1 .. L + 1
      /\ \A n \in 1 .. L : poll_fds'[n] = poll_fds[n]
      /\ poll_fds'[L + 1].fd = fd
  <2>1. [fd |-> fd, revents |-> "none"] \in Polled
    BY <1>3 DEF Polled
  <2> HIDE DEF L
  <2>2. L = Len(poll_fds)
    BY DEF L
  <2> QED
    BY <1>1, <1>2, <2>1, <2>2
<1> HIDE DEF L
<1>7. \A f \in Fds : /\ sessions'[f] = IF f = fd THEN NewSession ELSE sessions[f]
                     /\ file'[f] = IF f = fd THEN Head(backlog) ELSE file[f]
  BY <1>2 DEF TypeInv
<1>8. \A f \in Fds : sessions[f] # None <=> \E n \in 1 .. L : poll_fds[n].fd = f
  BY <1>1, <1>5 DEF TableInv
<1>9. sessions[fd] = None
  BY <1>3, TcpServerAssumption DEF TableInv
<1>10. \A m, n \in DOMAIN poll_fds' : poll_fds'[m].fd = poll_fds'[n].fd => m = n
  <2>1. \A m, n \in 1 .. L : poll_fds[m].fd = poll_fds[n].fd => m = n
    BY <1>1 DEF TableInv
  <2>2. \A n \in 1 .. L : poll_fds[n].fd # fd
    BY <1>3, <1>8, <1>9
  <2> QED
    BY <1>1, <1>6, <2>1, <2>2
<1>11. \A f \in Fds : sessions'[f] # None <=> file'[f] \in Connections
  BY <1>4, <1>7 DEF TableInv
<1>12. \A f \in Fds : sessions'[f] # None <=> \E n \in DOMAIN poll_fds' : poll_fds'[n].fd = f
  <2> TAKE f \in Fds
  <2>1. CASE f = fd
    BY <1>1, <1>4, <1>6, <1>7, <2>1
  <2>2. CASE f # fd
    BY <1>1, <1>6, <1>7, <1>8, <2>2
  <2> QED
    BY <2>1, <2>2
<1> QED
  BY <1>5, <1>10, <1>11, <1>12 DEF TableInv, Serving

-----------------------------------------------------------------------------
(* Lines                                                                   *)

\* find returns the first end of line there is.
LEMMA FirstEnd ==
  ASSUME NEW b \in Seq(Words), HasLine(b)
  PROVE  /\ EndOfLine(b) \in 1 .. Len(b) /\ b[EndOfLine(b)] = NL
         /\ \A m \in 1 .. EndOfLine(b) - 1 : b[m] # NL
<1> DEFINE U == {n \in 1 .. Len(b) : b[n] = NL}
<1>1. U \subseteq Nat /\ U # {}
  BY DEF HasLine
<1>2. PICK n \in U : \A m \in U : n <= m
  BY <1>1, LeastNumber
<1>3. n \in DOMAIN b /\ b[n] = NL /\ \A m \in 1 .. n - 1 : b[m] # NL
  <2>1. \A m \in 1 .. n - 1 : m \in 1 .. Len(b) /\ ~(n <= m)
    BY <1>2
  <2> QED
    BY <1>2, <2>1
<1>4. DOMAIN b = 1 .. Len(b)
  OBVIOUS
<1> QED
  BY <1>3, <1>4 DEF EndOfLine

\* A line is served for a session that exists, on an open connection.
LEMMA LineTypes ==
  ASSUME TypeInv, TableInv, AtLine
  PROVE  /\ Fd \in Fds /\ sessions[Fd] \in Sessions /\ i \in 1 .. Len(poll_fds)
         /\ Conn \in Connections
         /\ Line \in Seq(Words) /\ Rest \in Seq(Words)
         /\ Result \in [reply : Replies \cup {None}, auth : BOOLEAN, close : BOOLEAN]
<1>1. i \in 1 .. Len(poll_fds) /\ Fd \in Fds /\ running
  BY AtEntry DEF AtLine, TableInv
<1>2. sessions[Fd] # None
  <2>1. i \in DOMAIN poll_fds /\ poll_fds[i].fd = Fd
    BY <1>1 DEF TypeInv, Fd
  <2> QED
    BY <1>1, <2>1 DEF TableInv
<1>3. sessions[Fd] \in Sessions /\ Conn \in Connections
  BY <1>1, <1>2 DEF TypeInv, TableInv, Conn
<1>4. sessions[Fd].buffer \in Seq(Words) /\ sessions[Fd].auth \in BOOLEAN
  BY <1>3 DEF Sessions
<1>5. EndOfLine(sessions[Fd].buffer) \in 1 .. Len(sessions[Fd].buffer)
  BY <1>4, FirstEnd DEF AtLine
<1>6. Line \in Seq(Words) /\ Rest \in Seq(Words)
  <2> DEFINE b == sessions[Fd].buffer
             e == EndOfLine(b)
  <2>1. b \in Seq(Words) /\ e \in 1 .. Len(b)
    BY <1>4, <1>5
  <2> HIDE DEF b, e
  <2>2. \A m \in 1 .. Len(b) : b[m] \in Words
    BY <2>1
  <2>3. SubSeq(b, 1, e - 1) \in Seq(Words) /\ SubSeq(b, e + 1, Len(b)) \in Seq(Words)
    BY <2>1, <2>2, SubSeqProperties
  <2> QED
    BY <2>3 DEF Line, Rest, b, e
<1>7. Result \in [reply : Replies \cup {None}, auth : BOOLEAN, close : BOOLEAN]
  BY <1>4, AnswerType DEF Result
<1> QED
  BY <1>1, <1>3, <1>6, <1>7

\* The session that a line leaves.
LEMMA ServedSession ==
  ASSUME TypeInv, TableInv, AtLine
  PROVE  [buffer |-> Rest, auth |-> Result.auth] \in Sessions
BY LineTypes DEF Sessions

\* send keeps the types of what it writes.
LEMMA SendTypes ==
  ASSUME TypeInv, NEW c \in Connections, NEW reply \in Replies \cup {None}, Send(c, reply)
  PROVE  /\ inbox' \in [Connections -> Seq(Replies)]
         /\ unread' \in [Connections -> Nat] /\ overrun' \in [Connections -> BOOLEAN]
<1>1. CASE UNCHANGED <<inbox, unread, overrun>>
  BY <1>1 DEF TypeInv
<1>2. CASE /\ reply # None /\ UNCHANGED overrun
           /\ inbox' = [inbox EXCEPT ![c] = Append(@, reply)]
           /\ unread' = [unread EXCEPT ![c] = @ + 1]
  <2>1. Append(inbox[c], reply) \in Seq(Replies)
    BY <1>2 DEF TypeInv
  <2> QED
    BY <1>2, <2>1 DEF TypeInv
<1>3. CASE overrun' = [overrun EXCEPT ![c] = TRUE] /\ UNCHANGED <<inbox, unread>>
  BY <1>3 DEF TypeInv
<1> QED
  BY <1>1, <1>2, <1>3 DEF Send

\* What recv returns.
LEMMA Received ==
  ASSUME TypeInv, TableInv, Receive
  PROVE  /\ Fd \in Fds /\ Conn \in Connections /\ sessions[Fd] \in Sessions
         /\ i \in 1 .. Len(poll_fds) /\ running
         /\ \E got \in Seq(Words) :
              /\ Len(got) >= 1 /\ taken[Conn] + Len(got) <= sent[Conn]
              /\ \A n \in 1 .. Len(got) : got[n] = script[Conn][taken[Conn] + n]
              /\ sessions' = [sessions EXCEPT ![Fd].buffer = @ \o got]
              /\ taken' = [taken EXCEPT ![Conn] = @ + Len(got)]
<1>1. i \in 1 .. Len(poll_fds) /\ Fd \in Fds /\ Conn # None
  BY AtEntry DEF Receive, AtClient
<1>2. Conn \in Connections /\ sessions[Fd] \in Sessions /\ running
  <2>1. i \in DOMAIN poll_fds /\ poll_fds[i].fd = Fd
    BY <1>1 DEF TypeInv, Fd
  <2>2. running
    BY <1>1, <2>1 DEF TableInv, Conn
  <2>3. sessions[Fd] # None
    BY <1>1, <2>1, <2>2 DEF TableInv
  <2> QED
    BY <1>1, <2>2, <2>3 DEF TypeInv, TableInv, Conn
<1>3. taken[Conn] \in Nat /\ sent[Conn] \in Nat /\ script[Conn] \in Seq(Words)
      /\ taken[Conn] <= sent[Conn] /\ sent[Conn] <= Len(script[Conn])
  BY <1>2 DEF TypeInv
<1> DEFINE w == Waiting(Conn)
           got == IF Len(w) < Chunk THEN w ELSE SubSeq(w, 1, Chunk)
<1>4. /\ w \in Seq(Words) /\ Len(w) = sent[Conn] - taken[Conn]
      /\ \A n \in 1 .. Len(w) : w[n] = script[Conn][taken[Conn] + n]
  <2> DEFINE s == script[Conn]
             t == taken[Conn]
             u == sent[Conn]
  <2>1. s \in Seq(Words) /\ t \in Nat /\ u \in Nat /\ t <= u /\ u <= Len(s)
    BY <1>3
  <2> HIDE DEF s, t, u
  <2>2. \A n \in t + 1 .. u : s[n] \in Words
    BY <2>1
  <2>3. /\ SubSeq(s, t + 1, u) \in Seq(Words) /\ Len(SubSeq(s, t + 1, u)) = u - t
        /\ \A n \in 1 .. u - t : SubSeq(s, t + 1, u)[n] = s[t + n]
    BY <2>1, <2>2, SubSeqProperties
  <2> QED
    BY <2>3 DEF Waiting, s, t, u
<1>5. w # << >> /\ Len(w) >= 1
  <2>1. w # << >>
    BY DEF Receive
  <2> QED
    BY <1>4, <2>1
<1>6. /\ got \in Seq(Words) /\ Len(got) >= 1 /\ Len(got) <= Len(w)
      /\ \A n \in 1 .. Len(got) : got[n] = w[n]
  <2> HIDE DEF w
  <2>1. CASE Len(w) < Chunk
    BY <1>4, <1>5, <2>1
  <2>2. CASE ~(Len(w) < Chunk)
    <3>1. Chunk \in 1 .. Len(w)
      BY <1>4, <2>2, TcpServerAssumption
    <3>2. \A n \in 1 .. Chunk : w[n] \in Words
      BY <1>4, <3>1
    <3>3. /\ SubSeq(w, 1, Chunk) \in Seq(Words) /\ Len(SubSeq(w, 1, Chunk)) = Chunk
          /\ \A n \in 1 .. Chunk : SubSeq(w, 1, Chunk)[n] = w[n]
      BY <3>1, <3>2, SubSeqProperties
    <3> QED
      BY <2>2, <3>1, <3>3
  <2> QED
    BY <2>1, <2>2
<1>7. /\ sessions' = [sessions EXCEPT ![Fd].buffer = @ \o got]
      /\ taken' = [taken EXCEPT ![Conn] = @ + Len(got)]
  BY DEF Receive, Buffered
<1> HIDE DEF w, got
<1>8. /\ taken[Conn] + Len(got) <= sent[Conn]
      /\ \A n \in 1 .. Len(got) : got[n] = script[Conn][taken[Conn] + n]
  BY <1>3, <1>4, <1>6
<1> QED
  BY <1>1, <1>2, <1>6, <1>7, <1>8

-----------------------------------------------------------------------------
(* The types and the table, step by step                                   *)

\* A step that moves the loop on only keeps the types.
LEMMA QuietTypes ==
  ASSUME TypeInv, TableInv, UNCHANGED <<running, listening, poll_fds, sessions, file, active>>,
         UNCHANGED <<backlog, peer, script, sent, taken, inbox, unread, overrun, requirepass>>,
         pc' \in States, i' \in Nat \ {0}
  PROVE  TypeInv'
BY DEF TypeInv

\* No step breaks the types or makes the table disagree with itself: the sessions,
\* the entries of poll and the descriptors change together.
LEMMA StepTypes == TypeInv /\ TableInv /\ [Next]_vars => TypeInv' /\ TableInv'
<1> SUFFICES ASSUME TypeInv, TableInv, [Next]_vars PROVE TypeInv' /\ TableInv'
  OBVIOUS
<1> USE DEF vars, life, table, net, flow, given
<1>1. CASE Construct
  <2>1. TypeInv'
    BY <1>1, QuietTypes DEF Construct, TypeInv, States
  <2>2. TableInv'
    BY <1>1 DEF Construct, TableInv, Serving
  <2> QED
    BY <2>1, <2>2
<1>2. CASE Start
  <2>1. TypeInv'
    BY <1>2 DEF Start, TypeInv, States
  <2>2. TableInv'
    BY <1>2, TcpServerAssumption DEF Start, TableInv, TypeInv, Serving
  <2> QED
    BY <2>1, <2>2
<1>3. CASE Signal
  <2>1. TypeInv'
    BY <1>3, StopTypes DEF Signal, TypeInv, States
  <2>2. TableInv'
    <3>1. /\ poll_fds' = poll_fds /\ pc' # "lines"
          /\ pc' \in {"init", "built"} => pc \in {"init", "built"}
      BY <1>3 DEF Signal
    <3>2. Serving' => signal' = "serving"
      BY <1>3 DEF Signal, TableInv, Serving
    <3> QED
      BY <1>3, <3>1, <3>2, StopTable DEF Signal, TableInv, TypeInv
  <2> QED
    BY <2>1, <2>2
<1>4. CASE Finish
  <2>1. TypeInv'
    BY <1>4, StopTypes DEF Finish, TypeInv, States
  <2>2. TableInv'
    BY <1>4, StopTable DEF Finish, TableInv, TypeInv, Serving
  <2> QED
    BY <2>1, <2>2
<1>5. CASE PollFails
  <2>1. TypeInv'
    BY <1>5, QuietTypes DEF PollFails, TypeInv, States
  <2>2. TableInv'
    BY <1>5 DEF PollFails, TableInv, Serving
  <2> QED
    BY <2>1, <2>2
<1>6. CASE Killed
  <2>1. TypeInv'
    BY <1>6, QuietTypes DEF Killed, TypeInv, States
  <2>2. TableInv'
    BY <1>6 DEF Killed, TableInv, Serving
  <2> QED
    BY <2>1, <2>2
<1>7. ASSUME NEW c \in Connections, Connect(c) PROVE TypeInv' /\ TableInv'
  <2>1. TypeInv'
    BY <1>7 DEF Connect, TypeInv
  <2>2. TableInv'
    BY <1>7 DEF Connect, TableInv, Serving
  <2> QED
    BY <2>1, <2>2
<1>8. ASSUME NEW c \in Connections, Say(c) PROVE TypeInv' /\ TableInv'
  <2>1. TypeInv'
    BY <1>8 DEF Say, TypeInv
  <2>2. TableInv'
    BY <1>8 DEF Say, TableInv, Serving
  <2> QED
    BY <2>1, <2>2
<1>9. ASSUME NEW c \in Connections, Read(c) PROVE TypeInv' /\ TableInv'
  <2>1. TypeInv'
    BY <1>9 DEF Read, TypeInv
  <2>2. TableInv'
    BY <1>9 DEF Read, TableInv, Serving
  <2> QED
    BY <2>1, <2>2
<1>10. ASSUME NEW c \in Connections, Leave(c) PROVE TypeInv' /\ TableInv'
  <2>1. TypeInv'
    BY <1>10 DEF Leave, TypeInv
  <2>2. TableInv'
    BY <1>10 DEF Leave, TableInv, Serving
  <2> QED
    BY <2>1, <2>2
<1>11. CASE LeaveLoop
  <2>1. TypeInv'
    BY <1>11, QuietTypes DEF LeaveLoop, AtClient, TypeInv, States
  <2>2. TableInv'
    BY <1>11 DEF LeaveLoop, AtClient, TableInv, Serving
  <2> QED
    BY <2>1, <2>2
<1>12. CASE AcceptNone
  <2>1. TypeInv'
    BY <1>12, QuietTypes DEF AcceptNone, AtClient, TypeInv, States
  <2>2. TableInv'
    BY <1>12 DEF AcceptNone, AtClient, TableInv, Serving
  <2> QED
    BY <2>1, <2>2
<1>13. CASE ClientsDone
  <2>1. TypeInv'
    BY <1>13, QuietTypes DEF ClientsDone, AtClient, TypeInv, States
  <2>2. TableInv'
    BY <1>13 DEF ClientsDone, AtClient, TableInv, Serving
  <2> QED
    BY <2>1, <2>2
<1>14. CASE NothingThere
  <2>1. TypeInv'
    <3>1. i' = i + 1 /\ pc' = pc
      BY <1>14 DEF NothingThere
    <3> QED
      BY <1>14, <3>1, QuietTypes DEF NothingThere, TypeInv
  <2>2. TableInv'
    BY <1>14 DEF NothingThere, AtClient, TableInv, Serving
  <2> QED
    BY <2>1, <2>2
<1>15. CASE LinesDone
  <2>1. TypeInv'
    BY <1>15, QuietTypes DEF LinesDone, AtClient, TypeInv, States
  <2>2. TableInv'
    BY <1>15 DEF LinesDone, AtClient, TableInv, Serving
  <2> QED
    BY <2>1, <2>2
<1>16. CASE Poll
  <2>1. TypeInv'
    <3>1. pc' \in States /\ i' \in Nat \ {0} /\ UNCHANGED <<running, listening, active, sessions, file>>
      BY <1>16 DEF Poll, States
    <3>2. UNCHANGED <<backlog, peer, script, sent, taken, inbox, unread, overrun, requirepass>>
      BY <1>16 DEF Poll
    <3> QED
      BY <1>16, <3>1, <3>2, PollTypes DEF TypeInv
  <2>2. TableInv'
    <3>1. /\ DOMAIN poll_fds' = DOMAIN poll_fds
          /\ \A n \in DOMAIN poll_fds : poll_fds'[n].fd = poll_fds[n].fd
      BY <1>16, PollTypes DEF TypeInv
    <3>2. /\ UNCHANGED <<running, listening, signal, sessions, file>>
          /\ pc \in {"poll", "tested"} /\ pc' \in {"accept", "clients"}
      BY <1>16 DEF Poll, Polls
    <3> QED
      BY <3>1, <3>2 DEF TableInv, Serving
  <2> QED
    BY <2>1, <2>2
<1>17. CASE AcceptOne
  <2>1. TypeInv'
    BY <1>17, AcceptTypes DEF AcceptOne, TypeInv, States
  <2>2. TableInv'
    BY <1>17, AcceptTable
  <2> QED
    BY <2>1, <2>2
<1>18. CASE HangUp
  <2>1. TypeInv'
    BY <1>18, DropTypes DEF HangUp, AtClient, TypeInv, States
  <2>2. TableInv'
    <3>1. /\ i <= Len(poll_fds) /\ Drop /\ pc = "clients"
          /\ UNCHANGED <<pc, running, listening, signal>>
      BY <1>18 DEF HangUp, AtClient
    <3> QED
      BY <3>1, DropTable DEF TableInv, Serving
  <2> QED
    BY <2>1, <2>2
<1>19. CASE Receive
  <2>1. PICK got \in Seq(Words) :
          /\ taken[Conn] + Len(got) <= sent[Conn]
          /\ sessions' = [sessions EXCEPT ![Fd].buffer = @ \o got]
          /\ taken' = [taken EXCEPT ![Conn] = @ + Len(got)]
    BY <1>19, Received
  <2>2. Fd \in Fds /\ Conn \in Connections /\ sessions[Fd] \in Sessions /\ running
        /\ i <= Len(poll_fds)
    BY <1>19, Received
  <2>3. [sessions[Fd] EXCEPT !.buffer = @ \o got] \in Sessions
    <3>1. sessions[Fd].buffer \o got \in Seq(Words)
      BY <2>2 DEF Sessions
    <3> QED
      BY <2>2, <3>1 DEF Sessions
  <2>4. /\ pc' = "lines"
        /\ UNCHANGED <<i, running, listening, signal, poll_fds, file, active, backlog, peer, sent,
                      inbox, unread, overrun, requirepass, script>>
    BY <1>19 DEF Receive
  <2>5. TypeInv'
    <3>1. sessions' \in [Fds -> Sessions \cup {None}]
      BY <2>1, <2>2, <2>3 DEF TypeInv
    <3>2. /\ taken' \in [Connections -> Nat]
          /\ \A c \in Connections : taken'[c] <= sent[c]
      BY <2>1, <2>2 DEF TypeInv
    <3> QED
      BY <2>4, <3>1, <3>2 DEF TypeInv, States
  <2>6. \A fd \in Fds : sessions'[fd] # None <=> sessions[fd] # None
    <3>1. [sessions[Fd] EXCEPT !.buffer = @ \o got] # None /\ sessions[Fd] # None
      BY <2>2, <2>3, TcpServerAssumption
    <3> QED
      BY <2>1, <2>2, <3>1 DEF TypeInv
  <2>7. TableInv'
    BY <2>2, <2>4, <2>6 DEF TableInv, Serving
  <2> QED
    BY <2>5, <2>7
<1>20. CASE ServeLine
  <2>1. /\ Fd \in Fds /\ i \in 1 .. Len(poll_fds) /\ Conn \in Connections /\ AtLine
        /\ [buffer |-> Rest, auth |-> Result.auth] \in Sessions
        /\ Result.reply \in Replies \cup {None}
    BY <1>20, LineTypes, ServedSession DEF ServeLine
  <2>2. /\ inbox' \in [Connections -> Seq(Replies)]
        /\ unread' \in [Connections -> Nat] /\ overrun' \in [Connections -> BOOLEAN]
    <3>1. Send(Conn, Result.reply)
      BY <1>20 DEF ServeLine
    <3> QED
      BY <2>1, <3>1, SendTypes
  <2>3. UNCHANGED <<i, running, listening, signal, backlog, peer, sent, taken, requirepass, script>>
        /\ pc = "lines" /\ sessions[Fd] # None /\ running
    <3>1. sessions[Fd] # None
      BY <1>20, LineTypes, TcpServerAssumption DEF ServeLine
    <3>2. running
      BY <1>20 DEF ServeLine, AtLine, TableInv
    <3> QED
      BY <1>20, <3>1, <3>2 DEF ServeLine, AtLine
  <2>4. CASE Result.close
    <3>1. Drop /\ pc' = "clients"
      BY <1>20, <2>4 DEF ServeLine
    <3>2. /\ poll_fds' \in Seq(Polled) /\ active' = Len(poll_fds')
          /\ sessions' \in [Fds -> Sessions \cup {None}]
          /\ file' \in [Fds -> Connections \cup {None, "elsewhere"}]
      BY <2>1, <3>1, DropTypes
    <3>3. TypeInv'
      BY <2>2, <2>3, <3>1, <3>2 DEF TypeInv, States
    <3>4. TableInv'
      BY <2>1, <2>3, <3>1, DropTable DEF TableInv, Serving
    <3> QED
      BY <3>3, <3>4
  <2>5. CASE ~Result.close
    <3>1. /\ sessions' = [sessions EXCEPT ![Fd] = [buffer |-> Rest, auth |-> Result.auth]]
          /\ UNCHANGED <<pc, file, poll_fds, active>>
      BY <1>20, <2>5 DEF ServeLine
    <3>2. /\ sessions' \in [Fds -> Sessions \cup {None}]
          /\ \A fd \in Fds : sessions'[fd] # None <=> sessions[fd] # None
      BY <2>1, <2>3, <3>1, TcpServerAssumption DEF TypeInv
    <3>3. TypeInv'
      BY <2>2, <2>3, <3>1, <3>2 DEF TypeInv
    <3>4. TableInv'
      BY <2>3, <3>1, <3>2 DEF TableInv, Serving
    <3> QED
      BY <3>3, <3>4
  <2> QED
    BY <2>4, <2>5
<1>21. CASE UNCHANGED vars
  <2>1. TypeInv'
    BY <1>21, QuietTypes DEF TypeInv
  <2>2. TableInv'
    BY <1>21 DEF TableInv, Serving
  <2> QED
    BY <2>1, <2>2
<1> HIDE DEF vars
<1> QED
  BY <1>1, <1>2, <1>3, <1>4, <1>5, <1>6, <1>7, <1>8, <1>9, <1>10, <1>11, <1>12, <1>13, <1>14, <1>15,
     <1>16, <1>17, <1>18, <1>19, <1>20, <1>21 DEF Next, Loop

-----------------------------------------------------------------------------
(* Connections and what is buffered of them                                *)

Broken == pc \in {"killed", "undefined"}

\* A connection is in one place at most, and nothing has been done with it
\* before it is accepted.
ConnInv ==
  /\ \A fd, gd \in Fds : file[fd] \in Connections /\ file[fd] = file[gd] => fd = gd
  /\ \A m, n \in DOMAIN backlog : backlog[m] = backlog[n] => m = n
  /\ \A c \in Connections : ~ (Accepted(c) /\ Queued(c))
  /\ \A c \in Connections : peer[c] = "new" => ~Attached(c)
  /\ \A c \in Connections : peer[c] = "new" \/ Queued(c) => taken[c] = 0 /\ inbox[c] = << >>

\* A session has buffered the last bytes that were received on its connection,
\* and an end of line only while its lines are executed.
BufferInv ==
  \A fd \in Fds : file[fd] \in Connections =>
    LET c == file[fd]
        b == sessions[fd].buffer
    IN /\ Len(b) <= taken[c]
       /\ \A n \in 1 .. Len(b) : b[n] = script[c][taken[c] - Len(b) + n]
       /\ ~Broken /\ HasLine(b) => pc = "lines" /\ fd = Fd

\* The steps that leave the sessions and what has been received and answered.
Still ==
  /\ UNCHANGED <<sessions, file, backlog, taken, inbox, overrun, given>>
  /\ \A c \in Connections : peer'[c] = "new" <=> peer[c] = "new"
  /\ pc' = "undefined" <=> pc = "undefined"
  /\ \/ pc' = "killed"
     \/ pc' = "lines" /\ pc = "lines" /\ Fd' = Fd
     \/ pc' # "lines" /\ pc # "killed" /\ (pc = "lines" => ~HasLine(sessions[Fd].buffer))

\* A signal, or the end.
Stopping ==
  /\ \A fd \in Fds : sessions'[fd] = None /\ file'[fd] \notin Connections
  /\ backlog' \in {backlog, << >>}
  /\ UNCHANGED <<peer, taken, inbox, overrun, given>>
  /\ Broken' \/ (~Broken /\ pc # "lines")

\* Steps that leave sessions and bytes alone keep the connections apart.
LEMMA StillConn ==
  ASSUME Still, TypeInv, ConnInv, BufferInv
  PROVE  ConnInv' /\ BufferInv'
<1>1. UNCHANGED <<sessions, file, backlog, taken, inbox, script>>
  BY DEF Still, given
<1>2. ConnInv'
  BY <1>1 DEF ConnInv, Accepted, Queued, Attached, Still
<1>3. \A fd \in Fds : file[fd] \in Connections => sessions[fd].buffer = sessions'[fd].buffer
  BY <1>1
<1>4. ASSUME NEW fd \in Fds, file[fd] \in Connections, ~Broken', HasLine(sessions[fd].buffer)
      PROVE  pc' = "lines" /\ fd = Fd'
  BY <1>4 DEF BufferInv, Still, Broken
<1>5. BufferInv'
  BY <1>1, <1>4 DEF BufferInv
<1> QED
  BY <1>2, <1>5

\* stop leaves no connection in two places: it leaves none anywhere.
LEMMA StoppingConn ==
  ASSUME Stopping, TypeInv, ConnInv, BufferInv
  PROVE  ConnInv' /\ BufferInv'
<1>1. UNCHANGED <<taken, inbox, peer>> /\ \A fd \in Fds : file'[fd] \notin Connections
  BY DEF Stopping
<1>2. BufferInv'
  BY <1>1 DEF BufferInv
<1>3. \A c \in Connections : ~Accepted(c)' /\ (Queued(c)' => Queued(c))
  BY <1>1 DEF Accepted, Queued, Stopping
<1>4. \A m, n \in DOMAIN backlog' : backlog'[m] = backlog'[n] => m = n
  BY DEF Stopping, ConnInv
<1>5. ConnInv'
  BY <1>1, <1>3, <1>4 DEF ConnInv, Attached
<1> QED
  BY <1>2, <1>5

\* A signal and the destructor run stop, and are not there to serve.
LEMMA StopEffect ==
  ASSUME TypeInv, TableInv, Signal \/ Finish
  PROVE  Stopping
<1>1. Stop /\ UNCHANGED <<peer, taken, inbox, overrun, given>>
  BY DEF Signal, Finish, flow
<1>2. backlog' \in {backlog, << >>}
  BY <1>1 DEF Stop, CloseAll
<1>3. Broken' \/ (~Broken /\ pc # "lines")
  BY DEF Signal, Finish, Broken
<1> QED
  BY <1>1, <1>2, <1>3, StopTable DEF Stopping

\* The steps that leave sessions, bytes and answers alone.
LEMMA StillEffect ==
  ASSUME TypeInv,
         \/ Construct \/ Start \/ PollFails \/ Killed \/ LeaveLoop \/ AcceptNone \/ ClientsDone
         \/ NothingThere \/ LinesDone \/ Poll \/ UNCHANGED vars
         \/ \E c \in Connections : Say(c) \/ Read(c) \/ Leave(c)
  PROVE  Still
<1> USE DEF life, table, net, flow, given
<1>1. ASSUME Construct \/ Start \/ PollFails \/ LeaveLoop \/ AcceptNone \/ ClientsDone
             \/ NothingThere \/ Poll
      PROVE  Still
  BY <1>1 DEF Construct, Start, PollFails, LeaveLoop, AcceptNone, ClientsDone, NothingThere,
              AtClient, Poll, Polls, Still
<1>2. CASE Killed
  BY <1>2 DEF Killed, AtLine, Still
<1>3. CASE LinesDone
  BY <1>3 DEF LinesDone, Still
<1>4. CASE UNCHANGED vars
  BY <1>4 DEF vars, Still, Fd
<1>5. ASSUME NEW c \in Connections, Say(c) \/ Read(c) \/ Leave(c)
      PROVE  Still
  <2>1. UNCHANGED <<pc, i, poll_fds, sessions, file, backlog, taken, inbox, overrun, given>> /\ Serving
    BY <1>5, Zenon DEF Say, Read, Leave
  <2>2. \A d \in Connections : peer'[d] = "new" <=> peer[d] = "new"
    <3>1. peer' = peer \/ (\E how \in {"closed", "reset"} : peer' = [peer EXCEPT ![c] = how] /\ peer[c] # "new")
      BY <1>5 DEF Say, Read, Leave
    <3> QED
      BY <3>1 DEF TypeInv
  <2> QED
    BY <2>1, <2>2 DEF Still, Fd, Serving
<1> QED
  BY <1>1, <1>2, <1>3, <1>4, <1>5

\* Closing a client frees its connection, and touches no other.
LEMMA DropConn ==
  ASSUME TypeInv, ConnInv, BufferInv, i <= Len(poll_fds), Drop,
         pc \in {"clients", "lines"}, UNCHANGED <<backlog, peer, taken, script>>,
         \A c \in Connections : c # Conn => inbox'[c] = inbox[c]
  PROVE  ConnInv' /\ BufferInv'
<1>1. Fd \in Fds
  BY AtEntry
<1>2. \A fd \in Fds : /\ file'[fd] = IF fd = Fd THEN None ELSE file[fd]
                      /\ sessions'[fd] = IF fd = Fd THEN None ELSE sessions[fd]
  BY DEF Drop, TypeInv
<1>3. \A fd \in Fds : file'[fd] \in Connections => fd # Fd
  BY <1>2, TcpServerAssumption
<1>4. \A c \in Connections : (Queued(c)' <=> Queued(c)) /\ (Accepted(c)' => Accepted(c))
  BY <1>2, <1>3 DEF Queued, Accepted
<1>5. \A c \in Connections : peer[c] = "new" \/ Queued(c) => c # Conn
  BY <1>1 DEF ConnInv, Attached, Accepted, Conn
<1>6. ConnInv'
  BY <1>2, <1>3, <1>4, <1>5 DEF ConnInv, Attached
<1>7. BufferInv'
  BY <1>1, <1>2, <1>3 DEF BufferInv, Broken
<1> QED
  BY <1>6, <1>7

\* The connection that is accepted leaves the queue and starts with nothing buffered.
LEMMA AcceptConn ==
  ASSUME TypeInv, ConnInv, BufferInv, AcceptOne
  PROVE  ConnInv' /\ BufferInv'
<1>1. PICK fd \in FreeFds :
        /\ sessions' = [sessions EXCEPT ![fd] = NewSession]
        /\ file' = [file EXCEPT ![fd] = Head(backlog)]
  BY AcceptTypes
<1>2. fd \in Fds /\ file[fd] = None
  BY DEF FreeFds
<1>3. /\ backlog' = Tail(backlog) /\ backlog # << >> /\ backlog \in Seq(Connections)
      /\ UNCHANGED <<pc, peer, taken, inbox, script>> /\ pc = "accept"
  BY DEF AcceptOne, TypeInv, flow, given
<1> DEFINE c == Head(backlog)
<1>4. c \in Connections /\ Queued(c) /\ c = backlog[1]
  BY <1>3 DEF Queued
<1>5. /\ DOMAIN backlog = 1 .. Len(backlog) /\ DOMAIN backlog' = 1 .. Len(backlog) - 1
      /\ Len(backlog) \in Nat \ {0}
      /\ \A n \in 1 .. Len(backlog) - 1 : backlog'[n] = backlog[n + 1]
  BY <1>3
<1> HIDE DEF c
<1>6. \A f \in Fds : /\ file'[f] = IF f = fd THEN c ELSE file[f]
                     /\ sessions'[f] = IF f = fd THEN NewSession ELSE sessions[f]
  BY <1>1 DEF TypeInv, c
<1>7. \A d \in Connections : Queued(d)' => Queued(d) /\ d # c
  <2> TAKE d \in Connections
  <2>1. SUFFICES ASSUME NEW n \in 1 .. Len(backlog) - 1, backlog'[n] = d
        PROVE  Queued(d) /\ d # c
    BY <1>5 DEF Queued
  <2>2. n + 1 \in DOMAIN backlog /\ 1 \in DOMAIN backlog /\ backlog[n + 1] = d /\ n + 1 # 1
    BY <1>5, <2>1
  <2> QED
    BY <1>4, <2>2 DEF Queued, ConnInv
<1>8. \A d \in Connections : Accepted(d)' => Accepted(d) \/ d = c
  BY <1>6 DEF Accepted
<1>9. \A m, n \in DOMAIN backlog' : backlog'[m] = backlog'[n] => m = n
  <2> TAKE m, n \in DOMAIN backlog'
  <2>1. m + 1 \in DOMAIN backlog /\ n + 1 \in DOMAIN backlog /\ m \in Nat /\ n \in Nat
        /\ backlog'[m] = backlog[m + 1] /\ backlog'[n] = backlog[n + 1]
    BY <1>5
  <2>2. backlog[m + 1] = backlog[n + 1] => m + 1 = n + 1
    BY <2>1 DEF ConnInv
  <2> QED
    BY <2>1, <2>2
<1>10. ~Accepted(c)
  BY <1>4 DEF ConnInv
<1>11. \A f, g \in Fds : file'[f] \in Connections /\ file'[f] = file'[g] => f = g
  BY <1>4, <1>6, <1>10 DEF ConnInv, Accepted
<1>12. ConnInv'
  BY <1>3, <1>4, <1>7, <1>8, <1>9, <1>11 DEF ConnInv, Attached
<1>13. BufferInv'
  <2> SUFFICES ASSUME NEW f \in Fds, file'[f] \in Connections
      PROVE  LET d == file'[f]
                 b == sessions'[f].buffer
             IN /\ Len(b) <= taken[d]
                /\ \A n \in 1 .. Len(b) : b[n] = script[d][taken[d] - Len(b) + n]
                /\ ~HasLine(b)
    BY <1>3 DEF BufferInv
  <2>1. CASE f = fd
    <3>1. sessions'[f].buffer = << >>
      BY <1>6, <2>1 DEF NewSession
    <3>2. taken[file'[f]] \in Nat
      BY DEF TypeInv
    <3> QED
      BY <3>1, <3>2 DEF HasLine
  <2>2. CASE f # fd
    BY <1>3, <1>6, <2>2 DEF BufferInv, Broken
  <2> QED
    BY <2>1, <2>2
<1> QED
  BY <1>12, <1>13

\* A new connection is queued, once.
LEMMA ConnectConn ==
  ASSUME TypeInv, ConnInv, BufferInv, NEW c \in Connections, Connect(c)
  PROVE  ConnInv' /\ BufferInv'
<1>1. /\ peer[c] = "new" /\ peer' = [peer EXCEPT ![c] = "open"]
      /\ backlog' = Append(backlog, c) /\ backlog \in Seq(Connections)
      /\ UNCHANGED <<pc, i, poll_fds, file, sessions, taken, inbox, script>>
  BY DEF Connect, TypeInv, table, flow, given
<1>2. ~Attached(c)
  BY <1>1 DEF ConnInv
<1>3. /\ DOMAIN backlog = 1 .. Len(backlog) /\ DOMAIN backlog' = 1 .. Len(backlog) + 1
      /\ Len(backlog) \in Nat /\ backlog'[Len(backlog) + 1] = c
      /\ \A n \in 1 .. Len(backlog) : backlog'[n] = backlog[n]
  BY <1>1
<1>4. \A d \in Connections : (Queued(d)' <=> Queued(d) \/ d = c) /\ (Accepted(d)' <=> Accepted(d))
  <2>1. \A d \in Connections : Accepted(d)' <=> Accepted(d)
    BY <1>1 DEF Accepted
  <2>2. \A d \in Connections : Queued(d)' <=> Queued(d) \/ d = c
    BY <1>3 DEF Queued
  <2> QED
    BY <2>1, <2>2
<1>5. \A d \in Connections : peer'[d] = IF d = c THEN "open" ELSE peer[d]
  BY <1>1 DEF TypeInv
<1>6. \A m, n \in DOMAIN backlog' : backlog'[m] = backlog'[n] => m = n
  BY <1>2, <1>3 DEF ConnInv, Attached, Queued
<1>7. ConnInv'
  BY <1>1, <1>2, <1>4, <1>5, <1>6 DEF ConnInv, Attached
<1>8. BufferInv'
  BY <1>1 DEF BufferInv, Broken, Fd
<1> QED
  BY <1>7, <1>8

\* What recv returns is appended: the session still has the last bytes received.
LEMMA ReceiveConn ==
  ASSUME TypeInv, TableInv, ConnInv, BufferInv, Receive
  PROVE  ConnInv' /\ BufferInv'
<1>1. PICK got \in Seq(Words) :
        /\ Len(got) >= 1 /\ taken[Conn] + Len(got) <= sent[Conn]
        /\ \A n \in 1 .. Len(got) : got[n] = script[Conn][taken[Conn] + n]
        /\ sessions' = [sessions EXCEPT ![Fd].buffer = @ \o got]
        /\ taken' = [taken EXCEPT ![Conn] = @ + Len(got)]
  BY Received
<1>2. Fd \in Fds /\ Conn \in Connections /\ sessions[Fd] \in Sessions
  BY Received
<1>3. /\ UNCHANGED <<i, poll_fds, file, backlog, peer, inbox, script>>
      /\ pc = "clients" /\ pc' = "lines"
  BY DEF Receive, AtClient, net, given
<1>4. \A c \in Connections : taken'[c] = IF c = Conn THEN taken[c] + Len(got) ELSE taken[c]
  BY <1>1 DEF TypeInv
<1>5. ConnInv'
  <2>1. \A c \in Connections : peer[c] = "new" \/ Queued(c) => c # Conn
    BY <1>2 DEF ConnInv, Attached, Accepted, Conn
  <2>2. \A c \in Connections : (Queued(c)' <=> Queued(c)) /\ (Accepted(c)' <=> Accepted(c))
    BY <1>3 DEF Queued, Accepted
  <2> QED
    BY <1>3, <1>4, <2>1, <2>2 DEF ConnInv, Attached
<1>6. BufferInv'
  <2> SUFFICES ASSUME NEW fd \in Fds, file[fd] \in Connections
      PROVE  LET d == file[fd]
                 b == sessions'[fd].buffer
             IN /\ Len(b) <= taken'[d]
                /\ \A n \in 1 .. Len(b) : b[n] = script[d][taken'[d] - Len(b) + n]
                /\ HasLine(b) => fd = Fd
    BY <1>3 DEF BufferInv, Fd
  <2>1. CASE fd = Fd
    <3> DEFINE b == sessions[Fd].buffer
               t == taken[Conn]
               s == script[Conn]
    <3>1. b \in Seq(Words) /\ t \in Nat /\ Len(b) <= t
          /\ \A n \in 1 .. Len(b) : b[n] = s[t - Len(b) + n]
      BY <1>2 DEF Sessions, TypeInv, BufferInv, Conn
    <3>2. \A n \in 1 .. Len(got) : got[n] = s[t + n]
      BY <1>1
    <3>3. sessions'[Fd].buffer = b \o got
      BY <1>1, <1>2 DEF TypeInv, Sessions
    <3>4. taken'[file[fd]] = t + Len(got) /\ script[file[fd]] = s
      BY <1>2, <1>4, <2>1 DEF Conn
    <3> HIDE DEF b, t, s
    <3>5. Len(b \o got) = Len(b) + Len(got)
          /\ \A n \in 1 .. Len(b) + Len(got) : (b \o got)[n] = IF n <= Len(b) THEN b[n] ELSE got[n - Len(b)]
      BY <3>1, ConcatProperties
    <3>6. \A n \in 1 .. Len(b) + Len(got) :
            (b \o got)[n] = s[(t + Len(got)) - (Len(b) + Len(got)) + n]
      <4> TAKE n \in 1 .. Len(b) + Len(got)
      <4>1. CASE n <= Len(b)
        <5>1. (t + Len(got)) - (Len(b) + Len(got)) + n = t - Len(b) + n
          BY <3>1
        <5> QED
          BY <3>1, <3>5, <4>1, <5>1
      <4>2. CASE ~(n <= Len(b))
        <5>1. /\ n - Len(b) \in 1 .. Len(got)
              /\ (t + Len(got)) - (Len(b) + Len(got)) + n = t + (n - Len(b))
          BY <3>1, <4>2
        <5> QED
          BY <3>2, <3>5, <4>2, <5>1
      <4> QED
        BY <4>1, <4>2
    <3> QED
      BY <2>1, <3>1, <3>3, <3>4, <3>5, <3>6
  <2>2. CASE fd # Fd
    <3>1. file[fd] # Conn
      BY <1>2, <2>2 DEF ConnInv, Conn
    <3>2. sessions'[fd] = sessions[fd] /\ taken'[file[fd]] = taken[file[fd]]
      BY <1>1, <1>4, <2>2, <3>1 DEF TypeInv
    <3> QED
      BY <1>3, <2>2, <3>2 DEF BufferInv, Broken
  <2> QED
    BY <2>1, <2>2
<1> QED
  BY <1>5, <1>6

\* What is behind the first line.
LEMMA RestIs ==
  ASSUME TypeInv, TableInv, AtLine
  PROVE  LET b == sessions[Fd].buffer
             e == EndOfLine(b)
         IN /\ b \in Seq(Words) /\ e \in 1 .. Len(b) /\ b[e] = NL
            /\ \A n \in 1 .. e - 1 : b[n] # NL
            /\ Line \in Seq(Words) /\ Len(Line) = e - 1 /\ \A n \in 1 .. e - 1 : Line[n] = b[n]
            /\ Rest \in Seq(Words) /\ Len(Rest) = Len(b) - e
            /\ \A n \in 1 .. Len(b) - e : Rest[n] = b[e + n]
<1> DEFINE b == sessions[Fd].buffer
           e == EndOfLine(b)
<1>1. b \in Seq(Words) /\ HasLine(b)
  BY LineTypes DEF Sessions, AtLine
<1>2. e \in 1 .. Len(b) /\ b[e] = NL /\ \A n \in 1 .. e - 1 : b[n] # NL
  BY <1>1, FirstEnd
<1>3. Line = SubSeq(b, 1, e - 1) /\ Rest = SubSeq(b, e + 1, Len(b))
  BY DEF Line, Rest
<1> HIDE DEF b, e
<1>4. \A n \in 1 .. Len(b) : b[n] \in Words
  BY <1>1
<1>5. Len(Line) = e - 1 /\ Line \in Seq(Words) /\ \A n \in 1 .. e - 1 : Line[n] = b[n]
  BY <1>2, <1>3, <1>4, SubSeqProperties
<1>6. /\ Len(Rest) = Len(b) - e /\ Rest \in Seq(Words)
      /\ \A n \in 1 .. Len(b) - e : Rest[n] = b[e + n]
  BY <1>1, <1>2, <1>3, <1>4, SubSeqProperties
<1> QED
  BY <1>1, <1>2, <1>5, <1>6 DEF b, e

\* An answer reaches no other client.
LEMMA SendElse ==
  ASSUME TypeInv, NEW c \in Connections, NEW reply, Send(c, reply)
  PROVE  \A d \in Connections : d # c => inbox'[d] = inbox[d] /\ overrun'[d] = overrun[d]
<1>1. inbox' = inbox \/ inbox' = [inbox EXCEPT ![c] = Append(@, reply)]
  BY DEF Send
<1>2. overrun' = overrun \/ overrun' = [overrun EXCEPT ![c] = TRUE]
  BY DEF Send
<1> QED
  BY <1>1, <1>2 DEF TypeInv

\* A line that is served is taken from the front of what is buffered.
LEMMA ServeConn ==
  ASSUME TypeInv, TableInv, ConnInv, BufferInv, ServeLine
  PROVE  ConnInv' /\ BufferInv'
<1>1. /\ Fd \in Fds /\ Conn \in Connections /\ i <= Len(poll_fds)
      /\ sessions[Fd] \in Sessions /\ AtLine
  BY LineTypes DEF ServeLine
<1>2. /\ UNCHANGED <<i, backlog, peer, taken, script>> /\ pc = "lines"
      /\ Send(Conn, Result.reply)
  BY DEF ServeLine, AtLine, net, given
<1>3. \A c \in Connections : c # Conn => inbox'[c] = inbox[c]
  BY <1>1, <1>2, SendElse
<1>4. CASE Result.close
  <2>1. Drop
    BY <1>4 DEF ServeLine
  <2> QED
    BY <1>1, <1>2, <1>3, <2>1, DropConn
<1>5. CASE ~Result.close
  <2>1. /\ sessions' = [sessions EXCEPT ![Fd] = [buffer |-> Rest, auth |-> Result.auth]]
        /\ UNCHANGED <<pc, file, poll_fds, active>>
    BY <1>5 DEF ServeLine
  <2>2. \A c \in Connections : (Queued(c)' <=> Queued(c)) /\ (Accepted(c)' <=> Accepted(c))
    BY <1>2, <2>1 DEF Queued, Accepted
  <2>3. \A c \in Connections : peer[c] = "new" \/ Queued(c) => c # Conn
    BY <1>1 DEF ConnInv, Attached, Accepted, Conn
  <2>4. ConnInv'
    BY <1>2, <1>3, <2>1, <2>2, <2>3 DEF ConnInv, Attached
  <2>5. BufferInv'
    <3> DEFINE b == sessions[Fd].buffer
               e == EndOfLine(b)
               t == taken[Conn]
               s == script[Conn]
    <3>1. /\ b \in Seq(Words) /\ e \in 1 .. Len(b)
          /\ Len(Rest) = Len(b) - e /\ \A n \in 1 .. Len(b) - e : Rest[n] = b[e + n]
      BY <1>1, RestIs
    <3>2. Len(b) <= t /\ t \in Nat /\ \A n \in 1 .. Len(b) : b[n] = s[t - Len(b) + n]
      BY <1>1 DEF BufferInv, TypeInv, Conn
    <3>3. sessions'[Fd].buffer = Rest
      BY <1>1, <2>1 DEF TypeInv
    <3> HIDE DEF b, e, t, s
    <3>4. Len(Rest) <= t
      BY <3>1, <3>2
    <3>5. \A n \in 1 .. Len(Rest) : Rest[n] = s[t - Len(Rest) + n]
      <4> TAKE n \in 1 .. Len(Rest)
      <4>1. /\ n \in 1 .. Len(b) - e /\ e + n \in 1 .. Len(b)
            /\ t - Len(Rest) + n = t - Len(b) + (e + n)
        BY <3>1, <3>2
      <4> QED
        BY <3>1, <3>2, <4>1
    <3>6. \A fd \in Fds : fd # Fd => sessions'[fd] = sessions[fd]
      BY <2>1 DEF TypeInv
    <3> SUFFICES ASSUME NEW fd \in Fds, file[fd] \in Connections
        PROVE  LET d == file[fd]
                   c == sessions'[fd].buffer
               IN /\ Len(c) <= taken[d]
                  /\ \A n \in 1 .. Len(c) : c[n] = script[d][taken[d] - Len(c) + n]
                  /\ HasLine(c) => fd = Fd
      BY <1>2, <2>1 DEF BufferInv, Fd
    <3>7. CASE fd = Fd
      BY <3>3, <3>4, <3>5, <3>7 DEF t, s, Conn
    <3>8. CASE fd # Fd
      BY <1>2, <3>6, <3>8 DEF BufferInv, Broken
    <3> QED
      BY <3>7, <3>8
  <2> QED
    BY <2>4, <2>5
<1> QED
  BY <1>4, <1>5

\* So does hanging up on a client, after poll or recv has failed.
LEMMA HangUpConn ==
  ASSUME TypeInv, ConnInv, BufferInv, HangUp
  PROVE  ConnInv' /\ BufferInv'
BY DropConn DEF HangUp, AtClient, net, flow, given

\* At first no connection has a descriptor and no client is queued.
LEMMA InitConn == Init => ConnInv /\ BufferInv
<1> SUFFICES ASSUME Init PROVE ConnInv /\ BufferInv
  OBVIOUS
<1>1. \A fd \in Fds : file[fd] \notin Connections
  BY TcpServerAssumption DEF Init
<1>2. DOMAIN backlog = {}
  BY DEF Init
<1>3. \A c \in Connections : taken[c] = 0 /\ inbox[c] = << >>
  BY DEF Init
<1> QED
  BY <1>1, <1>2, <1>3 DEF ConnInv, BufferInv, Accepted, Queued, Attached

\* No step gives a connection two descriptors, or a session bytes that are not the
\* last ones of its own connection.
LEMMA StepConn ==
  ASSUME TypeInv, TableInv, ConnInv, BufferInv, [Next]_vars
  PROVE  ConnInv' /\ BufferInv'
<1>1. CASE Signal \/ Finish
  BY <1>1, StopEffect, StoppingConn
<1>2. CASE \/ Construct \/ Start \/ PollFails \/ Killed \/ LeaveLoop \/ AcceptNone \/ ClientsDone
           \/ NothingThere \/ LinesDone \/ Poll \/ UNCHANGED vars
           \/ \E c \in Connections : Say(c) \/ Read(c) \/ Leave(c)
  BY <1>2, StillEffect, StillConn
<1> QED
  BY <1>1, <1>2, AcceptConn, HangUpConn, ReceiveConn, ServeConn, ConnectConn DEF Next, Loop

-----------------------------------------------------------------------------
Inv == TypeInv /\ TableInv /\ ConnInv /\ BufferInv

\* The inductive invariant holds in every state of the reactor.
THEOREM Invariance == Spec => []Inv
<1>1. Init => Inv
  BY InitTypes, InitConn DEF Inv
<1>2. Inv /\ [Next]_vars => Inv'
  BY StepTypes, StepConn DEF Inv
<1> QED
  BY <1>1, <1>2, PTL DEF Spec

\* The invariant gives the types, and that no whole line waits while the server polls.
LEMMA TypeOKHolds == Inv => TypeOK
<1> SUFFICES ASSUME Inv PROVE TypeOK
  OBVIOUS
<1> USE DEF Inv
<1>1. \A n \in DOMAIN poll_fds :
        poll_fds[n].fd \in Fds /\ poll_fds[n].revents \in {"none", "in", "err"}
  <2>1. \A n \in DOMAIN poll_fds : poll_fds[n] \in Polled
    BY DEF TypeInv
  <2> QED
    BY <2>1 DEF Polled
<1>2. ASSUME pc = "lines" PROVE i <= Len(poll_fds) /\ sessions[Fd] # None
  <2>1. i <= Len(poll_fds) /\ running
    BY <1>2 DEF TableInv
  <2>2. i \in 1 .. Len(poll_fds) /\ Fd \in Fds
    BY <2>1, AtEntry
  <2>3. i \in DOMAIN poll_fds /\ poll_fds[i].fd = Fd
    BY <2>2 DEF TypeInv, Fd
  <2> QED
    BY <2>1, <2>2, <2>3 DEF TableInv
<1>3. pc = "poll" => \A fd \in Fds : sessions[fd] # None => ~HasLine(sessions[fd].buffer)
  BY DEF TableInv, BufferInv, Broken
<1>4. running \in BOOLEAN /\ listening \in BOOLEAN
  BY DEF TypeInv
<1>5. i \in Nat \ {0} /\ active \in Nat /\ file \in [Fds -> Connections \cup {None, "elsewhere"}]
  BY DEF TypeInv
<1>6. pc \in States
  BY DEF TypeInv
<1> QED
  BY <1>1, <1>2, <1>3, <1>4, <1>5, <1>6 DEF TypeOK, States

\* The types of the run reactor, for every number of clients and descriptors: a
\* line is executed for a session that exists, and none is left for later.
THEOREM TypeCorrect == Spec => []TypeOK
<1>1. Inv => TypeOK
  BY TypeOKHolds
<1> QED
  BY <1>1, Invariance, PTL

\* The invariant gives SessionsArePolled: poll_fds counts each descriptor once.
LEMMA PolledSessions == Inv => SessionsArePolled
<1> SUFFICES ASSUME Inv, Serving, signal # "serving"
    PROVE  LET polled == {poll_fds[n].fd : n \in DOMAIN poll_fds} IN
           /\ Cardinality(polled) = Len(poll_fds)
           /\ polled = {fd \in Fds : sessions[fd] # None}
           /\ polled = {fd \in Fds : file[fd] \in Connections}
           /\ active = Len(poll_fds)
  BY DEF SessionsArePolled
<1> USE DEF Inv
<1> DEFINE polled == {poll_fds[n].fd : n \in DOMAIN poll_fds}
           L == Len(poll_fds)
           f == [n \in 1 .. L |-> poll_fds[n].fd]
<1>1. DOMAIN poll_fds = 1 .. L /\ L \in Nat /\ active = L /\ poll_fds \in Seq(Polled)
  BY DEF TypeInv
<1>2. running
  BY DEF TableInv
<1>3. \A n \in DOMAIN poll_fds : poll_fds[n].fd \in Fds
  <2>1. \A n \in DOMAIN poll_fds : poll_fds[n] \in Polled
    BY <1>1
  <2> QED
    BY <2>1 DEF Polled
<1>4. polled = {fd \in Fds : sessions[fd] # None}
  BY <1>2, <1>3 DEF TableInv
<1>5. {fd \in Fds : sessions[fd] # None} = {fd \in Fds : file[fd] \in Connections}
  BY DEF TableInv
<1>6. \A m, n \in 1 .. L : poll_fds[m].fd = poll_fds[n].fd => m = n
  BY <1>1 DEF TableInv
<1> HIDE DEF L
<1>7. f \in Bijection(1 .. L, polled)
  <2>1. f \in [1 .. L -> polled] /\ \A n \in 1 .. L : f[n] = poll_fds[n].fd
    BY <1>1
  <2>2. \A fd \in polled : \E n \in 1 .. L : f[n] = fd
    BY <1>1
  <2> HIDE DEF f, polled
  <2>3. \A m, n \in 1 .. L : f[m] = f[n] => m = n
    BY <1>6, <2>1
  <2> QED
    BY <2>1, <2>2, <2>3 DEF Bijection, Injection, Surjection, IsInjective
<1> HIDE DEF f, polled
<1>8. ExistsBijection(1 .. L, polled)
  BY <1>7 DEF ExistsBijection
<1>9. Cardinality(polled) = L
  BY <1>1, <1>8, FS_CountingElements
<1> QED
  BY <1>1, <1>4, <1>5, <1>9 DEF polled, L

\* While the loop runs sessions_, poll_fds, the open descriptors and the count of
\* the metrics name the same clients, each once.
THEOREM PollingIsExact == Spec => []SessionsArePolled
<1>1. Inv => SessionsArePolled
  BY PolledSessions
<1> QED
  BY <1>1, Invariance, PTL


-----------------------------------------------------------------------------
(* AUTH                                                                    *)

\* Among its first n bytes the client has sent AUTH with the password.
Opened(c, n) == \E m \in 1 .. n - 2 : SubSeq(script[c], m, m + 2) = <<"AUTH", requirepass, NL>>

\* A session counts as authenticated only after that line was executed.
AuthInv ==
  requirepass # None =>
    /\ \A fd \in Fds : file[fd] \in Connections /\ sessions[fd].auth =>
         Opened(file[fd], taken[file[fd]] - Len(sessions[fd].buffer))
    /\ AuthIsRequired

\* What has been sent stays sent.
LEMMA OpenedGrows ==
  ASSUME NEW c, NEW m \in Int, NEW n \in Int, m <= n, Opened(c, m)
  PROVE  Opened(c, n)
<1>1. \A k \in 1 .. m - 2 : k \in 1 .. n - 2
  OBVIOUS
<1> QED
  BY <1>1 DEF Opened

\* What is served to whom: only AUTH opens, and only the open are served.
LEMMA AnswerOpens ==
  ASSUME NEW tokens \in Seq(Words), NEW auth \in BOOLEAN, NEW pass, pass # None
  PROVE  LET r == Answer(tokens, auth, pass) IN
         /\ r.auth => auth \/ (Len(tokens) = 2 /\ tokens[1] = "AUTH" /\ tokens[2] = pass)
         /\ r.reply \in {"data", "pong"} => auth
BY TcpServerAssumption DEF Answer, Replies

\* Steps that serve nobody authenticate nobody.
LEMMA StillAuth ==
  ASSUME TypeInv, AuthInv, Still \/ Stopping
  PROVE  AuthInv'
<1>1. UNCHANGED <<taken, inbox, script, requirepass>>
  BY DEF Still, Stopping, given
<1>2. AuthIsRequired' <=> AuthIsRequired
  BY <1>1 DEF AuthIsRequired
<1>3. \A fd \in Fds : file'[fd] \in Connections =>
        file'[fd] = file[fd] /\ sessions'[fd] = sessions[fd]
  BY DEF Still, Stopping
<1> QED
  BY <1>1, <1>2, <1>3 DEF AuthInv, Opened

\* Connecting authenticates nobody.
LEMMA ConnectAuth ==
  ASSUME AuthInv, NEW c \in Connections, Connect(c)
  PROVE  AuthInv'
<1>1. UNCHANGED <<sessions, file, taken, inbox, script, requirepass>>
  BY DEF Connect, table, flow, given
<1> QED
  BY <1>1 DEF AuthInv, Opened, AuthIsRequired

\* A session starts locked when there is a password.
LEMMA AcceptAuth ==
  ASSUME TypeInv, AuthInv, AcceptOne
  PROVE  AuthInv'
<1>1. PICK fd \in FreeFds :
        /\ sessions' = [sessions EXCEPT ![fd] = NewSession]
        /\ file' = [file EXCEPT ![fd] = Head(backlog)]
  BY AcceptTypes
<1>2. UNCHANGED <<taken, inbox, script, requirepass>>
  BY DEF AcceptOne, flow, given
<1>3. AuthIsRequired' <=> AuthIsRequired
  BY <1>2 DEF AuthIsRequired
<1>4. \A f \in Fds : /\ f # fd => file'[f] = file[f] /\ sessions'[f] = sessions[f]
                     /\ f = fd => sessions'[f] = NewSession
  BY <1>1 DEF TypeInv, FreeFds
<1>5. requirepass # None => ~NewSession.auth
  BY DEF NewSession
<1> QED
  BY <1>2, <1>3, <1>4, <1>5 DEF AuthInv, Opened

\* The next client on a descriptor does not inherit its session.
LEMMA HangUpAuth ==
  ASSUME TypeInv, AuthInv, HangUp
  PROVE  AuthInv'
<1>1. UNCHANGED <<taken, inbox, script, requirepass>> /\ Drop /\ Fd \in Fds
  BY AtEntry DEF HangUp, AtClient, flow, given
<1>2. AuthIsRequired' <=> AuthIsRequired
  BY <1>1 DEF AuthIsRequired
<1>3. \A fd \in Fds : file'[fd] \in Connections =>
        file'[fd] = file[fd] /\ sessions'[fd] = sessions[fd]
  BY <1>1, TcpServerAssumption DEF Drop, TypeInv
<1> QED
  BY <1>1, <1>2, <1>3 DEF AuthInv, Opened

\* Receiving authenticates nobody: what is buffered has not been executed.
LEMMA ReceiveAuth ==
  ASSUME TypeInv, TableInv, ConnInv, AuthInv, Receive
  PROVE  AuthInv'
<1>1. PICK got \in Seq(Words) :
        /\ Len(got) >= 1
        /\ sessions' = [sessions EXCEPT ![Fd].buffer = @ \o got]
        /\ taken' = [taken EXCEPT ![Conn] = @ + Len(got)]
  BY Received
<1>2. /\ Fd \in Fds /\ Conn \in Connections /\ sessions[Fd] \in Sessions
      /\ UNCHANGED <<file, inbox, script, requirepass>>
  BY Received DEF Receive, given
<1>3. \A c \in Connections : /\ c # Conn => taken'[c] = taken[c]
                             /\ taken[c] \in Nat /\ taken'[c] \in Nat /\ taken[c] <= taken'[c]
  <2>1. taken \in [Connections -> Nat] /\ Len(got) \in Nat
    BY <1>1 DEF TypeInv
  <2>2. \A c \in Connections : taken'[c] = IF c = Conn THEN taken[c] + Len(got) ELSE taken[c]
    BY <1>1, <2>1
  <2> QED
    BY ONLY <2>1, <2>2
<1>4. SUFFICES ASSUME requirepass # None
      PROVE  /\ \A fd \in Fds : file[fd] \in Connections /\ sessions'[fd].auth =>
                  Opened(file[fd], taken'[file[fd]] - Len(sessions'[fd].buffer))
             /\ AuthIsRequired'
  BY <1>2 DEF AuthInv, Opened
<1>5. ASSUME NEW fd \in Fds, file[fd] \in Connections, sessions'[fd].auth
      PROVE  Opened(file[fd], taken'[file[fd]] - Len(sessions'[fd].buffer))
  <2>1. CASE fd = Fd
    <3> DEFINE b == sessions[Fd].buffer
    <3>1. b \in Seq(Words) /\ file[Fd] = Conn
      BY <1>2 DEF Sessions, Conn
    <3>2. sessions'[Fd].buffer = b \o got /\ sessions'[Fd].auth = sessions[Fd].auth
      BY <1>1, <1>2 DEF TypeInv, Sessions
    <3>3. Len(b \o got) = Len(b) + Len(got)
      BY <3>1
    <3>4. taken'[Conn] = taken[Conn] + Len(got) /\ taken[Conn] \in Nat
      BY <1>1, <1>2 DEF TypeInv
    <3>5. Opened(Conn, taken[Conn] - Len(b))
      BY <1>2, <1>4, <1>5, <2>1, <3>1, <3>2 DEF AuthInv
    <3> HIDE DEF b
    <3>6. taken'[Conn] - Len(b \o got) = taken[Conn] - Len(b)
      BY <3>1, <3>3, <3>4
    <3> QED
      BY <2>1, <3>1, <3>2, <3>5, <3>6
  <2>2. CASE fd # Fd
    <3>1. file[fd] # Conn
      BY <1>2, <2>2 DEF ConnInv, Conn
    <3>2. sessions'[fd] = sessions[fd] /\ taken'[file[fd]] = taken[file[fd]]
      BY <1>1, <1>3, <1>5, <2>2, <3>1 DEF TypeInv
    <3> QED
      BY <1>4, <1>5, <3>2 DEF AuthInv
  <2> QED
    BY <2>1, <2>2
<1>6. ASSUME NEW c \in Connections, \E n \in DOMAIN inbox[c] : inbox[c][n] \in {"data", "pong"}
      PROVE  Opened(c, taken'[c])
  <2>1. Opened(c, taken[c])
    BY <1>4, <1>6 DEF AuthInv, AuthIsRequired, Opened
  <2> QED
    BY <1>3, <2>1, OpenedGrows
<1>7. AuthIsRequired'
  BY <1>2, <1>6 DEF AuthIsRequired, Opened
<1> QED
  BY <1>5, <1>7

\* Serving a line authenticates only by AUTH with the password, and serves a
\* command only to a session that is authenticated.
LEMMA ServeAuth ==
  ASSUME TypeInv, TableInv, ConnInv, BufferInv, AuthInv, ServeLine
  PROVE  AuthInv'
<1> DEFINE b == sessions[Fd].buffer
           e == EndOfLine(b)
           t == taken[Conn]
           s == script[Conn]
<1>1. /\ Fd \in Fds /\ Conn \in Connections /\ i \in 1 .. Len(poll_fds)
      /\ sessions[Fd] \in Sessions /\ AtLine
      /\ Result \in [reply : Replies \cup {None}, auth : BOOLEAN, close : BOOLEAN]
  BY LineTypes DEF ServeLine
<1>2. /\ UNCHANGED <<i, taken, script, requirepass>> /\ Send(Conn, Result.reply)
  BY DEF ServeLine, given
<1>3. /\ b \in Seq(Words) /\ e \in 1 .. Len(b) /\ b[e] = NL
      /\ Line \in Seq(Words) /\ Len(Line) = e - 1 /\ \A n \in 1 .. e - 1 : Line[n] = b[n]
      /\ Rest \in Seq(Words) /\ Len(Rest) = Len(b) - e
  BY <1>1, RestIs
<1>4. /\ Len(b) <= t /\ t \in Nat /\ s \in Seq(Words) /\ t <= Len(s)
      /\ \A n \in 1 .. Len(b) : b[n] = s[t - Len(b) + n]
  <2>1. t \in Nat /\ s \in Seq(Words) /\ t <= Len(s)
    BY <1>1 DEF TypeInv
  <2> QED
    BY <1>1, <2>1 DEF BufferInv, Conn
<1>5. SUFFICES ASSUME requirepass # None PROVE AuthInv'
  BY <1>2 DEF AuthInv
<1>6. /\ Result.auth => sessions[Fd].auth \/
                        (Len(Line) = 2 /\ Line[1] = "AUTH" /\ Line[2] = requirepass)
      /\ Result.reply \in {"data", "pong"} => sessions[Fd].auth
  BY <1>1, <1>3, <1>5, AnswerOpens DEF Result, Sessions
<1>7. sessions[Fd].auth => Opened(Conn, t - Len(b))
  BY <1>1, <1>5 DEF AuthInv, Conn
<1> HIDE DEF b, e, s, t
<1>8. Result.auth => Opened(Conn, t - Len(Rest))
  <2>1. CASE sessions[Fd].auth
    BY <1>3, <1>4, <1>7, <2>1, OpenedGrows
  <2>2. CASE Len(Line) = 2 /\ Line[1] = "AUTH" /\ Line[2] = requirepass
    <3> DEFINE m == t - Len(b) + 1
    <3>1. e = 3 /\ 1 \in 1 .. e - 1 /\ 2 \in 1 .. e - 1
      <4>1. b \in Seq(Words) /\ e \in 1 .. Len(b) /\ Len(Line) = e - 1 /\ Len(Line) = 2
        BY <1>3, <2>2, Zenon
      <4>2. Len(b) \in Nat
        BY <4>1
      <4>3. e \in Int
        BY <4>1, <4>2
      <4>4. e - 1 = 2
        BY <4>1, <4>3
      <4> QED
        BY <4>3, <4>4
    <3>2. 1 \in 1 .. Len(b) /\ 2 \in 1 .. Len(b) /\ 3 \in 1 .. Len(b)
      BY <1>3, <3>1
    <3>3. b[1] = "AUTH" /\ b[2] = requirepass /\ b[3] = NL
      BY <1>3, <2>2, <3>1
    <3>4. m \in 1 .. Len(s) - 2 /\ t - Len(b) + 2 = m + 1 /\ t - Len(b) + 3 = m + 2
      BY <1>3, <1>4, <3>1
    <3>5. s[m] = "AUTH" /\ s[m + 1] = requirepass /\ s[m + 2] = NL
      BY <1>4, <3>2, <3>3, <3>4
    <3>6. m \in 1 .. (t - Len(Rest)) - 2
      BY <1>3, <1>4, <3>1
    <3> HIDE DEF m
    <3>7. SubSeq(s, m, m + 2) = <<s[m], s[m + 1], s[m + 2]>>
      <4>1. \A n \in m .. m + 2 : n \in 1 .. Len(s) /\ s[n] \in Words
        BY <1>4, <3>4
      <4>2. /\ SubSeq(s, m, m + 2) \in Seq(Words) /\ Len(SubSeq(s, m, m + 2)) = 3
            /\ \A n \in 1 .. 3 : SubSeq(s, m, m + 2)[n] = s[m + n - 1]
        BY <3>4, <4>1, SubSeqProperties
      <4>3. m + 1 - 1 = m /\ m + 2 - 1 = m + 1 /\ m + 3 - 1 = m + 2
        BY <3>4
      <4>4. \A n \in 1 .. 3 : SubSeq(s, m, m + 2)[n] = <<s[m], s[m + 1], s[m + 2]>>[n]
        BY <4>2, <4>3
      <4>5. <<s[m], s[m + 1], s[m + 2]>> \in Seq(Words) /\ Len(<<s[m], s[m + 1], s[m + 2]>>) = 3
        BY <3>4, <4>1
      <4> QED
        BY <4>2, <4>4, <4>5, SeqEqual
    <3> QED
      BY <3>5, <3>6, <3>7 DEF Opened, s
  <2> QED
    BY <1>6, <2>1, <2>2
<1>9. \A fd \in Fds : file'[fd] \in Connections => file'[fd] = file[fd]
  <2>1. CASE Result.close
    BY <1>1, <2>1, TcpServerAssumption DEF ServeLine, Drop, TypeInv
  <2>2. CASE ~Result.close
    BY <2>2 DEF ServeLine
  <2> QED
    BY <2>1, <2>2
<1>10. ASSUME NEW fd \in Fds, file'[fd] \in Connections, sessions'[fd].auth
       PROVE  Opened(file[fd], taken[file[fd]] - Len(sessions'[fd].buffer))
  <2>1. CASE fd = Fd
    <3>1. ~Result.close
      BY <1>1, <1>10, <2>1, TcpServerAssumption DEF ServeLine, Drop, TypeInv
    <3>2. sessions'[Fd] = [buffer |-> Rest, auth |-> Result.auth]
      BY <1>1, <3>1 DEF ServeLine, TypeInv
    <3> QED
      BY <1>8, <1>10, <2>1, <3>2 DEF Conn, t
  <2>2. CASE fd # Fd
    <3>1. sessions'[fd] = sessions[fd]
      <4>1. CASE Result.close
        BY <2>2, <4>1 DEF ServeLine, Drop, TypeInv
      <4>2. CASE ~Result.close
        BY <2>2, <4>2 DEF ServeLine, TypeInv
      <4> QED
        BY <4>1, <4>2
    <3> QED
      BY <1>5, <1>9, <1>10, <3>1 DEF AuthInv
  <2> QED
    BY <2>1, <2>2
<1>11. ASSUME NEW c \in Connections, \E n \in DOMAIN inbox'[c] : inbox'[c][n] \in {"data", "pong"}
       PROVE  Opened(c, taken[c])
  <2>1. CASE \E n \in DOMAIN inbox[c] : inbox[c][n] \in {"data", "pong"}
    BY <1>5, <2>1 DEF AuthInv, AuthIsRequired, Opened
  <2>2. CASE ~ \E n \in DOMAIN inbox[c] : inbox[c][n] \in {"data", "pong"}
    <3>1. c = Conn
      BY <1>1, <1>2, <1>11, <2>2, SendElse
    <3>2. Result.reply \in {"data", "pong"}
      <4>1. inbox[c] \in Seq(Replies) /\ Result.reply \in Replies \cup {None}
        BY <1>1 DEF TypeInv
      <4>2. inbox'[c] = inbox[c] \/ (inbox'[c] = Append(inbox[c], Result.reply) /\ Result.reply # None)
        BY <1>1, <1>2, <3>1 DEF Send, TypeInv
      <4>3. Result.reply \in Replies /\ inbox'[c] = Append(inbox[c], Result.reply)
        BY <1>11, <2>2, <4>1, <4>2
      <4>4. PICK n \in 1 .. Len(inbox[c]) + 1 : inbox'[c][n] \in {"data", "pong"}
        BY <1>11, <4>1, <4>3
      <4>5. n = Len(inbox[c]) + 1
        BY <2>2, <4>1, <4>3, <4>4
      <4> QED
        BY <4>1, <4>3, <4>4, <4>5
    <3> QED
      BY <1>3, <1>4, <1>6, <1>7, <3>1, <3>2, OpenedGrows DEF t
  <2> QED
    BY <2>1, <2>2
<1>12. AuthIsRequired'
  BY <1>2, <1>11 DEF AuthIsRequired, Opened
<1> QED
  BY <1>2, <1>9, <1>10, <1>12 DEF AuthInv, Opened

\* At first nobody has been served.
LEMMA InitAuth == Init => AuthInv
<1> SUFFICES ASSUME Init PROVE AuthInv
  OBVIOUS
<1>1. \A fd \in Fds : file[fd] \notin Connections
  BY TcpServerAssumption DEF Init
<1>2. \A c \in Connections : DOMAIN inbox[c] = {}
  BY DEF Init
<1> QED
  BY <1>1, <1>2 DEF AuthInv, AuthIsRequired

\* No step authenticates a session whose client has not sent the password.
LEMMA StepAuth ==
  ASSUME Inv, AuthInv, [Next]_vars
  PROVE  AuthInv'
<1> USE DEF Inv
<1>1. CASE Signal \/ Finish
  BY <1>1, StopEffect, StillAuth
<1>2. CASE \/ Construct \/ Start \/ PollFails \/ Killed \/ LeaveLoop \/ AcceptNone \/ ClientsDone
           \/ NothingThere \/ LinesDone \/ Poll \/ UNCHANGED vars
           \/ \E c \in Connections : Say(c) \/ Read(c) \/ Leave(c)
  BY <1>2, StillEffect, StillAuth
<1> QED
  BY <1>1, <1>2, AcceptAuth, HangUpAuth, ReceiveAuth, ServeAuth, ConnectAuth DEF Next, Loop

\* With requirepass, no client is served before it has sent AUTH and the password
\* on the same connection: AuthIsRequired, whatever clients send and however it is cut.
THEOREM NobodyServedBeforeAuth == Spec => []AuthIsRequired
<1>1. Init => AuthInv
  BY InitAuth
<1>2. Inv /\ AuthInv /\ [Next]_vars => AuthInv'
  BY StepAuth
<1>3. AuthInv => AuthIsRequired
  BY DEF AuthInv, AuthIsRequired
<1> QED
  BY <1>1, <1>2, <1>3, Invariance, PTL DEF Spec

-----------------------------------------------------------------------------
(* What a client should be answered                                        *)

Hearings == [line : Seq(Words), auth : BOOLEAN, over : BOOLEAN, answers : Seq(Replies)]

Unheard(pass) == [line |-> << >>, auth |-> pass = None, over |-> FALSE, answers |-> << >>]

\* Hearing one more word gives a hearing.
LEMMA HearType ==
  ASSUME NEW h \in Hearings, NEW word \in Words, NEW pass
  PROVE  Hear(h, word, pass) \in Hearings
<1> DEFINE r == Answer(h.line, h.auth, pass)
<1>1. h.line \in Seq(Words) /\ h.auth \in BOOLEAN /\ h.over \in BOOLEAN /\ h.answers \in Seq(Replies)
  BY DEF Hearings
<1>2. r \in [reply : Replies \cup {None}, auth : BOOLEAN, close : BOOLEAN]
  BY <1>1, AnswerType
<1>3. CASE h.over
  BY <1>3 DEF Hear
<1>4. CASE ~h.over /\ word # NL
  <2>1. Append(h.line, word) \in Seq(Words)
    BY <1>1
  <2>2. Hear(h, word, pass) = [h EXCEPT !.line = Append(@, word)]
    BY <1>4 DEF Hear
  <2> QED
    BY <2>1, <2>2 DEF Hearings
<1>5. CASE ~h.over /\ word = NL
  <2> DEFINE a == IF r.reply = None THEN h.answers ELSE Append(h.answers, r.reply)
  <2>1. a \in Seq(Replies)
    BY <1>1, <1>2
  <2>2. Hear(h, word, pass) = [line |-> << >>, auth |-> r.auth, over |-> r.close, answers |-> a]
    BY <1>5 DEF Hear
  <2>3. << >> \in Seq(Words) /\ r.auth \in BOOLEAN /\ r.close \in BOOLEAN
    BY <1>2
  <2> HIDE DEF r, a
  <2> QED
    BY <2>1, <2>2, <2>3 DEF Hearings
<1> QED
  BY <1>1, <1>3, <1>4, <1>5

\* HeardAfter exists: it satisfies the recursion that defines it.
LEMMA HeardEquation ==
  ASSUME NEW w \in Seq(Words), NEW pass
  PROVE  /\ HeardAfter(w, pass)[0] = Unheard(pass)
         /\ \A n \in 1 .. Len(w) :
              HeardAfter(w, pass)[n] = Hear(HeardAfter(w, pass)[n - 1], w[n], pass)
<1> DEFINE m == Len(w)
           F == [n \in 1 .. m |-> [h \in Hearings |-> Hear(h, w[n], pass)]]
           Is(g) == g = [n \in 0 .. m |-> IF n = 0 THEN Unheard(pass) ELSE Hear(g[n - 1], w[n], pass)]
<1>1. m \in Nat /\ Unheard(pass) \in Hearings
  BY DEF Unheard, Hearings
<1>2. \A n \in 1 .. m : \A h \in Hearings : Hear(h, w[n], pass) \in Hearings
  BY HearType
<1>3. F \in [1 .. m -> [Hearings -> Hearings]]
  BY <1>2
<1> HIDE DEF m, F
<1>4. PICK g \in [0 .. m -> Hearings] : g[0] = Unheard(pass) /\ \A n \in 1 .. m : g[n] = F[n][g[n - 1]]
  <2> DEFINE b == Unheard(pass)
  <2>1. b \in Hearings
    BY <1>1
  <2> HIDE DEF b
  <2>2. \E g \in [0 .. m -> Hearings] : g[0] = b /\ \A n \in 1 .. m : g[n] = F[n][g[n - 1]]
    <3>1. m \in Nat /\ F \in [1 .. m -> [Hearings -> Hearings]]
      BY <1>1, <1>3
    <3> QED
      BY <2>1, <3>1, RecursionExists
  <2> QED
    BY <2>2 DEF b
<1>5. \A n \in 1 .. m : g[n] = Hear(g[n - 1], w[n], pass)
  <2> TAKE n \in 1 .. m
  <2>1. n - 1 \in 0 .. m
    BY <1>1
  <2>2. g[n - 1] \in Hearings
    BY <2>1
  <2> QED
    BY <1>4, <2>2 DEF F
<1>6. Is(g)
  BY <1>1, <1>4, <1>5
<1>7. HeardAfter(w, pass) = CHOOSE f : Is(f)
  BY DEF HeardAfter, Unheard, m
<1> DEFINE H == CHOOSE f : Is(f)
<1>8. Is(H)
  BY <1>6
<1> HIDE DEF H
<1>9. H[0] = Unheard(pass) /\ \A n \in 1 .. m : H[n] = Hear(H[n - 1], w[n], pass)
  BY <1>1, <1>8
<1> QED
  BY <1>7, <1>9 DEF H, m

\* What has been heard is a hearing after every word.
LEMMA HeardType ==
  ASSUME NEW w \in Seq(Words), NEW pass
  PROVE  \A n \in 0 .. Len(w) : HeardAfter(w, pass)[n] \in Hearings
<1> DEFINE H == HeardAfter(w, pass)
           T == {n \in Nat : n <= Len(w) => H[n] \in Hearings}
<1>1. H[0] = Unheard(pass) /\ \A n \in 1 .. Len(w) : H[n] = Hear(H[n - 1], w[n], pass)
  BY HeardEquation
<1> HIDE DEF H
<1>2. 0 \in T
  <2>1. Unheard(pass) \in Hearings
    BY DEF Unheard, Hearings
  <2> QED
    BY <1>1, <2>1
<1>3. ASSUME NEW n \in Nat, n \in T PROVE n + 1 \in T
  <2>1. SUFFICES ASSUME n + 1 <= Len(w) PROVE H[n + 1] \in Hearings
    OBVIOUS
  <2>2. n + 1 \in 1 .. Len(w) /\ (n + 1) - 1 = n /\ H[n] \in Hearings
    BY <1>3, <2>1
  <2>3. H[n + 1] = Hear(H[n], w[n + 1], pass) /\ w[n + 1] \in Words
    BY <1>1, <2>2
  <2> QED
    BY <2>2, <2>3, HearType
<1> HIDE DEF T
<1>4. \A n \in Nat : n \in T
  BY <1>2, <1>3, SetInduction
<1> QED
  BY <1>4 DEF T, H

\* What has been heard after n words depends on those alone.
LEMMA HeardOfPrefix ==
  ASSUME NEW w \in Seq(Words), NEW pass, NEW k \in 0 .. Len(w)
  PROVE  HeardAfter(SubSeq(w, 1, k), pass)[k] = HeardAfter(w, pass)[k]
<1> DEFINE v == SubSeq(w, 1, k)
           G == HeardAfter(v, pass)
           H == HeardAfter(w, pass)
           T == {n \in Nat : n <= k => G[n] = H[n]}
<1>1. v \in Seq(Words) /\ Len(v) = k /\ \A n \in 1 .. k : v[n] = w[n]
  <2>1. \A n \in 1 .. k : w[n] \in Words
    OBVIOUS
  <2> QED
    BY <2>1, SubSeqProperties
<1>2. H[0] = Unheard(pass) /\ \A n \in 1 .. Len(w) : H[n] = Hear(H[n - 1], w[n], pass)
  BY HeardEquation
<1>3. G[0] = Unheard(pass) /\ \A n \in 1 .. k : G[n] = Hear(G[n - 1], v[n], pass)
  <2> HIDE DEF v
  <2> QED
    BY <1>1, HeardEquation
<1> HIDE DEF G, H, v
<1>4. 0 \in T
  BY <1>2, <1>3
<1>5. ASSUME NEW n \in Nat, n \in T PROVE n + 1 \in T
  <2>1. SUFFICES ASSUME n + 1 <= k PROVE G[n + 1] = H[n + 1]
    OBVIOUS
  <2>2. n + 1 \in 1 .. k /\ n + 1 \in 1 .. Len(w) /\ (n + 1) - 1 = n /\ G[n] = H[n]
    BY <1>5, <2>1
  <2> QED
    BY <1>1, <1>2, <1>3, <2>2
<1> HIDE DEF T
<1>6. k \in T
  BY <1>4, <1>5, SetInduction
<1> QED
  BY <1>6 DEF T, G, H, v

\* IsPrefix, entry by entry.
LEMMA PrefixIs ==
  ASSUME NEW S, NEW s \in Seq(S), NEW t \in Seq(S)
  PROVE  IsPrefix(s, t) <=> Len(s) <= Len(t) /\ \A n \in 1 .. Len(s) : s[n] = t[n]
<1>1. SUFFICES ASSUME Len(s) <= Len(t)
      PROVE  SubSeq(s, 1, Len(s)) = SubSeq(t, 1, Len(s)) <=> \A n \in 1 .. Len(s) : s[n] = t[n]
  BY DEF IsPrefix
<1>2. SubSeq(s, 1, Len(s)) = s
  BY SubSeqFull
<1>3. /\ SubSeq(t, 1, Len(s)) \in Seq(S) /\ Len(SubSeq(t, 1, Len(s))) = Len(s)
      /\ \A n \in 1 .. Len(s) : SubSeq(t, 1, Len(s))[n] = t[n]
  <2>1. \A n \in 1 .. Len(s) : t[n] \in S
    BY <1>1
  <2> QED
    BY <2>1, SubSeqProperties
<1> QED
  BY <1>2, <1>3, SeqEqual

\* Answers are only added.
LEMMA HeardGrows ==
  ASSUME NEW w \in Seq(Words), NEW pass, NEW m \in 0 .. Len(w), NEW n \in m .. Len(w)
  PROVE  IsPrefix(HeardAfter(w, pass)[m].answers, HeardAfter(w, pass)[n].answers)
<1> DEFINE H == HeardAfter(w, pass)
           T == {d \in Nat : m + d <= Len(w) =>
                    /\ Len(H[m].answers) <= Len(H[m + d].answers)
                    /\ \A k \in 1 .. Len(H[m].answers) : H[m].answers[k] = H[m + d].answers[k]}
<1>1. /\ \A k \in 1 .. Len(w) : H[k] = Hear(H[k - 1], w[k], pass)
      /\ \A k \in 0 .. Len(w) : H[k] \in Hearings
  BY HeardEquation, HeardType
<1> HIDE DEF H
<1>2. H[m].answers \in Seq(Replies) /\ H[n].answers \in Seq(Replies)
  BY <1>1 DEF Hearings
<1>3. 0 \in T
  BY <1>2
<1>4. ASSUME NEW d \in Nat, d \in T PROVE d + 1 \in T
  <2>1. SUFFICES ASSUME m + (d + 1) <= Len(w)
        PROVE  /\ Len(H[m].answers) <= Len(H[m + (d + 1)].answers)
               /\ \A k \in 1 .. Len(H[m].answers) : H[m].answers[k] = H[m + (d + 1)].answers[k]
    OBVIOUS
  <2> DEFINE g == H[m + d]
             h == H[m + (d + 1)]
             r == Answer(g.line, g.auth, pass)
  <2>2. m + (d + 1) \in 1 .. Len(w) /\ (m + (d + 1)) - 1 = m + d /\ m + d \in 0 .. Len(w)
    BY <2>1
  <2>3. h = Hear(g, w[m + (d + 1)], pass) /\ g \in Hearings
    BY <1>1, <2>2
  <2>4. /\ Len(H[m].answers) <= Len(g.answers)
        /\ \A k \in 1 .. Len(H[m].answers) : H[m].answers[k] = g.answers[k]
    <3>1. m + d <= Len(w)
      BY <2>1
    <3> QED
      BY <1>4, <3>1
  <2> HIDE DEF g, h
  <2>5. g.answers \in Seq(Replies) /\ g.line \in Seq(Words) /\ g.auth \in BOOLEAN
    BY <2>3 DEF Hearings
  <2>6. r.reply \in Replies \cup {None}
    BY <2>5, AnswerType
  <2> HIDE DEF r
  <2>7. h.answers = g.answers \/ (h.answers = Append(g.answers, r.reply) /\ r.reply \in Replies)
    BY <2>3, <2>6 DEF Hear, Hearings, r
  <2>8. CASE h.answers = g.answers
    BY <2>4, <2>8 DEF h
  <2>9. CASE h.answers = Append(g.answers, r.reply) /\ r.reply \in Replies
    <3>1. /\ Len(h.answers) = Len(g.answers) + 1
          /\ \A k \in 1 .. Len(g.answers) : h.answers[k] = g.answers[k]
      BY <2>5, <2>9
    <3>2. Len(H[m].answers) \in Nat /\ Len(g.answers) \in Nat
      BY <1>2, <2>5
    <3>3. Len(H[m].answers) <= Len(h.answers)
      BY <2>4, <3>1, <3>2
    <3>4. \A k \in 1 .. Len(H[m].answers) : H[m].answers[k] = h.answers[k]
      <4> TAKE k \in 1 .. Len(H[m].answers)
      <4>1. k \in 1 .. Len(g.answers)
        BY <2>4, <3>2
      <4> QED
        BY <2>4, <3>1, <4>1
    <3> QED
      BY <3>3, <3>4 DEF h
  <2> QED
    BY <2>7, <2>8, <2>9
<1>5. n - m \in T
  <2> HIDE DEF T
  <2> QED
    BY <1>3, <1>4, SetInduction
<1>6. m + (n - m) = n
  OBVIOUS
<1>7. /\ Len(H[m].answers) <= Len(H[n].answers)
      /\ \A k \in 1 .. Len(H[m].answers) : H[m].answers[k] = H[n].answers[k]
  BY <1>5, <1>6
<1>8. IsPrefix(H[m].answers, H[n].answers)
  BY <1>2, <1>7, PrefixIs
<1> QED
  BY <1>8 DEF H

\* Nothing is heard after a QUIT.
LEMMA HeardNoMore ==
  ASSUME NEW w \in Seq(Words), NEW pass, NEW m \in 0 .. Len(w), NEW n \in m .. Len(w),
         HeardAfter(w, pass)[m].over
  PROVE  HeardAfter(w, pass)[n] = HeardAfter(w, pass)[m]
<1> DEFINE H == HeardAfter(w, pass)
           T == {d \in Nat : m + d <= Len(w) => H[m + d] = H[m]}
<1>1. \A k \in 1 .. Len(w) : H[k] = Hear(H[k - 1], w[k], pass)
  BY HeardEquation
<1> HIDE DEF H
<1>2. 0 \in T
  OBVIOUS
<1>3. ASSUME NEW d \in Nat, d \in T PROVE d + 1 \in T
  <2>1. SUFFICES ASSUME m + (d + 1) <= Len(w) PROVE H[m + (d + 1)] = H[m]
    OBVIOUS
  <2>2. m + (d + 1) \in 1 .. Len(w) /\ (m + (d + 1)) - 1 = m + d /\ H[m + d] = H[m]
    BY <1>3, <2>1
  <2>3. H[m + (d + 1)] = Hear(H[m], w[m + (d + 1)], pass)
    BY <1>1, <2>2
  <2> QED
    BY <2>3 DEF Hear, H
<1>4. n - m \in T
  <2> HIDE DEF T
  <2> QED
    BY <1>2, <1>3, SetInduction
<1>5. m + (n - m) = n
  OBVIOUS
<1> QED
  BY <1>4, <1>5 DEF H

\* Words without an end of line only make the line longer.
LEMMA HeardInLine ==
  ASSUME NEW w \in Seq(Words), NEW pass, NEW m \in 0 .. Len(w), NEW n \in m .. Len(w),
         ~HeardAfter(w, pass)[m].over, HeardAfter(w, pass)[m].line = << >>,
         \A k \in m + 1 .. n : w[k] # NL
  PROVE  /\ HeardAfter(w, pass)[n].line = SubSeq(w, m + 1, n)
         /\ HeardAfter(w, pass)[n].auth = HeardAfter(w, pass)[m].auth
         /\ ~HeardAfter(w, pass)[n].over
         /\ HeardAfter(w, pass)[n].answers = HeardAfter(w, pass)[m].answers
<1> DEFINE H == HeardAfter(w, pass)
           T == {d \in Nat : m + d <= n =>
                              H[m + d] = [H[m] EXCEPT !.line = SubSeq(w, m + 1, m + d)]}
<1>1. /\ \A k \in 1 .. Len(w) : H[k] = Hear(H[k - 1], w[k], pass)
      /\ H[m] \in Hearings
  BY HeardEquation, HeardType
<1>2. ~H[m].over /\ H[m].line = << >>
  OBVIOUS
<1> HIDE DEF H
<1>3. 0 \in T
  <2>1. SubSeq(w, m + 1, m + 0) = << >>
    BY SubSeqEmpty
  <2> QED
    BY <1>1, <1>2, <2>1 DEF Hearings
<1>4. ASSUME NEW d \in Nat, d \in T PROVE d + 1 \in T
  <2> DEFINE x == SubSeq(w, m + 1, m + d)
             y == SubSeq(w, m + 1, m + (d + 1))
  <2>1. SUFFICES ASSUME m + (d + 1) <= n PROVE H[m + (d + 1)] = [H[m] EXCEPT !.line = y]
    OBVIOUS
  <2>2. /\ m + (d + 1) \in 1 .. Len(w) /\ (m + (d + 1)) - 1 = m + d
        /\ m + (d + 1) \in m + 1 .. n /\ m + d <= n /\ m + 1 \in 1 .. Len(w)
        /\ m + (d + 1) \in m + 1 .. Len(w)
    BY <2>1
  <2>3. H[m + d] = [H[m] EXCEPT !.line = x]
    BY <1>4, <2>2
  <2>4. H[m + (d + 1)] = Hear(H[m + d], w[m + (d + 1)], pass) /\ w[m + (d + 1)] # NL
    BY <1>1, <2>2
  <2>5. y = Append(x, w[m + (d + 1)])
    <3>1. y = x \o <<w[m + (d + 1)]>>
      BY <2>2, SubSeqRecursiveSecond
    <3>2. x \in Seq(Words) /\ w[m + (d + 1)] \in Words
      <4>1. \A k \in m + 1 .. m + d : w[k] \in Words
        BY <2>2
      <4> QED
        BY <2>2, <4>1, SubSeqProperties
    <3> HIDE DEF x, y
    <3> QED
      BY <3>1, <3>2, AppendIsConcat
  <2> HIDE DEF x, y
  <2>6. Hear(H[m + d], w[m + (d + 1)], pass) = [H[m] EXCEPT !.line = Append(x, w[m + (d + 1)])]
    BY <1>1, <1>2, <2>3, <2>4 DEF Hear, Hearings
  <2> QED
    BY <2>4, <2>5, <2>6
<1>5. n - m \in T
  <2> HIDE DEF T
  <2> QED
    BY <1>3, <1>4, SetInduction
<1>6. m + (n - m) = n
  OBVIOUS
<1>7. m + (n - m) <= n => H[m + (n - m)] = [H[m] EXCEPT !.line = SubSeq(w, m + 1, m + (n - m))]
  BY <1>5
<1>8. H[n] = [H[m] EXCEPT !.line = SubSeq(w, m + 1, n)]
  <2> DEFINE k == m + (n - m)
  <2>1. k = n /\ k <= n
    BY <1>6
  <2>2. H[k] = [H[m] EXCEPT !.line = SubSeq(w, m + 1, k)]
    BY <1>7, <2>1
  <2> HIDE DEF k
  <2> QED
    BY <2>1, <2>2
<1>9. /\ H[n].line = SubSeq(w, m + 1, n) /\ H[n].auth = H[m].auth
      /\ ~H[n].over /\ H[n].answers = H[m].answers
  BY <1>1, <1>2, <1>8 DEF Hearings
<1> QED
  BY <1>9 DEF H

-----------------------------------------------------------------------------
(* The answers                                                             *)

\* What client c should have heard after its first n bytes.
After(c, n) == HeardAfter(script[c], requirepass)[n]

\* The session of a client stands where the client's hearing stands after the
\* bytes that are no longer buffered; once it has no session, it has been
\* given all the answers, unless the server broke in the middle.
SessionHears(c, fd) ==
  After(c, taken[c] - Len(sessions[fd].buffer)) =
    [line |-> << >>, auth |-> sessions[fd].auth, over |-> FALSE, answers |-> inbox[c]]

HasHeard(c) ==
  /\ IsPrefix(inbox[c], After(c, taken[c]).answers)
  /\ ~Broken => inbox[c] = After(c, taken[c]).answers

ReplyInv ==
  \A c \in Connections : ~overrun[c] =>
    /\ \A fd \in Fds : file[fd] = c => SessionHears(c, fd)
    /\ ~Accepted(c) => HasHeard(c)

\* What a buffer that holds no whole line adds to the hearing.
LEMMA BufferedHeard ==
  ASSUME Inv, NEW c \in Connections, NEW fd \in Fds, file[fd] = c, SessionHears(c, fd)
  PROVE  /\ IsPrefix(inbox[c], After(c, taken[c]).answers)
         /\ ~HasLine(sessions[fd].buffer) => After(c, taken[c]).answers = inbox[c]
<1> DEFINE b == sessions[fd].buffer
           w == script[c]
           t == taken[c]
           m == t - Len(b)
           H == HeardAfter(w, requirepass)
<1>1. /\ w \in Seq(Words) /\ t \in Nat /\ t <= Len(w)
      /\ b \in Seq(Words) /\ Len(b) <= t /\ \A n \in 1 .. Len(b) : b[n] = w[t - Len(b) + n]
  <2>1. w \in Seq(Words) /\ t \in Nat /\ t <= Len(w)
    BY DEF Inv, TypeInv
  <2>2. sessions[fd] \in Sessions
    BY DEF Inv, TypeInv, TableInv
  <2>3. Len(b) <= t /\ \A n \in 1 .. Len(b) : b[n] = w[t - Len(b) + n]
    BY DEF Inv, BufferInv
  <2> QED
    BY <2>1, <2>2, <2>3 DEF Sessions
<1>2. H[m].answers = inbox[c] /\ H[m].line = << >> /\ ~H[m].over
  BY DEF SessionHears, After
<1>3. b = << >> \/ b # << >>
  OBVIOUS
<1> HIDE DEF b, w, t, H
<1>4. m \in 0 .. Len(w) /\ t \in m .. Len(w)
  BY <1>1
<1>5. IsPrefix(H[m].answers, H[t].answers)
  BY <1>1, <1>4, HeardGrows DEF H
<1>6. ASSUME ~HasLine(b) PROVE H[t].answers = H[m].answers
  <2>1. \A k \in m + 1 .. t : w[k] # NL
    <3> TAKE k \in m + 1 .. t
    <3>1. k - m \in 1 .. Len(b) /\ t - Len(b) + (k - m) = k
      BY <1>1
    <3>2. b[k - m] = w[k] /\ b[k - m] # NL
      BY <1>1, <1>6, <3>1 DEF HasLine
    <3> QED
      BY <3>2
  <2>2. w \in Seq(Words) /\ m \in 0 .. Len(w) /\ t \in m .. Len(w)
    BY <1>1, <1>4
  <2>3. ~HeardAfter(w, requirepass)[m].over /\ HeardAfter(w, requirepass)[m].line = << >>
    BY <1>2 DEF H
  <2> HIDE DEF m
  <2>4. HeardAfter(w, requirepass)[t].answers = HeardAfter(w, requirepass)[m].answers
    BY <2>1, <2>2, <2>3, HeardInLine
  <2> QED
    BY <2>4 DEF H
<1> QED
  BY <1>2, <1>5, <1>6 DEF H, t, w, b, After

\* A step that changes neither what is sent nor what was heard.
LEMMA SameAfter ==
  ASSUME UNCHANGED <<script, requirepass>>, NEW c, NEW n
  PROVE  After(c, n)' = HeardAfter(script[c], requirepass)[n']
BY DEF After

\* Steps that neither receive nor serve keep everyone as answered as before.
LEMMA StillReplies ==
  ASSUME Inv, ReplyInv, Still
  PROVE  ReplyInv'
<1>1. UNCHANGED <<sessions, file, taken, inbox, overrun, script, requirepass>>
  BY DEF Still, given
<1>2. ~Broken' => ~Broken
  BY DEF Still, Broken
<1> QED
  BY <1>1, <1>2 DEF ReplyInv, SessionHears, HasHeard, After, Accepted

\* A signal or the end cuts nobody off between a line and its answer, unless it
\* comes while the lines are executed.
LEMMA StoppingReplies ==
  ASSUME Inv, ReplyInv, Stopping
  PROVE  ReplyInv'
<1>1. UNCHANGED <<taken, inbox, overrun, script, requirepass>>
  BY DEF Stopping, given
<1>2. \A fd \in Fds : file'[fd] \notin Connections
  BY DEF Stopping
<1> SUFFICES ASSUME NEW c \in Connections, ~overrun[c] PROVE HasHeard(c)'
  BY <1>1, <1>2 DEF ReplyInv
<1>3. ~Broken' => ~Broken /\ pc # "lines"
  BY DEF Stopping
<1>4. CASE ~Accepted(c)
  BY <1>1, <1>3, <1>4 DEF ReplyInv, HasHeard, After
<1>5. CASE Accepted(c)
  <2>1. PICK fd \in Fds : file[fd] = c
    BY <1>5 DEF Accepted
  <2>2. SessionHears(c, fd)
    BY <2>1 DEF ReplyInv
  <2>3. ~Broken' => ~HasLine(sessions[fd].buffer)
    BY <1>3, <2>1 DEF Inv, BufferInv
  <2>4. IsPrefix(inbox[c], After(c, taken[c]).answers)
        /\ (~HasLine(sessions[fd].buffer) => After(c, taken[c]).answers = inbox[c])
    BY <2>1, <2>2, BufferedHeard
  <2> QED
    BY <1>1, <2>3, <2>4 DEF HasHeard, After
<1> QED
  BY <1>4, <1>5

\* Connecting answers nobody.
LEMMA ConnectReplies ==
  ASSUME Inv, ReplyInv, NEW c \in Connections, Connect(c)
  PROVE  ReplyInv'
<1>1. UNCHANGED <<pc, sessions, file, taken, inbox, overrun, script, requirepass>>
  BY DEF Connect, table, flow, given
<1> QED
  BY <1>1 DEF ReplyInv, SessionHears, HasHeard, After, Accepted, Broken

\* A session starts as hearing does: with nothing.
LEMMA AcceptReplies ==
  ASSUME Inv, ReplyInv, AcceptOne
  PROVE  ReplyInv'
<1>1. PICK fd \in FreeFds :
        /\ sessions' = [sessions EXCEPT ![fd] = NewSession]
        /\ file' = [file EXCEPT ![fd] = Head(backlog)]
  BY AcceptTypes DEF Inv
<1>2. UNCHANGED <<pc, taken, inbox, overrun, script, requirepass>> /\ fd \in Fds /\ file[fd] = None
  BY DEF AcceptOne, flow, given, FreeFds
<1> DEFINE d == Head(backlog)
<1>3. d \in Connections /\ Queued(d)
  <2>1. backlog # << >> /\ backlog \in Seq(Connections)
    BY DEF AcceptOne, Inv, TypeInv
  <2> QED
    BY <2>1 DEF Queued
<1> HIDE DEF d
<1>4. \A f \in Fds : /\ file'[f] = IF f = fd THEN d ELSE file[f]
                     /\ sessions'[f] = IF f = fd THEN NewSession ELSE sessions[f]
  BY <1>1 DEF Inv, TypeInv, d
<1>5. taken[d] = 0 /\ inbox[d] = << >> /\ ~Accepted(d)
  BY <1>3 DEF Inv, ConnInv
<1>6. ASSUME NEW c \in Connections, ~overrun[c], NEW f \in Fds, file'[f] = c
      PROVE  SessionHears(c, f)'
  <2>1. CASE f = fd
    <3>1. c = d /\ sessions'[f] = NewSession /\ script[c] \in Seq(Words)
      BY <1>4, <1>6, <2>1 DEF Inv, TypeInv
    <3>2. HeardAfter(script[c], requirepass)[0] = Unheard(requirepass)
      BY <3>1, HeardEquation
    <3>3. taken[c] - Len(sessions'[f].buffer) = 0
      BY <1>5, <3>1 DEF NewSession
    <3>4. Unheard(requirepass) =
            [line |-> << >>, auth |-> NewSession.auth, over |-> FALSE, answers |-> << >>]
      BY DEF Unheard, NewSession
    <3>5. script' = script /\ requirepass' = requirepass /\ taken' = taken /\ inbox' = inbox
      BY <1>2
    <3> QED
      BY <1>5, <3>1, <3>2, <3>3, <3>4, <3>5 DEF SessionHears, After
  <2>2. CASE f # fd
    <3>1. file[f] = c /\ sessions'[f] = sessions[f]
      BY <1>4, <1>6, <2>2
    <3>2. SessionHears(c, f)
      BY <1>6, <3>1 DEF ReplyInv
    <3> QED
      BY <1>2, <3>1, <3>2 DEF SessionHears, After
  <2> QED
    BY <2>1, <2>2
<1>7. ASSUME NEW c \in Connections, ~overrun[c], ~Accepted(c)'
      PROVE  HasHeard(c)'
  <2>1. ~Accepted(c)
    BY <1>2, <1>4, <1>7, TcpServerAssumption DEF Accepted
  <2> QED
    BY <1>2, <1>7, <2>1 DEF ReplyInv, HasHeard, After, Broken
<1> QED
  BY <1>2, <1>6, <1>7 DEF ReplyInv

\* What was received is not heard before it is served.
LEMMA ReceiveReplies ==
  ASSUME Inv, ReplyInv, Receive
  PROVE  ReplyInv'
<1>1. PICK got \in Seq(Words) :
        /\ sessions' = [sessions EXCEPT ![Fd].buffer = @ \o got]
        /\ taken' = [taken EXCEPT ![Conn] = @ + Len(got)]
  BY Received DEF Inv
<1>2. Fd \in Fds /\ Conn \in Connections /\ sessions[Fd] \in Sessions
  BY Received DEF Inv
<1>3. UNCHANGED <<file, inbox, overrun, script, requirepass>> /\ pc = "clients" /\ pc' = "lines"
  BY DEF Receive, AtClient, given
<1>4. \A c \in Connections : taken'[c] = IF c = Conn THEN taken[c] + Len(got) ELSE taken[c]
  BY <1>1 DEF Inv, TypeInv
<1>5. ASSUME NEW c \in Connections, ~overrun[c], NEW f \in Fds, file[f] = c
      PROVE  SessionHears(c, f)'
  <2>1. SessionHears(c, f)
    BY <1>5 DEF ReplyInv
  <2>2. taken'[c] - Len(sessions'[f].buffer) = taken[c] - Len(sessions[f].buffer)
        /\ sessions'[f].auth = sessions[f].auth
    <3>1. CASE f = Fd
      <4> DEFINE b == sessions[Fd].buffer
      <4>1. b \in Seq(Words)
        BY <1>2 DEF Sessions
      <4>2. sessions'[Fd].buffer = b \o got /\ sessions'[Fd].auth = sessions[Fd].auth
        BY <1>1, <1>2 DEF Inv, TypeInv, Sessions
      <4>3. Len(b \o got) = Len(b) + Len(got)
        BY <4>1
      <4>4. taken'[c] = taken[c] + Len(got) /\ taken[c] \in Nat
        BY <1>4, <1>5, <3>1 DEF Inv, TypeInv, Conn
      <4> HIDE DEF b
      <4>5. taken'[c] - Len(b \o got) = taken[c] - Len(b)
        BY <4>1, <4>3, <4>4
      <4> QED
        BY <3>1, <4>2, <4>5 DEF b
    <3>2. CASE f # Fd
      <4>1. c # Conn
        BY <1>2, <1>5, <3>2 DEF Inv, ConnInv, Conn
      <4> QED
        BY <1>1, <1>4, <3>2, <4>1 DEF Inv, TypeInv
    <3> QED
      BY <3>1, <3>2
  <2> QED
    BY <1>3, <2>1, <2>2 DEF SessionHears, After
<1>6. ASSUME NEW c \in Connections, ~overrun[c], ~Accepted(c)
      PROVE  HasHeard(c)'
  <2>1. c # Conn
    BY <1>2, <1>6 DEF Accepted, Conn
  <2> QED
    BY <1>3, <1>4, <1>6, <2>1 DEF ReplyInv, HasHeard, After, Broken
<1>7. \A c \in Connections : Accepted(c)' <=> Accepted(c)
  BY <1>3 DEF Accepted
<1> QED
  BY <1>3, <1>5, <1>6, <1>7 DEF ReplyInv

\* A client that is hung up on has been answered all its whole lines.
LEMMA HangUpReplies ==
  ASSUME Inv, ReplyInv, HangUp
  PROVE  ReplyInv'
<1>1. /\ UNCHANGED <<pc, taken, inbox, overrun, script, requirepass>> /\ Drop /\ Fd \in Fds
      /\ pc = "clients"
  BY AtEntry DEF HangUp, AtClient, flow, given, Inv
<1>2. \A fd \in Fds : /\ file'[fd] = IF fd = Fd THEN None ELSE file[fd]
                      /\ sessions'[fd] = IF fd = Fd THEN None ELSE sessions[fd]
  BY <1>1 DEF Drop, Inv, TypeInv
<1>3. ASSUME NEW c \in Connections, ~overrun[c], NEW f \in Fds, file'[f] = c
      PROVE  SessionHears(c, f)'
  <2>1. file[f] = c /\ sessions'[f] = sessions[f]
    BY <1>2, <1>3, TcpServerAssumption
  <2>2. SessionHears(c, f)
    BY <1>3, <2>1 DEF ReplyInv
  <2> QED
    BY <1>1, <2>1, <2>2 DEF SessionHears, After
<1>4. ASSUME NEW c \in Connections, ~overrun[c], ~Accepted(c)'
      PROVE  HasHeard(c)'
  <2>1. HasHeard(c)
    <3>1. CASE ~Accepted(c)
      BY <1>4, <3>1 DEF ReplyInv
    <3>2. CASE Accepted(c)
      <4>1. PICK fd \in Fds : file[fd] = c
        BY <3>2 DEF Accepted
      <4>2. SessionHears(c, fd)
        BY <1>4, <4>1 DEF ReplyInv
      <4>3. ~HasLine(sessions[fd].buffer)
        BY <1>1, <4>1 DEF Inv, BufferInv, Broken
      <4> QED
        BY <4>1, <4>2, <4>3, BufferedHeard DEF HasHeard
    <3> QED
      BY <3>1, <3>2
  <2> QED
    BY <1>1, <2>1 DEF HasHeard, After, Broken
<1> QED
  BY <1>1, <1>3, <1>4 DEF ReplyInv

\* The line that is served is the next one the client is to hear.
LEMMA ServedHeard ==
  ASSUME Inv, ReplyInv, ServeLine, ~overrun'[Conn]
  PROVE  After(Conn, taken[Conn] - Len(Rest)) =
           [line |-> << >>, auth |-> Result.auth, over |-> Result.close, answers |-> inbox'[Conn]]
<1> DEFINE b == sessions[Fd].buffer
           e == EndOfLine(b)
           w == script[Conn]
           t == taken[Conn]
           m == t - Len(b)
           q == requirepass
           H == HeardAfter(w, q)
<1>1. /\ Fd \in Fds /\ Conn \in Connections /\ sessions[Fd] \in Sessions /\ AtLine
      /\ Result \in [reply : Replies \cup {None}, auth : BOOLEAN, close : BOOLEAN]
  BY LineTypes DEF ServeLine, Inv
<1>2. /\ b \in Seq(Words) /\ e \in 1 .. Len(b) /\ b[e] = NL /\ \A n \in 1 .. e - 1 : b[n] # NL
      /\ Line \in Seq(Words) /\ Len(Line) = e - 1 /\ \A n \in 1 .. e - 1 : Line[n] = b[n]
      /\ Len(Rest) = Len(b) - e
  BY <1>1, RestIs DEF Inv
<1>3. /\ w \in Seq(Words) /\ t \in Nat /\ t <= Len(w) /\ Len(b) <= t
      /\ \A n \in 1 .. Len(b) : b[n] = w[t - Len(b) + n]
  <2>1. w \in Seq(Words) /\ t \in Nat /\ t <= Len(w)
    BY <1>1 DEF Inv, TypeInv
  <2> QED
    BY <1>1, <2>1 DEF Inv, BufferInv, Conn
<1>4. /\ ~overrun[Conn]
      /\ inbox'[Conn] = IF Result.reply = None THEN inbox[Conn] ELSE Append(inbox[Conn], Result.reply)
  <2>1. Send(Conn, Result.reply)
    BY DEF ServeLine
  <2>2. overrun \in [Connections -> BOOLEAN] /\ inbox \in [Connections -> Seq(Replies)]
    BY DEF Inv, TypeInv
  <2>3. overrun' # [overrun EXCEPT ![Conn] = TRUE]
    BY <1>1, <2>2
  <2>4. UNCHANGED overrun
    BY <2>1, <2>3 DEF Send
  <2>5. inbox'[Conn] = IF Result.reply = None THEN inbox[Conn] ELSE Append(inbox[Conn], Result.reply)
    BY <1>1, <2>1, <2>2, <2>3 DEF Send
  <2> QED
    BY <2>4, <2>5
<1>5. H[m] = [line |-> << >>, auth |-> sessions[Fd].auth, over |-> FALSE, answers |-> inbox[Conn]]
  BY <1>1, <1>4 DEF ReplyInv, SessionHears, After, Conn
<1>6. Result = Answer(Line, sessions[Fd].auth, q)
  BY DEF Result
<1>7. H[m].auth = sessions[Fd].auth /\ H[m].answers = inbox[Conn] /\ H[m].line = << >> /\ ~H[m].over
  BY <1>5
<1> HIDE DEF b, e, w, t, q
<1>8. /\ m \in 0 .. Len(w) /\ m + (e - 1) \in m .. Len(w) /\ m + e \in 1 .. Len(w)
      /\ (m + e) - 1 = m + (e - 1) /\ t - Len(Rest) = m + e /\ m + (e - 1) \in 0 .. Len(w)
  <2>1. /\ Len(b) \in Nat /\ Len(w) \in Nat /\ t \in Nat /\ t <= Len(w) /\ Len(b) <= t
        /\ e \in 1 .. Len(b) /\ Len(Rest) = Len(b) - e
    BY <1>2, <1>3
  <2> QED
    BY <2>1
<1>9. \A k \in m + 1 .. m + (e - 1) : w[k] # NL
  <2> TAKE k \in m + 1 .. m + (e - 1)
  <2>1. k - m \in 1 .. Len(b) /\ k - m \in 1 .. e - 1 /\ t - Len(b) + (k - m) = k
    <3>1. Len(b) \in Nat /\ t \in Nat /\ e \in 1 .. Len(b)
      BY <1>2, <1>3
    <3> QED
      BY <3>1
  <2>2. b[k - m] = w[k] /\ b[k - m] # NL
    BY <1>2, <1>3, <2>1
  <2> QED
    BY <2>2
<1>10. w[m + e] = NL
  BY <1>2, <1>3
<1>11. SubSeq(w, m + 1, m + (e - 1)) = Line
  <2>1. \A k \in m + 1 .. m + (e - 1) : w[k] \in Words
    BY <1>3, <1>8
  <2> HIDE DEF m
  <2>2. /\ SubSeq(w, m + 1, m + (e - 1)) \in Seq(Words)
        /\ Len(SubSeq(w, m + 1, m + (e - 1))) = e - 1
        /\ \A n \in 1 .. e - 1 : SubSeq(w, m + 1, m + (e - 1))[n] = w[m + n]
    <3> DEFINE x == m + 1
               y == m + (e - 1)
               v == SubSeq(w, x, y)
    <3>1. m \in Nat /\ e \in Nat \ {0}
      <4>1. Len(b) \in Nat /\ e \in 1 .. Len(b) /\ Len(w) \in Nat /\ m \in 0 .. Len(w)
        BY <1>2, <1>3, <1>8
      <4> QED
        BY <4>1
    <3>2. /\ x \in Int /\ y \in Int /\ (IF x <= y THEN y - x + 1 ELSE 0) = e - 1
          /\ \A n \in 1 .. e - 1 : n \in 1 .. y - x + 1 /\ x + n - 1 = m + n
      BY <3>1
    <3>3. \A k \in x .. y : w[k] \in Words
      BY <2>1
    <3> HIDE DEF x, y
    <3>4. /\ v \in Seq(Words) /\ Len(v) = IF x <= y THEN y - x + 1 ELSE 0
          /\ \A n \in 1 .. y - x + 1 : v[n] = w[x + n - 1]
      BY <3>2, <3>3, SubSeqProperties
    <3>5. \A n \in 1 .. e - 1 : v[n] = w[m + n]
      BY <3>2, <3>4
    <3> HIDE DEF v
    <3>6. v \in Seq(Words) /\ Len(v) = e - 1
      BY <3>2, <3>4
    <3> QED
      BY <3>5, <3>6 DEF v, x, y
  <2>3. \A n \in 1 .. e - 1 : w[m + n] = Line[n]
    <3> TAKE n \in 1 .. e - 1
    <3>1. n \in 1 .. Len(b) /\ b[n] = w[t - Len(b) + n] /\ Line[n] = b[n]
      BY <1>2, <1>3
    <3> QED
      BY <3>1 DEF m
  <2> QED
    <3> DEFINE x == SubSeq(w, m + 1, m + (e - 1))
    <3>1. x \in Seq(Words) /\ Line \in Seq(Words) /\ Len(x) = Len(Line)
      BY <1>2, <2>2
    <3>2. \A n \in 1 .. Len(x) : x[n] = Line[n]
      BY <2>2, <2>3
    <3> HIDE DEF x
    <3>3. x = Line
      BY <3>1, <3>2, SeqEqual
    <3> QED
      BY <3>3 DEF x
<1> HIDE DEF H, m
<1> DEFINE g == H[m + (e - 1)]
<1>12. g.line = Line /\ g.auth = sessions[Fd].auth /\ ~g.over /\ g.answers = inbox[Conn]
  <2>1. ~HeardAfter(w, q)[m].over /\ HeardAfter(w, q)[m].line = << >>
    BY <1>7 DEF H
  <2>2. /\ HeardAfter(w, q)[m + (e - 1)].line = SubSeq(w, m + 1, m + (e - 1))
        /\ HeardAfter(w, q)[m + (e - 1)].auth = HeardAfter(w, q)[m].auth
        /\ ~HeardAfter(w, q)[m + (e - 1)].over
        /\ HeardAfter(w, q)[m + (e - 1)].answers = HeardAfter(w, q)[m].answers
    <3> DEFINE n == m + (e - 1)
    <3>1. w \in Seq(Words) /\ m \in 0 .. Len(w) /\ n \in m .. Len(w) /\ \A k \in m + 1 .. n : w[k] # NL
      BY <1>3, <1>8, <1>9
    <3> HIDE DEF n
    <3>2. /\ HeardAfter(w, q)[n].line = SubSeq(w, m + 1, n)
          /\ HeardAfter(w, q)[n].auth = HeardAfter(w, q)[m].auth
          /\ ~HeardAfter(w, q)[n].over
          /\ HeardAfter(w, q)[n].answers = HeardAfter(w, q)[m].answers
      BY <2>1, <3>1, HeardInLine
    <3> QED
      BY <3>2 DEF n
  <2> QED
    BY <1>7, <1>11, <2>2 DEF H
<1>13. H[m + e] = Hear(g, NL, q)
  <2>1. \A k \in 1 .. Len(w) : H[k] = Hear(H[k - 1], w[k], q)
    BY <1>3, HeardEquation DEF H
  <2>2. H[m + e] = Hear(H[(m + e) - 1], w[m + e], q)
    BY <1>8, <2>1
  <2> QED
    BY <1>8, <1>10, <2>2
<1> HIDE DEF g
<1>14. Hear(g, NL, q) = [line |-> << >>, auth |-> Result.auth, over |-> Result.close,
                         answers |-> inbox'[Conn]]
  BY <1>4, <1>6, <1>12 DEF Hear
<1>15. H[t - Len(Rest)] = [line |-> << >>, auth |-> Result.auth, over |-> Result.close,
                           answers |-> inbox'[Conn]]
  BY <1>8, <1>13, <1>14
<1> QED
  BY <1>15 DEF H, t, w, q, After

\* Serving a line answers its client as it should be, and no other client.
LEMMA ServeReplies ==
  ASSUME Inv, ReplyInv, ServeLine
  PROVE  ReplyInv'
<1>1. /\ Fd \in Fds /\ Conn \in Connections /\ i <= Len(poll_fds) /\ file[Fd] = Conn /\ AtLine
      /\ sessions[Fd] \in Sessions
  BY LineTypes DEF ServeLine, Inv, Conn
<1>2. /\ UNCHANGED <<taken, script, requirepass>> /\ pc = "lines" /\ pc' \in {"lines", "clients"}
      /\ Send(Conn, Result.reply)
  BY DEF ServeLine, AtLine, given
<1>3. \A c \in Connections : c # Conn => inbox'[c] = inbox[c] /\ overrun'[c] = overrun[c]
  BY <1>1, <1>2, SendElse DEF Inv
<1>4. \A f \in Fds : f # Fd => file'[f] = file[f] /\ sessions'[f] = sessions[f]
  <2>1. CASE Result.close
    BY <2>1 DEF ServeLine, Drop, Inv, TypeInv
  <2>2. CASE ~Result.close
    BY <2>2 DEF ServeLine, Inv, TypeInv
  <2> QED
    BY <2>1, <2>2
<1>5. \A f \in Fds : f # Fd => file[f] # Conn
  BY <1>1 DEF Inv, ConnInv
<1>6. ASSUME NEW c \in Connections, c # Conn, ~overrun'[c]
      PROVE  /\ \A f \in Fds : file'[f] = c => SessionHears(c, f)'
             /\ ~Accepted(c)' => HasHeard(c)'
  <2>1. ~overrun[c] /\ inbox'[c] = inbox[c]
    BY <1>3, <1>6
  <2>2. file'[Fd] # c
    <3>1. CASE Result.close
      BY <1>1, <3>1, TcpServerAssumption DEF ServeLine, Drop, Inv, TypeInv
    <3>2. CASE ~Result.close
      BY <1>1, <1>6, <3>2 DEF ServeLine
    <3> QED
      BY <3>1, <3>2
  <2>3. ASSUME NEW f \in Fds, file'[f] = c PROVE SessionHears(c, f)'
    <3>1. file[f] = c /\ sessions'[f] = sessions[f]
      BY <1>4, <2>2, <2>3
    <3>2. SessionHears(c, f)
      BY <2>1, <3>1 DEF ReplyInv
    <3> QED
      BY <1>2, <2>1, <3>1, <3>2 DEF SessionHears, After
  <2>4. ASSUME ~Accepted(c)' PROVE HasHeard(c)'
    <3>1. ~Accepted(c)
      BY <1>1, <1>4, <1>6, <2>4 DEF Accepted
    <3>2. HasHeard(c) /\ ~Broken
      BY <1>2, <2>1, <3>1 DEF ReplyInv, Broken
    <3> QED
      BY <1>2, <2>1, <3>2 DEF HasHeard, After
  <2> QED
    BY <2>3, <2>4
<1>7. ASSUME NEW c \in Connections, c = Conn, ~overrun'[c]
      PROVE  /\ \A f \in Fds : file'[f] = c => SessionHears(c, f)'
             /\ ~Accepted(c)' => HasHeard(c)'
  <2>1. HeardAfter(script[c], requirepass)[taken[c] - Len(Rest)] =
          [line |-> << >>, auth |-> Result.auth, over |-> Result.close, answers |-> inbox'[c]]
    BY <1>7, ServedHeard DEF After
  <2>3. CASE Result.close
    <3>1. file' = [file EXCEPT ![Fd] = None]
      BY <2>3 DEF ServeLine, Drop
    <3>2. \A f \in Fds : file'[f] # c
      BY <1>1, <1>4, <1>5, <1>7, <3>1, TcpServerAssumption DEF Inv, TypeInv
    <3> DEFINE w == script[c]
               t == taken[c]
               q == requirepass
               k == t - Len(Rest)
    <3>3. w \in Seq(Words) /\ k \in 0 .. Len(w) /\ t \in k .. Len(w)
      <4>1. w \in Seq(Words) /\ t \in Nat /\ t <= Len(w)
        BY DEF Inv, TypeInv
      <4> DEFINE b == sessions[Fd].buffer
                 e == EndOfLine(b)
      <4>2. b \in Seq(Words) /\ e \in 1 .. Len(b) /\ Len(Rest) = Len(b) - e
        BY <1>1, RestIs DEF Inv
      <4>3. Len(b) <= t
        BY <1>1, <1>7 DEF Inv, BufferInv
      <4> HIDE DEF w, t, b, e
      <4> QED
        BY <4>1, <4>2, <4>3
    <3>4. HeardAfter(w, q)[k].over /\ HeardAfter(w, q)[k].answers = inbox'[c]
      BY <2>1, <2>3
    <3>5. inbox'[c] \in Seq(Replies)
      <4>1. Result.reply \in Replies \cup {None}
        BY <1>1, LineTypes DEF Inv
      <4> QED
        BY <1>1, <1>2, <4>1, SendTypes DEF Inv
    <3> HIDE DEF w, t, q, k
    <3>6. HeardAfter(w, q)[t] = HeardAfter(w, q)[k]
      BY <3>3, <3>4, HeardNoMore
    <3>7. inbox'[c] = HeardAfter(w, q)[t].answers
      BY <3>4, <3>6
    <3>8. IsPrefix(inbox'[c], inbox'[c])
      BY <3>5, PrefixIs
    <3>9. HasHeard(c)'
      <4>1. /\ script' = script /\ requirepass' = requirepass /\ taken' = taken
        BY <1>2
      <4>2. inbox'[c] = HeardAfter(script[c], requirepass)[taken[c]].answers
        BY <3>7 DEF w, t, q
      <4>3. ~Broken'
        BY <1>2 DEF Broken
      <4> QED
        BY <3>8, <4>1, <4>2 DEF HasHeard, After
    <3> QED
      BY <3>2, <3>9
  <2>4. CASE ~Result.close
    <3>1. /\ sessions' = [sessions EXCEPT ![Fd] = [buffer |-> Rest, auth |-> Result.auth]]
          /\ file' = file
      BY <2>4 DEF ServeLine
    <3>2. Result.close = FALSE
      BY <1>1, <2>4, LineTypes DEF Inv
    <3>3. ASSUME NEW f \in Fds, file'[f] = c PROVE SessionHears(c, f)'
      <4>1. f = Fd
        BY <1>5, <1>7, <3>1, <3>3
      <4>2. sessions'[f] = [buffer |-> Rest, auth |-> Result.auth]
        BY <1>1, <3>1, <4>1 DEF Inv, TypeInv
      <4>3. /\ script' = script /\ requirepass' = requirepass /\ taken' = taken
        BY <1>2
      <4>4. sessions'[f].buffer = Rest /\ sessions'[f].auth = Result.auth
        BY <4>2
      <4>5. HeardAfter(script'[c], requirepass')[taken'[c] - Len(sessions'[f].buffer)] =
              [line |-> << >>, auth |-> sessions'[f].auth, over |-> FALSE, answers |-> inbox'[c]]
        BY <2>1, <3>2, <4>3, <4>4
      <4> QED
        BY <4>5 DEF SessionHears, After
    <3>4. Accepted(c)'
      BY <1>1, <1>7, <3>1 DEF Accepted
    <3> QED
      BY <3>3, <3>4
  <2> QED
    BY <2>3, <2>4
<1>8. SUFFICES ASSUME NEW c \in Connections, ~overrun'[c]
      PROVE  /\ \A f \in Fds : file'[f] = c => SessionHears(c, f)'
             /\ ~Accepted(c)' => HasHeard(c)'
  BY DEF ReplyInv
<1> QED
  BY <1>6, <1>7, <1>8

\* At first nobody is owed an answer.
LEMMA InitReplies == Init => ReplyInv
<1> SUFFICES ASSUME Init, NEW c \in Connections PROVE ReplyInv
  BY DEF ReplyInv
<1>1. \A d \in Connections : ~Accepted(d)
  BY TcpServerAssumption DEF Init, Accepted
<1>2. \A d \in Connections : script[d] \in Seq(Words) /\ taken[d] = 0 /\ inbox[d] = << >>
  BY TcpServerAssumption DEF Init
<1>3. \A d \in Connections : After(d, taken[d]).answers = << >>
  <2> TAKE d \in Connections
  <2>1. HeardAfter(script[d], requirepass)[0] = Unheard(requirepass)
    BY <1>2, HeardEquation
  <2> QED
    BY <1>2, <2>1 DEF After, Unheard
<1>4. IsPrefix(<< >>, << >>)
  BY DEF IsPrefix
<1>5. \A d \in Connections : HasHeard(d)
  BY <1>2, <1>3, <1>4 DEF HasHeard
<1>6. \A d \in Connections : \A fd \in Fds : file[fd] # d
  BY <1>1 DEF Accepted
<1> QED
  BY <1>1, <1>5, <1>6 DEF ReplyInv

\* No step answers a client otherwise than it should be.
LEMMA StepReplies ==
  ASSUME Inv, ReplyInv, [Next]_vars
  PROVE  ReplyInv'
<1>0. TypeInv /\ TableInv
  BY DEF Inv
<1>1. CASE Signal \/ Finish
  BY <1>0, <1>1, StopEffect, StoppingReplies
<1>2. CASE \/ Construct \/ Start \/ PollFails \/ Killed \/ LeaveLoop \/ AcceptNone \/ ClientsDone
           \/ NothingThere \/ LinesDone \/ Poll \/ UNCHANGED vars
           \/ \E c \in Connections : Say(c) \/ Read(c) \/ Leave(c)
  BY <1>0, <1>2, StillEffect, StillReplies
<1> QED
  BY <1>1, <1>2, AcceptReplies, HangUpReplies, ReceiveReplies, ServeReplies, ConnectReplies
     DEF Next, Loop

\* The invariants give RepliesAreAnswers.
LEMMA RepliesFollow ==
  ASSUME Inv, ReplyInv
  PROVE  RepliesAreAnswers
<1> SUFFICES ASSUME NEW c \in Connections, ~overrun[c]
    PROVE  /\ IsPrefix(inbox[c], AnswersTo(Heard(c)))
           /\ pc = "poll" => inbox[c] = AnswersTo(Heard(c))
  BY DEF RepliesAreAnswers
<1>1. script[c] \in Seq(Words) /\ taken[c] \in 0 .. Len(script[c])
  BY DEF Inv, TypeInv
<1>2. AnswersTo(Heard(c)) = After(c, taken[c]).answers
  <2> DEFINE w == script[c]
             t == taken[c]
  <2>1. w \in Seq(Words) /\ t \in 0 .. Len(w)
    BY <1>1
  <2> HIDE DEF w, t
  <2>2. Len(SubSeq(w, 1, t)) = t
    <3>1. \A n \in 1 .. t : w[n] \in Words
      BY <2>1
    <3> QED
      BY <2>1, <3>1, SubSeqProperties
  <2>3. HeardAfter(SubSeq(w, 1, t), requirepass)[t] = HeardAfter(w, requirepass)[t]
    BY <2>1, HeardOfPrefix
  <2> QED
    BY <2>2, <2>3 DEF AnswersTo, Heard, After, w, t
<1>3. IsPrefix(inbox[c], After(c, taken[c]).answers)
      /\ (pc = "poll" => inbox[c] = After(c, taken[c]).answers)
  <2>1. CASE ~Accepted(c)
    BY <2>1 DEF ReplyInv, HasHeard, Broken
  <2>2. CASE Accepted(c)
    <3>1. PICK fd \in Fds : file[fd] = c
      BY <2>2 DEF Accepted
    <3>2. SessionHears(c, fd)
      BY <3>1 DEF ReplyInv
    <3>3. pc = "poll" => ~HasLine(sessions[fd].buffer)
      BY <3>1 DEF Inv, BufferInv, Broken
    <3> QED
      BY <3>1, <3>2, <3>3, BufferedHeard
  <2> QED
    BY <2>1, <2>2
<1> QED
  BY <1>2, <1>3

\* Every client that reads its answers gets those to its own lines, in order, and has
\* them all whenever the server polls: RepliesAreAnswers, for every number of clients
\* and descriptors, every size of recv and whatever is sent.
THEOREM ClientsGetTheirAnswers == Spec => []RepliesAreAnswers
<1>1. Init => ReplyInv
  BY InitReplies
<1>2. Inv /\ ReplyInv /\ [Next]_vars => ReplyInv'
  BY StepReplies
<1>3. Inv /\ ReplyInv => RepliesAreAnswers
  BY RepliesFollow
<1> QED
  BY <1>1, <1>2, <1>3, Invariance, PTL DEF Spec
=============================================================================
